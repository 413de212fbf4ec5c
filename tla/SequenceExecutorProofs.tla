------------------------ MODULE SequenceExecutorProofs ------------------------
(***************************************************************************)
(* The request executor, for every number of requests, lanes and pages,    *)
(* every page size, window and budget: it calls the prefix cache only as   *)
(* that allows, so that what is proved of the cache holds under it, and a   *)
(* request that is not open holds nothing.                                 *)
(***************************************************************************)
EXTENDS SequenceExecutor, TargetKvRadixProofs

-----------------------------------------------------------------------------
(* The inductive invariant *)

(* What is known of one request at each stage of its life.                 *)
Sound(r) ==
  /\ seq[r].stage # "idle" =>
       /\ seq[r].prompt # <<>> /\ seq[r].budget > 0
       /\ Len(seq[r].prompt) + seq[r].budget <= MaxContext
       /\ seq[r].prompt \sqsubseteq seq[r].text /\ seq[r].done \sqsubseteq seq[r].text
       /\ Generated(r) <= seq[r].budget
  /\ seq[r].stage \in Opening => seq[r].text = seq[r].prompt
  /\ seq[r].stage \in {"probed", "realign", "reserved"} => r \notin Plain
  /\ seq[r].stage = "realign" => Len(seq[r].done) < Len(seq[r].prompt)
  /\ seq[r].stage = "ready" => Len(seq[r].done) + 1 = Len(seq[r].text)
  /\ seq[r].stage \in {"bound", "primed"} => seq[r].done = matched[r]
  /\ seq[r].stage \notin {"primed", "ready", "failed", "spent"} => draft[r] = NoSlot
  /\ Resident(r) => seq[r].lane \in Lane
  /\ Resident(r) /\ seq[r].stage # "failed" => draft[r].context <= Len(seq[r].done)

(* What is known of its reservation. *)
Backed(r) ==
  /\ r \in active <=> r \notin Plain /\ seq[r].stage \notin {"idle", "realign", "spent"}
  /\ r \in active =>
       /\ capacity[r] \in Capacities
       /\ Len(seq[r].prompt) + seq[r].budget <= capacity[r]
       /\ matched[r] \sqsubseteq seq[r].prompt /\ Len(matched[r]) < Len(seq[r].prompt)
       /\ seq[r].stage \in {"ready", "failed"} => matched[r] \sqsubseteq seq[r].done
       /\ seq[r].stage = "primed" => PagesFor(Frontier(r)) <= Len(PageTable(r))
       /\ seq[r].stage \in {"ready", "failed"} => PagesFor(Len(seq[r].done)) <= Len(PageTable(r))

Turns == \A r \in Request : turn = r <=> seq[r].stage \in Opening

OwnInv ==
  /\ ExecTypeOK
  /\ \A r \in Request : Sound(r) /\ Backed(r)
  /\ Turns

EInv == IInv /\ OwnInv

-----------------------------------------------------------------------------
(* Texts and numbers *)

(* The smaller of two numbers. *)
LEMMA MinOfNat ==
  ASSUME NEW a \in Nat, NEW b \in Nat
  PROVE  /\ MinOf(a, b) \in Nat
         /\ MinOf(a, b) <= a /\ MinOf(a, b) <= b
         /\ MinOf(a, b) = a \/ MinOf(a, b) = b
BY DEF MinOf

(* Texts are token sequences, closed under prefixes. *)
LEMMA TextsType ==
  ASSUME NEW ids \in Texts
  PROVE  /\ ids \in Seq(Token)
         /\ Len(ids) \in Nat
         /\ Prefixes(ids) \subseteq Texts
         /\ \A k \in 0..Len(ids) : SubSeq(ids, 1, k) \in Texts
<1>1. ids \in Seq(Token) /\ Prefixes(ids) \subseteq Texts
  BY RadixAssumption, ExecutorAssumption DEF RadixAssumption, ExecutorAssumption
<1>2. \A k \in 0..Len(ids) : SubSeq(ids, 1, k) \in Prefixes(ids)
  BY DEF Prefixes
<1> QED BY <1>1, <1>2, LenProperties

(* Dropping the last element of a sequence. *)
LEMMA FrontOfSequence ==
  ASSUME NEW S, NEW s \in Seq(S), Len(s) > 0
  PROVE  /\ Front(s) \in Seq(S)
         /\ Len(Front(s)) = Len(s) - 1
         /\ \A i \in 1..(Len(s) - 1) : Front(s)[i] = s[i]
<1>1. PICK k \in 0..Len(s) : k = Len(s) - 1
  BY SMTT(20)
<1>2. Front(s) = SubSeq(s, 1, k)
  BY <1>1 DEF Front
<1> QED BY <1>1, <1>2, SubSeqPrefix

(* Dropping the last token of a prompt. *)
LEMMA FrontText ==
  ASSUME NEW ids \in Texts, ids # <<>>
  PROVE  /\ Front(ids) \in Texts
         /\ Len(Front(ids)) = Len(ids) - 1
         /\ Len(ids) > 0
         /\ Front(ids) \sqsubseteq ids
<1>1. ids \in Seq(Token) /\ Len(ids) \in Nat /\ Len(ids) # 0
  BY TextsType, EmptySeq
<1>2. PICK k \in 0..Len(ids) : k = Len(ids) - 1
  BY <1>1, SMTT(20)
<1>3. Front(ids) = SubSeq(ids, 1, k)
  BY <1>2 DEF Front
<1> QED BY <1>1, <1>2, <1>3, TextsType, SubSeqPrefix

(* The prefixes of a text. *)
LEMMA PrefixOfText ==
  ASSUME NEW ids \in Texts, NEW m \in Prefixes(ids)
  PROVE  /\ m \in Texts /\ m \in Seq(Token)
         /\ m \sqsubseteq ids /\ Len(m) <= Len(ids) /\ Len(m) \in Nat
<1>1. ids \in Seq(Token) /\ m \in Texts
  BY TextsType
<1>2. PICK k \in 0..Len(ids) : m = SubSeq(ids, 1, k)
  BY DEF Prefixes
<1> QED BY <1>1, <1>2, TextsType, SubSeqPrefix DEF \sqsubseteq

(* The logical capacity of a request that fits is one the cache takes, and  *)
(* covers its prompt and its budget.                                       *)
LEMMA CapacityFits ==
  ASSUME NEW ids \in Texts, NEW budget \in Nat \ {0}, Fits(ids, budget)
  PROVE  /\ Capacity(ids, budget) \in Capacities
         /\ Len(ids) + budget <= Capacity(ids, budget)
<1>1. Len(ids) \in Nat /\ Len(ids) > 0
  BY TextsType, FrontText DEF Fits
<1>2. /\ MaxContext \in Capacities /\ MaxContext \in Nat /\ Headroom \in Nat
      /\ Capacities = 1..(Cardinality(Page) * PageTokens)
      /\ Cardinality(Page) * PageTokens \in Nat
  <2>1. Cardinality(Page) * PageTokens \in Nat
    BY RadixAssumption, FS_CardinalityType DEF RadixAssumption
  <2> QED BY <2>1, ExecutorAssumption DEF ExecutorAssumption, Capacities
<1>3. MinOf(Len(ids), Headroom) \in Nat
  BY <1>1, <1>2, MinOfNat
<1>4. PICK x \in Nat : x = Len(ids) + budget + MinOf(Len(ids), Headroom) /\ x >= Len(ids) + budget
  BY <1>1, <1>3
<1>5. Capacity(ids, budget) = MinOf(x, MaxContext)
  BY <1>4 DEF Capacity
<1>6. /\ MinOf(x, MaxContext) \in Nat /\ MinOf(x, MaxContext) <= MaxContext
      /\ MinOf(x, MaxContext) = x \/ MinOf(x, MaxContext) = MaxContext
  BY <1>2, <1>4, MinOfNat
<1>7. Len(ids) + budget <= MaxContext
  BY DEF Fits
<1> QED BY <1>1, <1>2, <1>4, <1>5, <1>6, <1>7

(* The types of what is kept of one request, from ExecTypeOK. *)
LEMMA RequestTypes ==
  ASSUME EInv, NEW r \in Request
  PROVE  /\ seq[r].stage \in Stages /\ seq[r].prompt \in Texts /\ seq[r].text \in Texts
         /\ seq[r].done \in Texts /\ seq[r].budget \in Nat /\ seq[r].drafting \in BOOLEAN
         /\ seq[r].lane \in Lane \cup {Lanes}
         /\ Len(seq[r].prompt) \in Nat /\ Len(seq[r].text) \in Nat /\ Len(seq[r].done) \in Nat
         /\ draft[r].slot \in BOOLEAN /\ draft[r].context \in Nat
         /\ draft[r].rows \in Seq(Texts) /\ Len(draft[r].rows) \in Nat
         /\ matched[r] \in Seq(Token) /\ Len(matched[r]) \in Nat
         /\ capacity[r] \in Nat
         /\ PageTable(r) \in Seq(Page) /\ Len(PageTable(r)) \in Nat
<1>1. seq[r] \in Sequence
  BY DEF EInv, OwnInv, ExecTypeOK
<1>2. draft[r] \in DraftCache
  BY DEF EInv, OwnInv, ExecTypeOK
<1>3. shared[r] \in Seq(Page) /\ private[r] \in Seq(Page)
  BY DEF EInv, IInv, TypeOK
<1>4. PageTable(r) \in Seq(Page) /\ Len(PageTable(r)) \in Nat
  BY <1>3, ConcatProperties, LenProperties DEF PageTable
<1>5. matched[r] \in Seq(Token) /\ capacity[r] \in Nat
  BY DEF EInv, IInv, TypeOK
<1> QED BY <1>1, <1>2, <1>4, <1>5, TextsType, LenProperties DEF Sequence, DraftCache

-----------------------------------------------------------------------------
(* The executor and the prefix cache *)

(* The reservation that an opening makes is one of the cache's steps. *)
LEMMA ReserveIsRadixStep ==
  ASSUME NEW r \in Request, NEW ids \in Texts, NEW cap \in Capacities,
         NEW m \in Prefixes(ids),
         Reserve(r, ids, cap, m) \/ ReserveRefused(r, ids, cap, m)
  PROVE  Next
BY DEF Next

(* Opening a request reserves, or is refused, as the cache allows. *)
LEMMA ProbeUsesRadix ==
  ASSUME NEW r \in Request, NEW ids \in Texts, NEW budget \in Budgets,
         NEW m \in Prefixes(Front(ids)), NEW drafting,
         Probe(r, ids, budget, drafting, m) \/ ProbeRefused(r, ids, budget, m)
  PROVE  Next
<1>1. Fits(ids, budget) /\ ids # <<>>
  BY DEF Probe, ProbeRefused, Fits
<1>2. budget \in Nat \ {0}
  BY ExecutorAssumption DEF ExecutorAssumption
<1>3. Front(ids) \in Texts /\ Capacity(ids, budget) \in Capacities
  BY <1>1, <1>2, FrontText, CapacityFits
<1>4. \/ Reserve(r, Front(ids), Capacity(ids, budget), m)
      \/ ReserveRefused(r, Front(ids), Capacity(ids, budget), m)
  BY DEF Probe, ProbeRefused
<1> QED BY <1>3, <1>4, ReserveIsRadixStep

(* So does the second reservation, of the aligned match. *)
LEMMA RealignUsesRadix ==
  ASSUME EInv, NEW r \in Request, NEW m \in Prefixes(seq[r].done),
         Realign(r, m) \/ RealignRefused(r, m)
  PROVE  Next
<1>1. seq[r].stage = "realign"
  BY DEF Realign, RealignRefused
<1>2. Fits(seq[r].prompt, seq[r].budget) /\ seq[r].budget \in Nat \ {0}
  BY <1>1, RequestTypes DEF EInv, OwnInv, Sound, Fits
<1>3. Capacity(seq[r].prompt, seq[r].budget) \in Capacities /\ seq[r].done \in Texts
  BY <1>2, CapacityFits, RequestTypes
<1>4. \/ Reserve(r, seq[r].done, Capacity(seq[r].prompt, seq[r].budget), m)
      \/ ReserveRefused(r, seq[r].done, Capacity(seq[r].prompt, seq[r].budget), m)
  BY DEF Realign, RealignRefused
<1> QED BY <1>3, <1>4, ReserveIsRadixStep

(* Every pass asks for a number of tokens within the capacity. *)
LEMMA FrontierFits ==
  ASSUME EInv, NEW r \in active, r \in Request
  PROVE  /\ MinOf(Len(seq[r].prompt), capacity[r]) \in Capacities
         /\ Frontier(r) \in Capacities
         /\ Frontier(r) \in Nat
<1>1. /\ capacity[r] \in Capacities
      /\ seq[r].prompt # <<>> /\ seq[r].prompt \sqsubseteq seq[r].text
  BY DEF EInv, OwnInv, Sound, Backed
<1>2. Len(seq[r].prompt) \in Nat /\ Len(seq[r].prompt) > 0
      /\ Len(seq[r].text) \in Nat /\ Len(seq[r].text) > 0
  BY <1>1, RequestTypes, TextsType, EmptySeq DEF \sqsubseteq
<1>3. PICK k \in Nat : Capacities = 1..k
  BY RadixAssumption, FS_CardinalityType DEF Capacities, RadixAssumption
<1>4. Len(seq[r].text) + MaxDrafts \in Nat /\ Len(seq[r].text) + MaxDrafts > 0
  BY <1>2, ExecutorAssumption DEF ExecutorAssumption
<1>5. MinOf(Len(seq[r].prompt), capacity[r]) \in 1..k
  BY <1>1, <1>2, <1>3 DEF MinOf
<1>6. Frontier(r) \in 1..k
  BY <1>1, <1>3, <1>4 DEF MinOf, Frontier
<1> QED BY <1>3, <1>5, <1>6

(* What a finished sequence publishes is one of the texts. *)
LEMMA PublishedIsText ==
  ASSUME EInv, NEW r \in Request
  PROVE  PublishedText(r) \in Texts
<1>1. CASE Retains(r)
  <2>1. draft[r].context \in 0..Len(seq[r].done)
    BY <1>1, RequestTypes DEF Retains
  <2> QED BY <1>1, <2>1, RequestTypes, TextsType DEF PublishedText, LastTail
<1>2. CASE ~Retains(r)
  BY <1>2, RequestTypes DEF PublishedText
<1> QED BY <1>1, <1>2

(* Finishing publishes or drops the reservation, and does no more. *)
LEMMA FinishUsesRadix ==
  ASSUME EInv, NEW r \in Request, NEW m \in Prefixes(PublishedText(r)), Finish(r, m)
  PROVE  [Next]_vars
<1>1. \/ UNCHANGED vars \/ Commit(r, PublishedText(r), m) \/ Cancel(r)
  BY DEF Finish
<1> QED BY <1>1, PublishedIsText DEF Next

(* So does every other step of an opening. *)
LEMMA OpeningUsesRadix ==
  ASSUME EInv, NEW r \in Request,
         \/ DropMatch(r) \/ TakeLane(r) \/ NoLane(r) \/ CopyBoundary(r) \/ Extend(r)
         \/ Prepare(r) \/ NoDraftSlot(r) \/ PassFails(r) \/ PassBreaks(r)
  PROVE  [Next]_vars
<1>1. CASE DropMatch(r) \/ NoLane(r) \/ CopyBoundary(r)
  BY <1>1 DEF DropMatch, NoLane, CopyBoundary, Next
<1>2. CASE TakeLane(r)
  <2>1. r \in active /\ EnsureMaterialized(r, MinOf(Len(seq[r].prompt), capacity[r]))
    BY <1>2 DEF TakeLane, EnsureMaterialized
  <2> QED BY <2>1, FrontierFits DEF Next
<1>3. CASE Extend(r)
  <2>1. r \in active /\ EnsureMaterialized(r, Frontier(r))
    BY <1>3 DEF Extend, EnsureMaterialized
  <2> QED BY <2>1, FrontierFits DEF Next
<1>4. CASE Prepare(r) \/ PassFails(r)
  BY <1>4 DEF Prepare, PassFails
<1>5. CASE NoDraftSlot(r) \/ PassBreaks(r)
  <2>1. LoseState(r)
    BY <1>5 DEF NoDraftSlot, PassBreaks
  <2> QED BY <2>1 DEF LoseState, Next
<1> QED BY <1>1, <1>2, <1>3, <1>4, <1>5

(* Every step of the executor is one of the cache's, or none. *)
LEMMA StepUsesRadix == EInv /\ [ExecNext]_execVars => [Next]_vars
<1> SUFFICES ASSUME EInv, [ExecNext]_execVars PROVE [Next]_vars
  OBVIOUS
<1>1. CASE UNCHANGED execVars
  BY <1>1 DEF execVars
<1>2. ASSUME NEW r \in Request, NEW ids \in Texts, NEW budget \in Budgets,
             NEW drafting \in {FALSE, budget > 1},
             \/ \E m \in Prefixes(Front(ids)) : Probe(r, ids, budget, drafting, m)
             \/ TakeLanePlain(r, ids, budget, drafting)
      PROVE  [Next]_vars
  BY <1>2, ProbeUsesRadix DEF TakeLanePlain
<1>3. ASSUME NEW r \in Request, NEW ids \in Texts, NEW budget \in Budgets,
             NEW m \in Prefixes(Front(ids)), ProbeRefused(r, ids, budget, m)
      PROVE  [Next]_vars
  BY <1>3, ProbeUsesRadix
<1>4. ASSUME NEW r \in Request, NEW m \in Prefixes(seq[r].done),
             Realign(r, m) \/ RealignRefused(r, m)
      PROVE  [Next]_vars
  BY <1>4, RealignUsesRadix
<1>5. ASSUME NEW r \in Request,
             \/ DropMatch(r) \/ TakeLane(r) \/ NoLane(r) \/ CopyBoundary(r) \/ Extend(r)
             \/ Prepare(r) \/ NoDraftSlot(r) \/ PassFails(r) \/ PassBreaks(r)
      PROVE  [Next]_vars
  BY <1>5, OpeningUsesRadix
<1>6. CASE \E r \in Request, t \in Token : FirstPass(r, t)
  BY <1>6 DEF FirstPass
<1>7. CASE \E r \in Request, ids \in Texts : NextPass(r, ids)
  BY <1>7 DEF NextPass
<1>8. CASE \E r \in Request : \E m \in Prefixes(PublishedText(r)) : Finish(r, m)
  BY <1>8, FinishUsesRadix
<1>9. CASE \E r \in Request, ids \in Texts, budget \in Budgets :
             \/ \E drafting \in {FALSE, budget > 1} :
                  \/ \E m \in Prefixes(Front(ids)) : Probe(r, ids, budget, drafting, m)
                  \/ TakeLanePlain(r, ids, budget, drafting)
             \/ \E m \in Prefixes(Front(ids)) : ProbeRefused(r, ids, budget, m)
  BY <1>9, <1>2, <1>3
<1>10. CASE \E r \in Request : \E m \in Prefixes(seq[r].done) :
              Realign(r, m) \/ RealignRefused(r, m)
  BY <1>10, <1>4
<1>11. CASE \E r \in Request :
              \/ DropMatch(r) \/ TakeLane(r) \/ NoLane(r) \/ CopyBoundary(r) \/ Extend(r)
              \/ Prepare(r) \/ NoDraftSlot(r) \/ PassFails(r) \/ PassBreaks(r)
  BY <1>11, <1>5
<1>12. CASE \E p \in Page : TakePage(p) /\ UNCHANGED own
  BY <1>12 DEF Next
<1>13. CASE \E n \in DOMAIN tree : EvictOneLeaf(n) /\ UNCHANGED own
  BY <1>13 DEF Next
<1>14. CASE ExecNext
  BY <1>6, <1>7, <1>8, <1>9, <1>10, <1>11, <1>12, <1>13, <1>14 DEF ExecNext
<1> QED BY <1>1, <1>14

-----------------------------------------------------------------------------
(* The tail cache and the draft rows *)

(* A nonempty set of positions has a least one.                            *)
LEMMA LeastPosition ==
  ASSUME NEW n \in Nat, NEW K \in SUBSET (1..n), K # {}
  PROVE  \E k \in K : \A j \in K : k <= j
<1> DEFINE T == {1..k : k \in K}
<1>1. IsFiniteSet(1..n)
  BY FS_Interval
<1>2. T \subseteq FiniteSubsetsOf(1..n)
  <2>1. \A k \in K : 1..k \in SUBSET (1..n)
    OBVIOUS
  <2> QED BY <1>1, <2>1, FS_FiniteSubsetsOfFinite
<1>3. PICK B \in T : \A C \in T : <<C, B>> \notin StrictSubsetOrdering(1..n)
  <2>1. IsWellFoundedOn(StrictSubsetOrdering(1..n), FiniteSubsetsOf(1..n))
    BY FS_StrictSubsetOrderingWellFounded
  <2>2. T # {}
    OBVIOUS
  <2> HIDE DEF T
  <2> QED BY <1>2, <2>1, <2>2, WFMin
<1>4. PICK k \in K : B = 1..k
  OBVIOUS
<1>5. ASSUME NEW j \in K, j < k PROVE FALSE
  <2>1. 1..j \in T /\ 1..j \in SUBSET (1..n) /\ 1..k \in SUBSET (1..n)
    OBVIOUS
  <2>2. <<1..j, 1..k>> \notin StrictSubsetOrdering(1..n)
    BY <1>3, <1>4, <2>1
  <2>3. 1..j \subseteq 1..k /\ k \in 1..k /\ k \notin 1..j
    BY <1>5
  <2> QED BY <2>1, <2>2, <2>3 DEF StrictSubsetOrdering
<1> QED BY <1>5

(* The elements of a part of a sequence.                                   *)
LEMMA SubSeqElems ==
  ASSUME NEW S, NEW s \in Seq(S), NEW a \in 1..(Len(s) + 1), NEW b \in (a - 1)..Len(s)
  PROVE  /\ SubSeq(s, a, b) \in Seq(S)
         /\ Len(SubSeq(s, a, b)) = b - a + 1
         /\ \A i \in 1..(b - a + 1) : SubSeq(s, a, b)[i] = s[a + i - 1]
         /\ Elems(SubSeq(s, a, b)) \subseteq Elems(s)
<1>1. /\ SubSeq(s, a, b) \in Seq(S)
      /\ Len(SubSeq(s, a, b)) = b - a + 1
      /\ \A i \in 1..(b - a + 1) : SubSeq(s, a, b)[i] = s[a + i - 1]
  BY SubSeqProperties
<1> QED BY <1>1 DEF Elems

(* Taking an entry out of the tail cache leaves the others.                *)
LEMMA WithoutKeepsOthers ==
  ASSUME NEW ts \in Seq(TailEntry), NEW key
  PROVE  /\ Without(ts, key) \in Seq(TailEntry)
         /\ Elems(Without(ts, key)) \subseteq Elems(ts)
<1>1. CASE \A i \in 1..Len(ts) : ts[i].key # key
  BY <1>1 DEF Without
<1>2. CASE \E i \in 1..Len(ts) : ts[i].key = key
  <2> DEFINE at == CHOOSE i \in 1..Len(ts) : ts[i].key = key
             a  == SubSeq(ts, 1, at - 1)
             b  == SubSeq(ts, at + 1, Len(ts))
  <2>1. at \in 1..Len(ts) /\ Len(ts) \in Nat
    BY <1>2
  <2>2. Without(ts, key) = a \o b
    BY <1>2 DEF Without
  <2> HIDE DEF at
  <2>3. a \in Seq(TailEntry) /\ Elems(a) \subseteq Elems(ts)
    BY <2>1, SubSeqElems
  <2>4. b \in Seq(TailEntry) /\ Elems(b) \subseteq Elems(ts)
    BY <2>1, SubSeqElems
  <2> HIDE DEF a, b
  <2>5. a \o b \in Seq(TailEntry) /\ Elems(a \o b) \subseteq Elems(a) \cup Elems(b)
    BY <2>3, <2>4, ConcatProperties DEF Elems
  <2> QED BY <2>2, <2>3, <2>4, <2>5
<1> QED BY <1>1, <1>2

(* The position from which an insertion keeps the older entries.           *)
FirstKept(ts, e) ==
  CHOOSE i \in 1..(Len(ts) + 1) :
    /\ Bulk(ts, i) + Len(e.rows) <= TailRows
    /\ \A j \in 1..(i - 1) : Bulk(ts, j) + Len(e.rows) > TailRows

(* The rows of the entries from..to, one pair for each.                    *)
RowPairs(ts, from, to) == UNION {{i} \X (1..Len(ts[i].rows)) : i \in from..to}

(* Those pairs, in the form membership is used in. *)
LEMMA RowPairsMembers ==
  ASSUME NEW ts, NEW from, NEW to
  PROVE  /\ \A x \in RowPairs(ts, from, to) :
              \E i \in from..to : \E j \in 1..Len(ts[i].rows) : x = <<i, j>>
         /\ \A i \in from..to : \A j \in 1..Len(ts[i].rows) : <<i, j>> \in RowPairs(ts, from, to)
BY DEF RowPairs

(* They are finitely many. *)
LEMMA RowPairsFinite ==
  ASSUME NEW ts \in Seq(TailEntry), NEW from \in 1..(Len(ts) + 1)
  PROVE  /\ IsFiniteSet(RowPairs(ts, from, Len(ts)))
         /\ Cardinality(RowPairs(ts, from, Len(ts))) \in Nat
         /\ Bulk(ts, from) = Cardinality(RowPairs(ts, from, Len(ts)))
<1> DEFINE row(i) == {i} \X (1..Len(ts[i].rows))
           S == {row(i) : i \in from..Len(ts)}
<1>1. Len(ts) \in Nat
  OBVIOUS
<1>2. IsFiniteSet(from..Len(ts))
  BY <1>1, FS_Interval
<1>3. ASSUME NEW i \in from..Len(ts) PROVE IsFiniteSet(row(i))
  <2>1. Len(ts[i].rows) \in Nat
    BY <1>1 DEF TailEntry
  <2>2. IsFiniteSet(1..Len(ts[i].rows))
    <3>1. \A n \in Nat : IsFiniteSet(1..n)
      BY FS_Interval
    <3> QED BY <2>1, <3>1
  <2>3. IsFiniteSet({i})
    BY FS_Singleton
  <2> QED BY <2>2, <2>3, FS_Product
<1>4. IsFiniteSet(S)
  <2> DEFINE f == [i \in from..Len(ts) |-> row(i)]
  <2>1. f \in Surjection(from..Len(ts), S)
    BY DEF Surjection
  <2> QED BY <1>2, <2>1, FS_Surjection
<1>5. IsFiniteSet(UNION S)
  BY <1>3, <1>4, FS_UNION
<1>6. Bulk(ts, from) = Cardinality(UNION S) /\ UNION S = RowPairs(ts, from, Len(ts))
  BY DEF Bulk, RowPairs
<1> HIDE DEF S
<1> QED BY <1>5, <1>6, FS_CardinalityType

(* The rows of the entries from a position on are a finite number.         *)
LEMMA BulkType ==
  ASSUME NEW ts \in Seq(TailEntry), NEW from \in 1..(Len(ts) + 1)
  PROVE  /\ Bulk(ts, from) \in Nat
         /\ from = Len(ts) + 1 => Bulk(ts, from) = 0
<1>1. /\ Bulk(ts, from) = Cardinality(RowPairs(ts, from, Len(ts)))
      /\ Cardinality(RowPairs(ts, from, Len(ts))) \in Nat
  BY RowPairsFinite
<1>2. from = Len(ts) + 1 => RowPairs(ts, from, Len(ts)) = {}
  <2>1. Len(ts) \in Nat
    OBVIOUS
  <2> QED BY <2>1 DEF RowPairs
<1> QED BY <1>1, <1>2, FS_EmptySet

(* That position exists.                                                   *)
LEMMA FirstKeptExists ==
  ASSUME NEW ts \in Seq(TailEntry), NEW e \in TailEntry, Len(e.rows) <= TailRows
  PROVE  /\ FirstKept(ts, e) \in 1..(Len(ts) + 1)
         /\ Bulk(ts, FirstKept(ts, e)) + Len(e.rows) <= TailRows
<1> DEFINE n == Len(ts) + 1
           K == {i \in 1..n : Bulk(ts, i) + Len(e.rows) <= TailRows}
<1>1. n \in Nat /\ Len(ts) \in Nat /\ n \in 1..n /\ Len(e.rows) \in Nat /\ TailRows \in Nat
  BY ExecutorAssumption DEF TailEntry, ExecutorAssumption
<1>2. Bulk(ts, n) = 0
  BY <1>1, BulkType
<1>3. n \in K
  BY <1>1, <1>2
<1>4. PICK k \in K : \A j \in K : k <= j
  BY <1>1, <1>3, LeastPosition
<1>5. ASSUME NEW j \in 1..(k - 1) PROVE Bulk(ts, j) + Len(e.rows) > TailRows
  <2>1. j \in 1..n /\ j < k /\ j \notin K
    BY <1>1, <1>4
  <2>2. Bulk(ts, j) \in Nat
    BY <2>1, BulkType
  <2> QED BY <1>1, <2>1, <2>2
<1>6. /\ k \in 1..(Len(ts) + 1)
      /\ Bulk(ts, k) + Len(e.rows) <= TailRows
      /\ \A j \in 1..(k - 1) : Bulk(ts, j) + Len(e.rows) > TailRows
  BY <1>4, <1>5
<1> QED BY <1>6 DEF FirstKept

(* An insertion keeps entries of the cache, and adds the new one at most.  *)
LEMMA TailInsertKeepsOthers ==
  ASSUME NEW ts \in Seq(TailEntry), NEW e \in TailEntry
  PROVE  /\ TailInsert(ts, e) \in Seq(TailEntry)
         /\ Elems(TailInsert(ts, e)) \subseteq Elems(ts) \cup {e}
<1>0. Len(e.rows) \in Nat /\ TailRows \in Nat
  BY ExecutorAssumption DEF TailEntry, ExecutorAssumption
<1>1. CASE Len(e.rows) > TailRows
  BY <1>1 DEF TailInsert
<1>2. CASE Len(e.rows) <= TailRows
  <2> DEFINE others == Without(ts, e.key)
             first  == FirstKept(others, e)
             kept   == SubSeq(others, first, Len(others))
  <2>1. TailInsert(ts, e) = Append(kept, e)
    <3>1. ~(Len(e.rows) > TailRows)
      BY <1>0, <1>2
    <3> QED BY <3>1 DEF TailInsert, FirstKept
  <2>2. others \in Seq(TailEntry) /\ Elems(others) \subseteq Elems(ts)
    BY WithoutKeepsOthers
  <2>3. first \in 1..(Len(others) + 1)
    BY <1>2, <2>2, FirstKeptExists
  <2> HIDE DEF others, first
  <2>4. kept \in Seq(TailEntry) /\ Elems(kept) \subseteq Elems(others)
    <3>1. Len(others) \in (first - 1)..Len(others)
      BY <2>2, <2>3
    <3> QED BY <2>2, <2>3, <3>1, SubSeqElems
  <2> HIDE DEF kept
  <2>5. Append(kept, e) \in Seq(TailEntry) /\ Elems(Append(kept, e)) = Elems(kept) \cup {e}
    BY <2>4, AppendElems
  <2> QED BY <2>1, <2>2, <2>4, <2>5
<1> QED BY <1>0, <1>1, <1>2

(* Draft rows are named by prefixes of their text.                         *)
LEMMA RowsType ==
  ASSUME NEW ids \in Texts, NEW from \in Nat, NEW to \in from..Len(ids)
  PROVE  /\ RowsOf(ids, from, to) \in Seq(Texts)
         /\ Len(RowsOf(ids, from, to)) = to - from
         /\ \A i \in 1..(to - from) : RowsOf(ids, from, to)[i] = SubSeq(ids, 1, from + i)
<1>1. Len(ids) \in Nat /\ to \in Nat /\ to - from \in Nat
  BY TextsType
<1>2. \A i \in 1..(to - from) : from + i \in 0..Len(ids)
  BY <1>1
<1>3. \A i \in 1..(to - from) : SubSeq(ids, 1, from + i) \in Texts
  BY <1>2, TextsType
<1> QED BY <1>1, <1>3 DEF RowsOf

(* The whole pages that make room for n rows never exceed what is there,   *)
(* and what stays fills the window with the new rows if it did before.     *)
LEMMA RolledKeepsLastRows ==
  ASSUME NEW rows \in Seq(Texts), NEW n \in 0..Window
  PROVE  \E drop \in 0..Len(rows) :
           /\ Rolled(rows, n) = SubSeq(rows, drop + 1, Len(rows))
           /\ Rolled(rows, n) \in Seq(Texts)
           /\ Len(Rolled(rows, n)) = Len(rows) - drop
           /\ drop = 0 \/ Len(rows) - drop + n >= Window
<1>1. Window \in Nat /\ DraftPage \in Nat /\ DraftPage > 0 /\ Window > 0 /\ Len(rows) \in Nat
  BY ExecutorAssumption DEF ExecutorAssumption
<1> DEFINE over == Len(rows) + n - (Window + DraftPage - 1)
           drop == IF over <= 0 THEN 0
                   ELSE ((over + DraftPage - 1) \div DraftPage) * DraftPage
<1>2. Rolled(rows, n) = SubSeq(rows, drop + 1, Len(rows))
  BY DEF Rolled
<1>3. over \in Int /\ over <= Len(rows) - DraftPage + 1
  BY <1>1
<1>4. drop \in 0..Len(rows) /\ (drop = 0 \/ Len(rows) - drop + n >= Window)
  <2>1. CASE over <= 0
    BY <1>1, <2>1
  <2>2. CASE over > 0
    <3> DEFINE x == over + DraftPage - 1
    <3>1. x \in Nat
      BY <1>1, <1>3, <2>2
    <3>2. drop = (x \div DraftPage) * DraftPage
      BY <1>3, <2>2
    <3>3. \A y \in Nat : (y \div DraftPage) * DraftPage \in 0..y
      BY <1>1
    <3>4. drop \in 0..x
      BY <3>1, <3>2, <3>3
    <3> HIDE DEF drop
    <3> QED BY <1>1, <1>3, <3>1, <3>4
  <2> QED BY <1>3, <2>1, <2>2
<1> HIDE DEF drop
<1>5. /\ SubSeq(rows, drop + 1, Len(rows)) \in Seq(Texts)
      /\ Len(SubSeq(rows, drop + 1, Len(rows))) = Len(rows) - drop
  <2>1. drop + 1 \in 1..(Len(rows) + 1) /\ Len(rows) \in (drop + 1 - 1)..Len(rows)
    BY <1>1, <1>4
  <2>2. Len(rows) - (drop + 1) + 1 = Len(rows) - drop
    BY <1>1, <1>4
  <2> QED BY <2>1, <2>2, SubSeqElems
<1> QED BY <1>2, <1>4, <1>5

(* A replay of at most a window of rows gives a draft cache.               *)
LEMMA ReplayedType ==
  ASSUME NEW d \in DraftCache, NEW start \in Nat, NEW rows \in Seq(Texts),
         Len(rows) <= Window
  PROVE  /\ Replayed(d, start, rows) \in DraftCache
         /\ Replayed(d, start, rows).slot = d.slot
         /\ Replayed(d, start, rows).context = start + Len(rows)
         /\ Replayed(d, start, rows).rows = Rolled(d.rows, Len(rows)) \o rows
         /\ Len(Replayed(d, start, rows).rows) >= Len(rows)
<1>1. Len(rows) \in 0..Window /\ Len(rows) \in Nat /\ d.rows \in Seq(Texts)
  BY ExecutorAssumption DEF ExecutorAssumption, DraftCache
<1>2. Rolled(d.rows, Len(rows)) \in Seq(Texts)
  BY <1>1, RolledKeepsLastRows
<1>3. /\ Rolled(d.rows, Len(rows)) \o rows \in Seq(Texts)
      /\ Len(Rolled(d.rows, Len(rows)) \o rows) = Len(Rolled(d.rows, Len(rows))) + Len(rows)
      /\ Len(Rolled(d.rows, Len(rows))) \in Nat
  BY <1>2, ConcatProperties, LenProperties
<1>4. start + Len(rows) \in Nat
  BY <1>1
<1> DEFINE all == Rolled(d.rows, Len(rows)) \o rows
           end == start + Len(rows)
<1>5. Replayed(d, start, rows) = [d EXCEPT !.context = end, !.rows = all]
  BY DEF Replayed
<1>6. all \in Seq(Texts) /\ Len(all) >= Len(rows) /\ end \in Nat
  BY <1>1, <1>3, <1>4
<1> HIDE DEF all, end
<1>7. /\ [d EXCEPT !.context = end, !.rows = all] \in DraftCache
      /\ [d EXCEPT !.context = end, !.rows = all].slot = d.slot
      /\ [d EXCEPT !.context = end, !.rows = all].context = end
      /\ [d EXCEPT !.context = end, !.rows = all].rows = all
  BY <1>6 DEF DraftCache
<1> QED BY <1>5, <1>6, <1>7 DEF all, end

-----------------------------------------------------------------------------
(* Steps that leave a request alone *)

(* A step that neither moves a request on nor shortens its page table.     *)
Kept(q) ==
  /\ seq'[q] = seq[q] /\ draft'[q] = draft[q]
  /\ matched'[q] = matched[q] /\ capacity'[q] = capacity[q]
  /\ q \in active' <=> q \in active
  /\ Len(PageTable(q))' >= Len(PageTable(q))

(* A request a step keeps stays sound: its pages may only have grown. *)
LEMMA KeptIsSound ==
  ASSUME EInv, IInv', NEW q \in Request, Kept(q)
  PROVE  Sound(q)' /\ Backed(q)'
<1>1. Sound(q) /\ Backed(q)
  BY DEF EInv, OwnInv
<1>2. Sound(q)'
  BY <1>1 DEF Sound, Kept, Generated, Resident
<1>3. /\ Len(PageTable(q)) \in Nat /\ Len(PageTable(q))' \in Nat
  <2>1. shared'[q] \in Seq(Page) /\ private'[q] \in Seq(Page)
    BY DEF IInv, TypeOK
  <2>2. Len(PageTable(q))' \in Nat
    BY <2>1, ConcatProperties, LenProperties DEF PageTable
  <2> QED BY <2>2, RequestTypes
<1>4. Frontier(q)' = Frontier(q)
  BY DEF Kept, Frontier
<1>5. q \in active =>
        PagesFor(Frontier(q)) \in Nat /\ PagesFor(Len(seq[q].done)) \in Nat
  BY FrontierFits, RequestTypes, PagesForProperties
<1>6. Backed(q)'
  <2> DEFINE have == Len(PageTable(q))
             need == PagesFor(Frontier(q))
             past == PagesFor(Len(seq[q].done))
  <2>1. q \in active =>
          /\ seq[q].stage = "primed" => need <= have'
          /\ seq[q].stage \in {"ready", "failed"} => past <= have'
    BY <1>1, <1>3, <1>5 DEF Backed, Kept
  <2>2. need' = need /\ past' = past
    BY <1>4 DEF Kept
  <2> HIDE DEF have, need, past
  <2> QED BY <1>1, <2>1, <2>2 DEF Backed, Kept, have, need, past
<1> QED BY <1>2, <1>6

(* What a reservation changes.                                             *)
LEMMA ReserveFrame ==
  ASSUME IInv, NEW r \in Request, NEW ids \in Texts, NEW cap \in Capacities,
         NEW m \in Prefixes(ids), Reserve(r, ids, cap, m)
  PROVE  /\ r \notin active /\ active' = active \cup {r}
         /\ matched'[r] = m /\ capacity'[r] = cap
         /\ \A q \in Request \ {r} :
              /\ matched'[q] = matched[q] /\ capacity'[q] = capacity[q]
              /\ PageTable(q)' = PageTable(q)
<1>1. /\ matched \in [Request -> Seq(Token)] /\ capacity \in [Request -> Nat]
      /\ shared \in [Request -> Seq(Page)]
  BY DEF IInv, TypeOK
<1> QED BY <1>1 DEF Reserve, CanReserve, PageTable

(* What the end of a reservation changes.                                  *)
LEMMA ReleaseFrame ==
  ASSUME IInv, NEW r \in Request, Release(r)
  PROVE  /\ r \in active /\ active' = active \ {r}
         /\ matched'[r] = <<>>
         /\ \A q \in Request \ {r} :
              /\ matched'[q] = matched[q] /\ capacity'[q] = capacity[q]
              /\ PageTable(q)' = PageTable(q)
<1>1. /\ matched \in [Request -> Seq(Token)] /\ capacity \in [Request -> Nat]
      /\ shared \in [Request -> Seq(Page)] /\ private \in [Request -> Seq(Page)]
  BY DEF IInv, TypeOK
<1> QED BY <1>1 DEF Release, PageTable

(* A step of the executor on one request keeps the invariant if it keeps   *)
(* it for that request.                                                    *)
Step(r) ==
  /\ \A q \in Request \ {r} :
       /\ seq'[q] = seq[q] /\ draft'[q] = draft[q]
       /\ matched'[q] = matched[q] /\ capacity'[q] = capacity[q]
       /\ q \in active' <=> q \in active
       /\ PageTable(q)' = PageTable(q)
  /\ \/ turn' = turn /\ (seq'[r].stage \in Opening <=> seq[r].stage \in Opening)
     \/ turn = r /\ turn' = None /\ seq'[r].stage \notin Opening
     \/ turn = None /\ turn' = r /\ seq'[r].stage \in Opening

(* A step whose own request ends up sound keeps the whole invariant. *)
LEMMA StepKeepsInv ==
  ASSUME EInv, IInv', NEW r \in Request, Step(r),
         ExecTypeOK', Sound(r)', Backed(r)'
  PROVE  OwnInv'
<1>1. ASSUME NEW q \in Request \ {r} PROVE Sound(q)' /\ Backed(q)'
  <2>1. Kept(q)
    BY RequestTypes DEF Step, Kept
  <2> QED BY <2>1, KeptIsSound
<1>2. Turns'
  <2>1. Turns /\ None \notin Request
    BY RadixAssumption DEF EInv, OwnInv, RadixAssumption
  <2> QED BY <2>1 DEF Turns, Step
<1> QED BY <1>1, <1>2 DEF OwnInv

(* A step that gives one request a new record and a new draft cache keeps  *)
(* the types.                                                              *)
LEMMA MoveKeepsTypes ==
  ASSUME EInv, NEW r \in Request, NEW s \in Sequence, NEW d \in DraftCache,
         seq' = [seq EXCEPT ![r] = s], draft' = [draft EXCEPT ![r] = d] \/ (draft' = draft /\ d = draft[r]),
         tails' \in Seq(TailEntry), recycled' \subseteq Lane,
         turn' \in Request \cup {None}
  PROVE  /\ ExecTypeOK'
         /\ seq'[r] = s /\ draft'[r] = d
         /\ \A q \in Request \ {r} : seq'[q] = seq[q] /\ draft'[q] = draft[q]
<1>1. seq \in [Request -> Sequence] /\ draft \in [Request -> DraftCache]
  BY DEF EInv, OwnInv, ExecTypeOK
<1> QED BY <1>1 DEF ExecTypeOK

(* The record of a request that has just come in.                          *)
LEMMA OpenedType ==
  ASSUME NEW ids \in Texts, NEW budget \in Nat, NEW drafting \in BOOLEAN
  PROVE  /\ Opened(ids, budget, drafting) \in Sequence
         /\ Opened(ids, budget, drafting).stage = "probed"
         /\ Opened(ids, budget, drafting).prompt = ids
         /\ Opened(ids, budget, drafting).text = ids
         /\ Opened(ids, budget, drafting).done = <<>>
         /\ Opened(ids, budget, drafting).budget = budget
         /\ Opened(ids, budget, drafting).drafting = drafting
         /\ Opened(ids, budget, drafting).lane = Lanes
<1>1. <<>> \in Texts
  <2>1. SubSeq(ids, 1, 0) \in Texts /\ SubSeq(ids, 1, 0) = <<>>
    BY TextsType, LenProperties
  <2> QED BY <2>1
<1> QED BY <1>1 DEF Opened, Idle, Sequence, Stages

(* <<>> is a prefix of every text, and a text of itself.                   *)
LEMMA PrefixReflexive ==
  ASSUME NEW ids \in Seq(Token)
  PROVE  ids \sqsubseteq ids /\ <<>> \sqsubseteq ids /\ Len(ids) \in Nat
BY DEF \sqsubseteq

(* A prefix of a text is a text.                                           *)
LEMMA PrefixIsText ==
  ASSUME NEW ids \in Texts, NEW m \in Seq(Token), m \sqsubseteq ids
  PROVE  m \in Texts
<1>1. ids \in Seq(Token) /\ Len(m) \in 0..Len(ids)
  BY TextsType DEF \sqsubseteq
<1>2. SubSeq(ids, 1, Len(m)) = m
  <2>1. /\ SubSeq(ids, 1, Len(m)) \in Seq(Token)
        /\ Len(SubSeq(ids, 1, Len(m))) = Len(m)
        /\ \A i \in 1..Len(m) : SubSeq(ids, 1, Len(m))[i] = ids[i]
    BY <1>1, SubSeqPrefix
  <2>2. \A i \in 1..Len(m) : m[i] = ids[i]
    BY DEF \sqsubseteq
  <2> QED BY <2>1, <2>2, SeqEqual
<1> QED BY <1>1, <1>2, TextsType

(* Of some prefixes of a text, one is the longest.                         *)
LEMMA LongestPrefix ==
  ASSUME NEW ids \in Seq(Token), NEW K \in SUBSET Prefixes(ids), K # {}
  PROVE  \E k \in K : \A l \in K : l \sqsubseteq k
<1> DEFINE n == Len(ids) + 1
           P == {n - Len(k) : k \in K}
<1>1. \A k \in K : k \in Seq(Token) /\ k \sqsubseteq ids /\ Len(k) \in 0..Len(ids)
  BY SubSeqPrefix DEF Prefixes
<1>2. n \in Nat /\ Len(ids) \in Nat
  OBVIOUS
<1>3. P \in SUBSET (1..n) /\ P # {}
  BY <1>1, <1>2
<1>4. PICK x \in P : \A y \in P : x <= y
  <2> HIDE DEF P, n
  <2> QED BY <1>2, <1>3, LeastPosition
<1>5. PICK k \in K : x = n - Len(k)
  BY <1>4
<1>6. ASSUME NEW l \in K PROVE l \sqsubseteq k
  <2>1. n - Len(k) <= n - Len(l)
    BY <1>4, <1>5
  <2>2. Len(l) <= Len(k)
    BY <1>1, <1>2, <2>1
  <2> QED BY <1>1, <2>2, PrefixesComparable
<1> QED BY <1>6

(* longest_exact_prefix_tokens: a prefix of the match whose tail is cached, *)
(* and a text.                                                             *)
LEMMA AlignedIsPrefix ==
  ASSUME EInv, NEW m \in Seq(Token)
  PROVE  /\ Aligned(m) \in Seq(Token) /\ Aligned(m) \sqsubseteq m
         /\ Len(Aligned(m)) \in Nat /\ Len(Aligned(m)) <= Len(m)
         /\ Aligned(m) \in TailKeys \cup {<<>>}
         /\ Aligned(m) # <<>> => Aligned(m) \in Texts
<1> DEFINE keys == TailKeys \cap (Prefixes(m) \ {<<>>})
<1>1. CASE keys = {}
  BY <1>1, PrefixReflexive, EmptySeq DEF Aligned
<1>2. CASE keys # {}
  <2>1. \E k \in keys : \A l \in keys : l \sqsubseteq k
    BY <1>2, LongestPrefix
  <2>2. Aligned(m) \in keys
    BY <1>2, <2>1 DEF Aligned
  <2>3. Aligned(m) \in Seq(Token) /\ Aligned(m) \sqsubseteq m
    BY <2>2, SubSeqPrefix DEF Prefixes
  <2>4. TailKeys \subseteq Texts
    <3>1. tails \in Seq(TailEntry)
      BY DEF EInv, OwnInv, ExecTypeOK
    <3>2. \A i \in 1..Len(tails) : tails[i] \in TailEntry
      BY <3>1
    <3>3. \A i \in 1..Len(tails) : tails[i].key \in Texts
      BY <3>2 DEF TailEntry
    <3> QED BY <3>3 DEF TailKeys, Elems
  <2> HIDE DEF keys
  <2>5. Aligned(m) \in TailKeys /\ Aligned(m) \in Texts
    BY <2>2, <2>4 DEF keys
  <2>6. Len(Aligned(m)) <= Len(m)
    BY <2>3 DEF \sqsubseteq
  <2> QED BY <2>3, <2>5, <2>6, LenProperties
<1> QED BY <1>1, <1>2

(* Steps that change nothing of the executor's own, and only lengthen page *)
(* tables.                                                                 *)
LEMMA OwnKept ==
  ASSUME EInv, IInv', UNCHANGED own, \A q \in Request : Kept(q)
  PROVE  OwnInv'
<1>1. \A q \in Request : Sound(q)' /\ Backed(q)'
  BY KeptIsSound
<1>2. ExecTypeOK' /\ Turns'
  BY DEF EInv, OwnInv, ExecTypeOK, Turns, own
<1> QED BY <1>1, <1>2 DEF OwnInv

-----------------------------------------------------------------------------
(* One lemma per step of an opening *)

(* The opened request starts with its match reserved and no draft slot. *)
LEMMA ProbeStep ==
  ASSUME EInv, IInv', NEW r \in Request, NEW ids \in Texts, NEW budget \in Budgets,
         NEW drafting \in BOOLEAN, NEW m \in Prefixes(Front(ids)),
         Probe(r, ids, budget, drafting, m)
  PROVE  OwnInv'
<1> DEFINE s == Opened(ids, budget, drafting)
           cap == Capacity(ids, budget)
<1>1. /\ ids # <<>> /\ Fits(ids, budget) /\ budget \in Nat /\ budget > 0
      /\ Len(ids) \in Nat
  BY ExecutorAssumption, TextsType DEF Probe, Fits, ExecutorAssumption
<1>2. /\ cap \in Capacities /\ Len(ids) + budget <= cap
      /\ Front(ids) \in Texts /\ Len(Front(ids)) = Len(ids) - 1 /\ Front(ids) \sqsubseteq ids
  BY <1>1, CapacityFits, FrontText
<1>3. /\ s \in Sequence /\ s.stage = "probed" /\ s.prompt = ids /\ s.text = ids
      /\ s.done = <<>> /\ s.budget = budget
  BY <1>1, OpenedType
<1>4. Reserve(r, Front(ids), cap, m)
  BY DEF Probe
<1>5. /\ r \notin active /\ active' = active \cup {r}
      /\ matched'[r] = m /\ capacity'[r] = cap
      /\ \A q \in Request \ {r} :
           /\ matched'[q] = matched[q] /\ capacity'[q] = capacity[q]
           /\ PageTable(q)' = PageTable(q)
  BY <1>2, <1>4, ReserveFrame DEF EInv
<1>6. m \sqsubseteq ids /\ Len(m) < Len(ids)
  <2>1. m \in Seq(Token) /\ m \sqsubseteq Front(ids) /\ Len(m) <= Len(Front(ids)) /\ Len(m) \in Nat
    BY <1>2, PrefixOfText
  <2>2. ids \in Seq(Token) /\ Front(ids) \in Seq(Token)
    BY <1>2, TextsType
  <2> QED BY <1>1, <1>2, <2>1, <2>2, PrefixTransitive
<1>7. /\ seq' = [seq EXCEPT ![r] = s] /\ draft' = draft /\ tails' = tails
      /\ recycled' = recycled /\ turn = None /\ turn' = r
      /\ seq[r].stage = "idle" /\ r \notin Plain
  BY DEF Probe
<1>8. draft[r] = NoSlot /\ draft[r] \in DraftCache
  BY <1>7 DEF EInv, OwnInv, Sound, ExecTypeOK
<1>9. /\ ExecTypeOK' /\ seq'[r] = s /\ draft'[r] = NoSlot
      /\ \A q \in Request \ {r} : seq'[q] = seq[q] /\ draft'[q] = draft[q]
  BY <1>3, <1>7, <1>8, MoveKeepsTypes DEF EInv, OwnInv, ExecTypeOK
<1> HIDE DEF s, cap
<1>10. Sound(r)'
  <2>1. ids \sqsubseteq ids /\ <<>> \sqsubseteq ids
    BY TextsType, PrefixReflexive
  <2>3. Len(ids) + budget <= MaxContext
    BY <1>1 DEF Fits
  <2>4. seq'[r].stage = "probed" /\ seq'[r].prompt = ids /\ seq'[r].text = ids
        /\ seq'[r].done = <<>> /\ seq'[r].budget = budget /\ draft'[r] = NoSlot
    BY <1>3, <1>9
  <2>5. Generated(r)' = 0
    BY <1>1, <2>4 DEF Generated
  <2> QED BY <1>1, <1>7, <2>1, <2>3, <2>4, <2>5 DEF Sound, Resident
<1>11. Backed(r)'
  BY <1>2, <1>3, <1>5, <1>6, <1>7, <1>9 DEF Backed
<1>12. Step(r)
  BY <1>3, <1>5, <1>7, <1>9 DEF Step, Opening
<1> QED BY <1>9, <1>10, <1>11, <1>12, StepKeepsInv

(* A request leaves its opening: it keeps nothing.                         *)
LEMMA CloseStep ==
  ASSUME EInv, IInv', NEW r \in Request, Close(r), turn = r, turn' = None,
         UNCHANGED <<draft, tails>>, recycled' = recycled,
         seq[r].stage \in {"probed", "realign", "reserved", "bound"},
         \/ /\ UNCHANGED <<matched, capacity, shared, private, active>>
            /\ r \notin active
         \/ Cancel(r)
  PROVE  OwnInv'
<1>1. /\ r \notin active'
      /\ \A q \in Request \ {r} :
           /\ matched'[q] = matched[q] /\ capacity'[q] = capacity[q]
           /\ PageTable(q)' = PageTable(q)
           /\ q \in active' <=> q \in active
  <2>1. CASE Cancel(r)
    BY <2>1, ReleaseFrame DEF Cancel, EInv
  <2>2. CASE ~Cancel(r)
    BY <2>2 DEF PageTable
  <2> QED BY <2>1, <2>2
<1>2. draft[r] = NoSlot /\ draft[r] \in DraftCache
  BY DEF EInv, OwnInv, Sound, ExecTypeOK
<1>3. Idle \in Sequence /\ Idle.stage = "idle"
  <2>1. seq[r].prompt \in Texts
    BY RequestTypes
  <2>2. <<>> \in Texts
    <3>1. SubSeq(seq[r].prompt, 1, 0) \in Texts /\ SubSeq(seq[r].prompt, 1, 0) = <<>>
      BY <2>1, TextsType, LenProperties
    <3> QED BY <3>1
  <2> QED BY <2>2 DEF Idle, Sequence, Stages
<1>4. /\ ExecTypeOK' /\ seq'[r] = Idle /\ draft'[r] = NoSlot
      /\ \A q \in Request \ {r} : seq'[q] = seq[q] /\ draft'[q] = draft[q]
  <2>1. seq' = [seq EXCEPT ![r] = Idle] /\ draft' = draft
    BY DEF Close
  <2>2. tails' \in Seq(TailEntry) /\ recycled' \subseteq Lane /\ turn' \in Request \cup {None}
    BY DEF EInv, OwnInv, ExecTypeOK
  <2> QED BY <1>2, <1>3, <2>1, <2>2, MoveKeepsTypes
<1>5. Sound(r)' /\ Backed(r)'
  BY <1>1, <1>3, <1>4 DEF Sound, Backed, Opening, Resident
<1>6. Step(r)
  BY <1>1, <1>3, <1>4 DEF Step, Opening
<1> QED BY <1>4, <1>5, <1>6, StepKeepsInv

(* The reservation is dropped in order to be made again.                   *)
LEMMA DropMatchStep ==
  ASSUME EInv, IInv', NEW r \in Request, DropMatch(r)
  PROVE  OwnInv'
<1> DEFINE m == Aligned(matched[r])
           s == [seq[r] EXCEPT !.stage = "realign", !.done = m]
<1>1. seq[r].stage = "probed" /\ turn = r /\ Cancel(r)
  BY DEF DropMatch
<1>2. /\ r \in active /\ r \notin active'
      /\ \A q \in Request \ {r} :
           /\ matched'[q] = matched[q] /\ capacity'[q] = capacity[q]
           /\ PageTable(q)' = PageTable(q)
           /\ q \in active' <=> q \in active
  BY <1>1, ReleaseFrame DEF Cancel, EInv
<1>3. /\ m \in Seq(Token) /\ m \sqsubseteq seq[r].prompt /\ Len(m) < Len(seq[r].prompt)
      /\ m \in Texts
  <2>1. /\ m \in Seq(Token) /\ m \sqsubseteq matched[r] /\ Len(m) <= Len(matched[r])
        /\ Len(m) \in Nat
    BY RequestTypes, AlignedIsPrefix
  <2>2. matched[r] \sqsubseteq seq[r].prompt /\ Len(matched[r]) < Len(seq[r].prompt)
    BY <1>2 DEF EInv, OwnInv, Backed
  <2>3. matched[r] \in Seq(Token) /\ seq[r].prompt \in Texts /\ seq[r].prompt \in Seq(Token)
    BY RequestTypes, TextsType
  <2>4. m \sqsubseteq seq[r].prompt
    BY <2>1, <2>2, <2>3, PrefixTransitive
  <2> QED BY <2>1, <2>2, <2>3, <2>4, RequestTypes, PrefixIsText
<1> HIDE DEF m
<1>4. /\ s \in Sequence /\ s.stage = "realign" /\ s.done = m /\ s.prompt = seq[r].prompt
      /\ s.text = seq[r].text /\ s.budget = seq[r].budget
  <2>1. seq[r] \in Sequence
    BY DEF EInv, OwnInv, ExecTypeOK
  <2> QED BY <1>3, <2>1 DEF Sequence, Stages
<1>5. draft[r] = NoSlot /\ draft[r] \in DraftCache
  BY <1>1 DEF EInv, OwnInv, Sound, ExecTypeOK
<1>6. /\ ExecTypeOK' /\ seq'[r] = s /\ draft'[r] = NoSlot /\ turn' = turn
      /\ \A q \in Request \ {r} : seq'[q] = seq[q] /\ draft'[q] = draft[q]
  <2>1. seq \in [Request -> Sequence]
    BY DEF EInv, OwnInv, ExecTypeOK
  <2>2. seq' = [seq EXCEPT ![r] = s] /\ draft' = draft
    BY <2>1 DEF DropMatch, m
  <2>3. /\ tails' \in Seq(TailEntry) /\ recycled' \subseteq Lane
        /\ turn' \in Request \cup {None} /\ turn' = turn
    BY DEF DropMatch, EInv, OwnInv, ExecTypeOK
  <2> HIDE DEF s
  <2> QED BY <1>4, <1>5, <2>2, <2>3, MoveKeepsTypes
<1> HIDE DEF s
<1>7. Sound(r)'
  <2>1. Sound(r) /\ seq[r].text = seq[r].prompt
    BY <1>1 DEF EInv, OwnInv, Sound, Opening
  <2>2. Generated(r)' = Generated(r)
    BY <1>4, <1>6 DEF Generated
  <2> QED BY <1>1, <1>3, <1>4, <1>6, <2>1, <2>2 DEF Sound, Resident
<1>8. Backed(r)'
  BY <1>2, <1>4, <1>6 DEF Backed
<1>9. Step(r)
  BY <1>1, <1>2, <1>4, <1>6 DEF Step, Opening
<1> QED BY <1>6, <1>7, <1>8, <1>9, StepKeepsInv

(* It is made again, for the prefix whose tail is cached.                  *)
LEMMA RealignStep ==
  ASSUME EInv, IInv', NEW r \in Request, NEW m \in Prefixes(seq[r].done), Realign(r, m)
  PROVE  OwnInv'
<1> DEFINE s == [seq[r] EXCEPT !.stage = "reserved"]
           cap == Capacity(seq[r].prompt, seq[r].budget)
<1>1. seq[r].stage = "realign" /\ turn = r /\ Reserve(r, seq[r].done, cap, m)
  BY DEF Realign
<1>2. /\ seq[r].prompt # <<>> /\ seq[r].budget \in Nat /\ seq[r].budget > 0
      /\ seq[r].text = seq[r].prompt /\ seq[r].done \sqsubseteq seq[r].text
      /\ Len(seq[r].done) < Len(seq[r].prompt)
      /\ Len(seq[r].prompt) + seq[r].budget <= MaxContext
      /\ draft[r] = NoSlot /\ draft[r] \in DraftCache
      /\ r \notin Plain
  BY <1>1, RequestTypes DEF EInv, OwnInv, Sound, Opening, ExecTypeOK
<1>3. cap \in Capacities /\ Len(seq[r].prompt) + seq[r].budget <= cap
  <2>1. Fits(seq[r].prompt, seq[r].budget) /\ seq[r].budget \in Nat \ {0}
        /\ seq[r].prompt \in Texts
    BY <1>2, RequestTypes DEF Fits
  <2> QED BY <2>1, CapacityFits
<1> HIDE DEF cap
<1>4. /\ r \notin active /\ active' = active \cup {r}
      /\ matched'[r] = m /\ capacity'[r] = cap
      /\ \A q \in Request \ {r} :
           /\ matched'[q] = matched[q] /\ capacity'[q] = capacity[q]
           /\ PageTable(q)' = PageTable(q)
  BY <1>1, <1>3, RequestTypes, ReserveFrame DEF EInv
<1>5. m \sqsubseteq seq[r].prompt /\ Len(m) < Len(seq[r].prompt)
  <2>1. /\ m \in Seq(Token) /\ m \sqsubseteq seq[r].done /\ Len(m) <= Len(seq[r].done)
        /\ Len(m) \in Nat
    BY RequestTypes, PrefixOfText
  <2>2. seq[r].done \in Seq(Token) /\ seq[r].prompt \in Seq(Token)
    BY RequestTypes, TextsType
  <2>3. m \sqsubseteq seq[r].prompt
    BY <1>2, <2>1, <2>2, PrefixTransitive
  <2> QED BY <1>2, <2>1, <2>3, RequestTypes
<1>6. /\ s \in Sequence /\ s.stage = "reserved" /\ s.done = seq[r].done
      /\ s.prompt = seq[r].prompt /\ s.text = seq[r].text /\ s.budget = seq[r].budget
  <2>1. seq[r] \in Sequence
    BY DEF EInv, OwnInv, ExecTypeOK
  <2> QED BY <2>1 DEF Sequence, Stages
<1>7. /\ ExecTypeOK' /\ seq'[r] = s /\ draft'[r] = NoSlot /\ turn' = turn
      /\ \A q \in Request \ {r} : seq'[q] = seq[q] /\ draft'[q] = draft[q]
  <2>1. seq \in [Request -> Sequence]
    BY DEF EInv, OwnInv, ExecTypeOK
  <2>2. seq' = [seq EXCEPT ![r] = s] /\ draft' = draft
    BY <2>1 DEF Realign
  <2>3. /\ tails' \in Seq(TailEntry) /\ recycled' \subseteq Lane
        /\ turn' \in Request \cup {None} /\ turn' = turn
    BY DEF Realign, EInv, OwnInv, ExecTypeOK
  <2> HIDE DEF s
  <2> QED BY <1>2, <1>6, <2>2, <2>3, MoveKeepsTypes
<1> HIDE DEF s
<1>8. Sound(r)'
  <2>1. Generated(r)' = Generated(r) /\ Sound(r)
    BY <1>6, <1>7 DEF Generated, EInv, OwnInv
  <2> QED BY <1>1, <1>2, <1>6, <1>7, <2>1 DEF Sound, Resident
<1>9. Backed(r)'
  BY <1>2, <1>3, <1>4, <1>5, <1>6, <1>7 DEF Backed
<1>10. Step(r)
  BY <1>1, <1>4, <1>6, <1>7 DEF Step, Opening
<1> QED BY <1>7, <1>8, <1>9, <1>10, StepKeepsInv

(* There is a lane to take when a recycled state or a free lane is there.  *)
LEMMA NextLaneExists ==
  ASSUME EInv, recycled \cup FreeLanes # {}
  PROVE  /\ NextLane \in Lane
         /\ recycled # {} => NextLane \in recycled
         /\ recycled = {} => NextLane \in FreeLanes
<1> DEFINE choice == IF recycled # {} THEN recycled ELSE FreeLanes
           K == {l + 1 : l \in choice}
<1>1. Lanes \in Nat /\ choice \subseteq Lane /\ choice # {}
  BY RadixAssumption, ExecutorAssumption
  DEF RadixAssumption, ExecutorAssumption, EInv, OwnInv, ExecTypeOK, FreeLanes
<1>2. K \in SUBSET (1..Lanes) /\ K # {}
  BY <1>1 DEF Lane
<1>3. PICK k \in K : \A j \in K : k <= j
  <2> HIDE DEF K
  <2> QED BY <1>1, <1>2, LeastPosition
<1>4. PICK l \in choice : k = l + 1
  BY <1>3
<1>5. \A j \in choice : l <= j
  <2>1. \A j \in choice : j \in Nat /\ l + 1 <= j + 1
    BY <1>1, <1>3, <1>4 DEF Lane
  <2>2. l \in Nat
    BY <1>1, <1>4 DEF Lane
  <2> QED BY <2>1, <2>2
<1>6. NextLane \in choice
  BY <1>4, <1>5 DEF NextLane
<1> QED BY <1>1, <1>6

(* take_scheduler_state gives the request a lane.                          *)
LEMMA TakeLaneStep ==
  ASSUME EInv, IInv', NEW r \in Request, TakeLane(r)
  PROVE  OwnInv'
<1> DEFINE s == [seq[r] EXCEPT !.stage = "bound", !.lane = NextLane, !.done = matched[r]]
<1>1. /\ seq[r].stage \in {"probed", "reserved"} /\ turn = r /\ r \in active
      /\ recycled \cup FreeLanes # {}
      /\ UNCHANGED <<matched, capacity, shared, private, active>>
  BY DEF TakeLane, MatchStands, EnsureMaterialized
<1>2. /\ seq[r].text = seq[r].prompt /\ draft[r] = NoSlot /\ draft[r] \in DraftCache
      /\ matched[r] \sqsubseteq seq[r].prompt /\ Len(matched[r]) < Len(seq[r].prompt)
      /\ seq[r].prompt # <<>> /\ seq[r].budget > 0
      /\ Len(seq[r].prompt) + seq[r].budget <= MaxContext
      /\ Generated(r) <= seq[r].budget /\ seq[r].prompt \sqsubseteq seq[r].text
  BY <1>1 DEF EInv, OwnInv, Sound, Backed, Opening, ExecTypeOK
<1>3. matched[r] \in Texts
  BY <1>2, RequestTypes, PrefixIsText
<1>4. NextLane \in Lane
  BY <1>1, NextLaneExists
<1>5. /\ s \in Sequence /\ s.stage = "bound" /\ s.done = matched[r] /\ s.lane = NextLane
      /\ s.prompt = seq[r].prompt /\ s.text = seq[r].text /\ s.budget = seq[r].budget
  <2>1. seq[r] \in Sequence
    BY DEF EInv, OwnInv, ExecTypeOK
  <2> QED BY <1>3, <1>4, <2>1 DEF Sequence, Stages
<1>6. /\ ExecTypeOK' /\ seq'[r] = s /\ draft'[r] = NoSlot /\ turn' = turn
      /\ \A q \in Request \ {r} : seq'[q] = seq[q] /\ draft'[q] = draft[q]
  <2>1. seq \in [Request -> Sequence]
    BY DEF EInv, OwnInv, ExecTypeOK
  <2>2. seq' = [seq EXCEPT ![r] = s] /\ draft' = draft
    BY <2>1 DEF TakeLane
  <2>3. /\ tails' \in Seq(TailEntry) /\ recycled' \subseteq Lane
        /\ turn' \in Request \cup {None} /\ turn' = turn
    BY DEF TakeLane, EInv, OwnInv, ExecTypeOK
  <2> HIDE DEF s
  <2> QED BY <1>2, <1>5, <2>2, <2>3, MoveKeepsTypes
<1> HIDE DEF s
<1>7. Sound(r)'
  <2>1. Generated(r)' = Generated(r) /\ matched'[r] = matched[r]
    BY <1>1, <1>5, <1>6 DEF Generated
  <2>2. draft'[r].context = 0 /\ Len(seq'[r].done) \in Nat
    BY <1>5, <1>6, RequestTypes DEF NoSlot
  <2> QED BY <1>1, <1>2, <1>4, <1>5, <1>6, <2>1, <2>2 DEF Sound, Resident
<1>8. Backed(r)'
  <2>1. Backed(r) /\ capacity'[r] = capacity[r] /\ matched'[r] = matched[r] /\ active' = active
    BY <1>1 DEF EInv, OwnInv
  <2> QED BY <1>1, <1>2, <1>5, <1>6, <2>1 DEF Backed
<1>9. Step(r)
  BY <1>1, <1>5, <1>6 DEF Step, Opening, PageTable
<1> QED BY <1>6, <1>7, <1>8, <1>9, StepKeepsInv

(* So does the one for a request without reservation.                      *)
LEMMA TakeLanePlainStep ==
  ASSUME EInv, IInv', NEW r \in Request, NEW ids \in Texts, NEW budget \in Budgets,
         NEW drafting \in BOOLEAN, TakeLanePlain(r, ids, budget, drafting)
  PROVE  OwnInv'
<1> DEFINE o == Opened(ids, budget, drafting)
           s == [o EXCEPT !.stage = "bound", !.lane = NextLane]
<1>1. /\ seq[r].stage = "idle" /\ turn = None /\ r \in Plain
      /\ recycled \cup FreeLanes # {} /\ UNCHANGED vars
      /\ ids # <<>> /\ Len(ids) + budget <= MaxContext
      /\ budget \in Nat /\ budget > 0
  BY ExecutorAssumption DEF TakeLanePlain, Fits, ExecutorAssumption
<1>2. draft[r] = NoSlot /\ draft[r] \in DraftCache /\ r \notin active /\ matched[r] = <<>>
  BY <1>1 DEF EInv, OwnInv, Sound, Backed, ExecTypeOK, IInv, IdleHandles
<1>3. /\ o \in Sequence /\ o.prompt = ids /\ o.text = ids /\ o.done = <<>> /\ o.budget = budget
  BY <1>1, OpenedType
<1>4. NextLane \in Lane
  BY <1>1, NextLaneExists
<1> HIDE DEF o
<1>5. /\ s \in Sequence /\ s.stage = "bound" /\ s.done = <<>> /\ s.lane = NextLane
      /\ s.prompt = ids /\ s.text = ids /\ s.budget = budget
  BY <1>3, <1>4 DEF Sequence, Stages
<1>6. /\ ExecTypeOK' /\ seq'[r] = s /\ draft'[r] = NoSlot /\ turn' = r
      /\ \A q \in Request \ {r} : seq'[q] = seq[q] /\ draft'[q] = draft[q]
  <2>1. seq' = [seq EXCEPT ![r] = s] /\ draft' = draft
    BY DEF TakeLanePlain, o
  <2>2. /\ tails' \in Seq(TailEntry) /\ recycled' \subseteq Lane
        /\ turn' \in Request \cup {None} /\ turn' = r
    BY DEF TakeLanePlain, EInv, OwnInv, ExecTypeOK
  <2> HIDE DEF s
  <2> QED BY <1>2, <1>5, <2>1, <2>2, MoveKeepsTypes
<1> HIDE DEF s
<1>7. Sound(r)'
  <2>1. ids \sqsubseteq ids /\ <<>> \sqsubseteq ids /\ Len(ids) \in Nat
    BY TextsType, PrefixReflexive
  <2>2. Generated(r)' = 0
    BY <1>5, <1>6, <2>1 DEF Generated
  <2>3. draft'[r].context = 0 /\ Len(seq'[r].done) = 0 /\ matched'[r] = <<>>
    BY <1>1, <1>2, <1>5, <1>6 DEF NoSlot, vars
  <2> QED BY <1>1, <1>4, <1>5, <1>6, <2>1, <2>2, <2>3 DEF Sound, Resident
<1>8. Backed(r)'
  BY <1>1, <1>2, <1>5, <1>6 DEF Backed, vars
<1>9. Step(r)
  BY <1>1, <1>5, <1>6 DEF Step, Opening, PageTable, vars
<1> QED BY <1>6, <1>7, <1>8, <1>9, StepKeepsInv

(* What the first pass is given: a draft slot, with the tail of the match   *)
(* if there is one.                                                        *)
LEMMA PreparedDraft ==
  ASSUME EInv, NEW r \in Request, Prepare(r)
  PROVE  \E d \in DraftCache :
           /\ draft' = [draft EXCEPT ![r] = d] \/ (draft' = draft /\ d = draft[r])
           /\ tails' \in Seq(TailEntry)
           /\ Elems(tails') \subseteq Elems(tails)
           /\ \/ d.context = 0 /\ d.rows = <<>> /\ tails' = tails
              \/ \E e \in Elems(tails) :
                   /\ seq[r].drafting /\ Near(r)
                   /\ e.key = matched[r] /\ d.context = Len(e.key) /\ d.rows = e.rows
                   /\ tails' = TailInsert(Without(tails, e.key), e)
           /\ ~seq[r].drafting => d.rows = <<>>
           /\ seq[r].drafting /\ d.rows = <<>> =>
                \/ ~Near(r) \/ matched[r] \notin TailKeys
                \/ \E e \in Elems(tails) : e.rows = <<>>
           /\ seq[r].drafting => d.slot /\ Cardinality(SlotsHeld) < Lanes
           /\ ~seq[r].drafting => d = draft[r] /\ draft' = draft
<1>1. /\ tails \in Seq(TailEntry) /\ draft[r] = NoSlot /\ draft[r] \in DraftCache
      /\ Elems(tails) \subseteq TailEntry
  <2>1. tails \in Seq(TailEntry)
    BY DEF EInv, OwnInv, ExecTypeOK
  <2>2. \A i \in 1..Len(tails) : tails[i] \in TailEntry
    BY <2>1
  <2> QED BY <2>1, <2>2 DEF Prepare, EInv, OwnInv, ExecTypeOK, Sound, Elems
<1>2. CASE ~seq[r].drafting
  <2>1. draft' = draft /\ tails' = tails
    BY <1>2 DEF Prepare
  <2>2. draft[r].context = 0 /\ draft[r].rows = <<>>
    BY <1>1 DEF NoSlot
  <2> QED BY <1>1, <1>2, <2>1, <2>2
<1>3. CASE seq[r].drafting /\ Near(r) /\ matched[r] \in TailKeys
  <2> DEFINE e == CHOOSE x \in Elems(tails) : x.key = matched[r]
             d == [slot |-> TRUE, context |-> Len(e.key), rows |-> e.rows]
             others == Without(tails, e.key)
  <2>1. e \in Elems(tails) /\ e.key = matched[r]
    BY <1>3 DEF TailKeys
  <2>2. e \in TailEntry
    BY <1>1, <2>1
  <2>3. /\ draft' = [draft EXCEPT ![r] = d] /\ tails' = TailInsert(others, e)
        /\ Cardinality(SlotsHeld) < Lanes
    BY <1>3 DEF Prepare
  <2> HIDE DEF e
  <2>4. d \in DraftCache
    BY <2>2, TextsType DEF DraftCache, TailEntry
  <2>5. others \in Seq(TailEntry) /\ Elems(others) \subseteq Elems(tails)
    BY <1>1, WithoutKeepsOthers
  <2> HIDE DEF others
  <2>6. tails' \in Seq(TailEntry) /\ Elems(tails') \subseteq Elems(others) \cup {e}
    BY <2>2, <2>3, <2>5, TailInsertKeepsOthers
  <2>7. Elems(tails') \subseteq Elems(tails)
    BY <2>1, <2>5, <2>6
  <2>8. d.context = Len(e.key) /\ d.rows = e.rows /\ d.slot
    OBVIOUS
  <2> HIDE DEF d
  <2> QED BY <1>3, <2>1, <2>3, <2>4, <2>6, <2>7, <2>8 DEF others
<1>4. CASE seq[r].drafting /\ ~(Near(r) /\ matched[r] \in TailKeys)
  <2> DEFINE d == [draft[r] EXCEPT !.slot = TRUE]
  <2>1. draft' = [draft EXCEPT ![r].slot = TRUE] /\ tails' = tails /\ Cardinality(SlotsHeld) < Lanes
    BY <1>4 DEF Prepare
  <2>2. draft' = [draft EXCEPT ![r] = d]
    BY <2>1
  <2>3. d \in DraftCache /\ d.context = draft[r].context /\ d.rows = draft[r].rows /\ d.slot
    BY <1>1 DEF DraftCache
  <2>4. draft[r].context = 0 /\ draft[r].rows = <<>>
    BY <1>1 DEF NoSlot
  <2> HIDE DEF d
  <2> QED BY <1>1, <1>4, <2>1, <2>2, <2>3, <2>4
<1> QED BY <1>2, <1>3, <1>4

(* The draft slot starts empty, or with the tail that ends the match. *)
LEMMA PrepareStep ==
  ASSUME EInv, IInv', NEW r \in Request, Prepare(r)
  PROVE  OwnInv'
<1> DEFINE s == [seq[r] EXCEPT !.stage = "primed"]
<1>1. seq[r].stage = "bound" /\ turn = r /\ Covered(r) /\ UNCHANGED vars
  BY DEF Prepare
<1>2. PICK d \in DraftCache :
        /\ draft' = [draft EXCEPT ![r] = d] \/ (draft' = draft /\ d = draft[r])
        /\ tails' \in Seq(TailEntry)
        /\ d.context = 0 \/ d.context = Len(matched[r])
  BY PreparedDraft
<1>3. /\ s \in Sequence /\ s.stage = "primed" /\ s.done = seq[r].done /\ s.lane = seq[r].lane
      /\ s.prompt = seq[r].prompt /\ s.text = seq[r].text /\ s.budget = seq[r].budget
  <2>1. seq[r] \in Sequence
    BY DEF EInv, OwnInv, ExecTypeOK
  <2> QED BY <2>1 DEF Sequence, Stages
<1>4. /\ ExecTypeOK' /\ seq'[r] = s /\ draft'[r] = d /\ turn' = turn
      /\ \A q \in Request \ {r} : seq'[q] = seq[q] /\ draft'[q] = draft[q]
  <2>1. seq \in [Request -> Sequence]
    BY DEF EInv, OwnInv, ExecTypeOK
  <2>2. seq' = [seq EXCEPT ![r] = s]
    BY <2>1 DEF Prepare
  <2>3. recycled' \subseteq Lane /\ turn' \in Request \cup {None} /\ turn' = turn
    BY DEF Prepare, EInv, OwnInv, ExecTypeOK
  <2> HIDE DEF s
  <2>4. d \in DraftCache /\ tails' \in Seq(TailEntry) /\ s \in Sequence
    BY <1>2, <1>3
  <2>5. CASE draft' = [draft EXCEPT ![r] = d]
    BY <1>3, <2>2, <2>3, <2>4, <2>5, MoveKeepsTypes
  <2>6. CASE draft' = draft /\ d = draft[r]
    BY <1>3, <2>2, <2>3, <2>4, <2>6, MoveKeepsTypes
  <2> QED BY <1>2, <2>5, <2>6
<1> HIDE DEF s
<1>5. Sound(r)'
  <2>1. Generated(r)' = Generated(r) /\ matched'[r] = matched[r] /\ Sound(r)
    BY <1>1, <1>3, <1>4 DEF Generated, vars, EInv, OwnInv
  <2>2. d.context <= Len(seq[r].done)
    BY <1>1, <1>2, <2>1, RequestTypes DEF Sound
  <2> QED BY <1>1, <1>3, <1>4, <2>1, <2>2 DEF Sound, Resident, Opening
<1>6. Backed(r)'
  <2>1. /\ Backed(r) /\ capacity'[r] = capacity[r] /\ matched'[r] = matched[r] /\ active' = active
        /\ PageTable(r)' = PageTable(r) /\ Frontier(r)' = Frontier(r)
    BY <1>1, <1>3, <1>4 DEF EInv, OwnInv, vars, PageTable, Frontier
  <2>2. r \in active => PagesFor(Frontier(r)) <= Len(PageTable(r))
    <3>1. ASSUME r \in active PROVE PagesFor(Frontier(r)) <= Len(PageTable(r))
      <4>1. r \notin Plain
        BY <2>1, <3>1 DEF Backed
      <4>2. Len(PageTable(r)) >= PagesFor(Frontier(r))
        BY <1>1, <4>1 DEF Covered
      <4>3. PagesFor(Frontier(r)) \in Nat /\ Len(PageTable(r)) \in Nat
        BY <3>1, FrontierFits, PagesForProperties, RequestTypes
      <4> QED BY <4>2, <4>3
    <3> QED BY <3>1
  <2> HIDE DEF PageTable
  <2> QED BY <1>1, <1>3, <1>4, <2>1, <2>2 DEF Backed
<1>7. Step(r)
  BY <1>1, <1>3, <1>4 DEF Step, Opening, PageTable, vars
<1> QED BY <1>4, <1>5, <1>6, <1>7, StepKeepsInv

(* The draft rows of the first pass: those of the recomputed suffix that    *)
(* the window holds.                                                       *)
LEMMA FirstRowsType ==
  ASSUME EInv, NEW r \in Request, seq[r].stage = "primed"
  PROVE  /\ Len(matched[r]) < Len(seq[r].prompt) /\ matched[r] \sqsubseteq seq[r].prompt
         /\ FirstRows(r) \in Seq(Texts)
         /\ Len(FirstRows(r)) = MinOf(Len(seq[r].prompt) - Len(matched[r]), Window)
         /\ Len(FirstRows(r)) \in 1..Window
         /\ FirstStart(r) \in Nat
         /\ FirstStart(r) + Len(FirstRows(r)) = Len(seq[r].prompt)
         /\ \A i \in 1..Len(FirstRows(r)) :
              FirstRows(r)[i] = SubSeq(seq[r].prompt, 1, FirstStart(r) + i)
<1> DEFINE p == seq[r].prompt
           n == MinOf(Len(p) - Len(matched[r]), Window)
<1>1. p \in Texts /\ Len(p) \in Nat /\ Len(matched[r]) \in Nat /\ p # <<>> /\ Len(p) > 0
  BY RequestTypes, FrontText DEF EInv, OwnInv, Sound
<1>2. Len(matched[r]) < Len(p) /\ matched[r] \sqsubseteq p
  <2>1. CASE r \in active
    BY <2>1 DEF EInv, OwnInv, Backed
  <2>2. CASE r \notin active
    <3>1. matched[r] = <<>> /\ p \in Seq(Token)
      BY <1>1, <2>2, TextsType DEF EInv, IInv, IdleHandles
    <3> QED BY <1>1, <3>1, PrefixReflexive
  <2> QED BY <2>1, <2>2
<1>3. Window \in Nat /\ Window > 0
  BY ExecutorAssumption DEF ExecutorAssumption
<1>4. n \in 1..Window /\ n <= Len(p)
  <2> HIDE DEF p
  <2>1. PICK x \in Nat : x = Len(p) - Len(matched[r]) /\ x > 0 /\ x <= Len(p)
    BY <1>1, <1>2
  <2>2. n = MinOf(x, Window)
    BY <2>1
  <2> HIDE DEF n
  <2> QED BY <1>1, <1>3, <2>1, <2>2 DEF MinOf
<1>5. FirstRows(r) = RowsOf(p, Len(p) - n, Len(p))
  BY DEF FirstRows
<1> HIDE DEF p, n
<1>6. PICK k \in Nat : k = Len(p) - n /\ Len(p) \in k..Len(p) /\ Len(p) - k = n
  BY <1>1, <1>4
<1>7. /\ FirstRows(r) \in Seq(Texts) /\ Len(FirstRows(r)) = n
      /\ \A i \in 1..n : FirstRows(r)[i] = SubSeq(p, 1, k + i)
  <2>1. FirstRows(r) = RowsOf(p, k, Len(p))
    BY <1>5, <1>6
  <2>2. /\ RowsOf(p, k, Len(p)) \in Seq(Texts)
        /\ Len(RowsOf(p, k, Len(p))) = Len(p) - k
        /\ \A i \in 1..(Len(p) - k) : RowsOf(p, k, Len(p))[i] = SubSeq(p, 1, k + i)
    BY <1>1, <1>6, RowsType
  <2> QED BY <1>6, <2>1, <2>2
<1>8. FirstStart(r) = k /\ k + n = Len(p)
  BY <1>1, <1>4, <1>6, <1>7 DEF FirstStart, p
<1>9. n = MinOf(Len(p) - Len(matched[r]), Window)
  BY DEF n
<1> QED BY <1>1, <1>2, <1>4, <1>6, <1>7, <1>8, <1>9 DEF p

(* The draft cache after the replay of the first pass.                     *)
LEMMA FirstReplayedType ==
  ASSUME EInv, NEW r \in Request, seq[r].stage = "primed"
  PROVE  /\ FirstReplayed(r) \in DraftCache
         /\ FirstReplayed(r).slot = draft[r].slot
         /\ FirstReplayed(r).context <= Len(seq[r].prompt)
         /\ seq[r].drafting /\ PromptTails =>
              /\ FirstReplayed(r).context = Len(seq[r].prompt)
              /\ FirstReplayed(r).rows = Rolled(draft[r].rows, Len(FirstRows(r))) \o FirstRows(r)
              /\ Len(FirstReplayed(r).rows) > 0
<1>1. draft[r] \in DraftCache /\ draft[r].context <= Len(seq[r].done) /\ seq[r].done = matched[r]
  BY DEF EInv, OwnInv, ExecTypeOK, Sound, Resident
<1>2. /\ FirstRows(r) \in Seq(Texts) /\ Len(FirstRows(r)) \in 1..Window
      /\ FirstStart(r) \in Nat /\ FirstStart(r) + Len(FirstRows(r)) = Len(seq[r].prompt)
      /\ Len(matched[r]) < Len(seq[r].prompt)
  BY FirstRowsType
<1>3. Len(FirstRows(r)) <= Window /\ Len(FirstRows(r)) > 0 /\ Len(FirstRows(r)) \in Nat
  BY <1>2, ExecutorAssumption DEF ExecutorAssumption
<1>4. CASE seq[r].drafting /\ PromptTails
  <2>1. FirstReplayed(r) = Replayed(draft[r], FirstStart(r), FirstRows(r))
    BY <1>4 DEF FirstReplayed
  <2>2. /\ Replayed(draft[r], FirstStart(r), FirstRows(r)) \in DraftCache
        /\ Replayed(draft[r], FirstStart(r), FirstRows(r)).slot = draft[r].slot
        /\ Replayed(draft[r], FirstStart(r), FirstRows(r)).context = FirstStart(r) + Len(FirstRows(r))
        /\ Replayed(draft[r], FirstStart(r), FirstRows(r)).rows
             = Rolled(draft[r].rows, Len(FirstRows(r))) \o FirstRows(r)
        /\ Len(Replayed(draft[r], FirstStart(r), FirstRows(r)).rows) >= Len(FirstRows(r))
    BY <1>1, <1>2, <1>3, ReplayedType
  <2>3. Len(FirstReplayed(r).rows) \in Nat
    BY <2>1, <2>2, LenProperties DEF DraftCache
  <2>4. Len(FirstReplayed(r).rows) > 0
    BY <1>3, <2>1, <2>2, <2>3
  <2>5. FirstReplayed(r).context <= Len(seq[r].prompt)
    BY <1>2, <2>1, <2>2, RequestTypes
  <2> QED BY <1>2, <2>1, <2>2, <2>4, <2>5
<1>5. CASE ~(seq[r].drafting /\ PromptTails)
  <2>1. FirstReplayed(r) = draft[r]
    BY <1>5 DEF FirstReplayed
  <2>2. draft[r].context <= Len(seq[r].prompt)
    BY <1>1, <1>2, RequestTypes
  <2> QED BY <1>1, <1>5, <2>1, <2>2
<1> QED BY <1>4, <1>5

(* The tail of the prompt is an entry of the tail cache.                   *)
LEMMA PromptTailType ==
  ASSUME EInv, NEW r \in Request, seq[r].stage = "primed"
  PROVE  /\ TailsAfterFirst(r) \in Seq(TailEntry)
         /\ \/ TailsAfterFirst(r) = tails
            \/ /\ seq[r].drafting /\ PromptTails /\ PromptTail(r).rows # <<>>
               /\ PromptTail(r) \in TailEntry
               /\ TailsAfterFirst(r) = TailInsert(tails, PromptTail(r))
<1>1. tails \in Seq(TailEntry)
  BY DEF EInv, OwnInv, ExecTypeOK
<1>2. CASE TailsAfterFirst(r) = tails
  BY <1>1, <1>2
<1>3. CASE TailsAfterFirst(r) # tails
  <2>1. /\ seq[r].drafting /\ PromptTails /\ PromptTail(r).rows # <<>>
        /\ TailsAfterFirst(r) = TailInsert(tails, PromptTail(r))
    BY <1>3 DEF TailsAfterFirst
  <2>2. FirstReplayed(r).rows \in Seq(Texts) /\ Len(FirstReplayed(r).rows) > 0
    BY <2>1, FirstReplayedType DEF DraftCache
  <2>3. Front(FirstReplayed(r).rows) \in Seq(Texts)
    BY <2>2, FrontOfSequence
  <2>4. Front(seq[r].prompt) \in Texts
    BY RequestTypes, FrontText DEF EInv, OwnInv, Sound
  <2>5. PromptTail(r) \in TailEntry
    BY <2>3, <2>4 DEF PromptTail, TailEntry
  <2>6. TailInsert(tails, PromptTail(r)) \in Seq(TailEntry)
    BY <1>1, <2>5, TailInsertKeepsOthers
  <2> QED BY <2>1, <2>5, <2>6
<1> QED BY <1>2, <1>3

(* A pass that ends gives back the lane of a request without reservation    *)
(* that has spent its budget.                                              *)
LEMMA SettledType ==
  ASSUME NEW r, NEW s \in Sequence
  PROVE  /\ Settled(r, s) \in Sequence
         /\ Settled(r, s).prompt = s.prompt /\ Settled(r, s).text = s.text
         /\ Settled(r, s).done = s.done /\ Settled(r, s).budget = s.budget
         /\ Settled(r, s).lane = s.lane
         /\ Settled(r, s).stage \in {"ready", "spent"}
         /\ Settled(r, s).stage = "spent" => r \in Plain
<1>1. /\ [s EXCEPT !.stage = "spent"] \in Sequence /\ [s EXCEPT !.stage = "ready"] \in Sequence
  BY DEF Sequence, Stages
<1> QED BY <1>1 DEF Settled, Sequence

(* The first pass ends the opening.                                        *)
LEMMA FirstPassStep ==
  ASSUME EInv, IInv', NEW r \in Request, NEW t \in Token, FirstPass(r, t)
  PROVE  OwnInv'
<1> DEFINE p == seq[r].prompt
           a == [seq[r] EXCEPT !.text = Append(@, t), !.done = p]
           s == Settled(r, a)
<1>1. /\ turn = r /\ turn' = None /\ seq[r].stage = "primed" /\ s.text \in Texts
      /\ seq' = [seq EXCEPT ![r] = s] /\ draft' = [draft EXCEPT ![r] = FirstReplayed(r)]
      /\ tails' = TailsAfterFirst(r) /\ Give(r, s) /\ UNCHANGED vars
  BY DEF FirstPass
<1>2. /\ seq[r].text = p /\ p \in Texts /\ p \in Seq(Token) /\ p # <<>> /\ Len(p) \in Nat
      /\ seq[r].budget \in Nat /\ seq[r].budget > 0
      /\ Len(p) + seq[r].budget <= MaxContext
  BY <1>1, RequestTypes, TextsType DEF EInv, OwnInv, Sound, Opening
<1>3. /\ a.text = Append(p, t) /\ a.done = p /\ a.prompt = p /\ a.budget = seq[r].budget
      /\ a.lane = seq[r].lane
      /\ a.text \in Texts => a \in Sequence
      /\ s.text = a.text
  <2>1. seq[r] \in Sequence
    BY DEF EInv, OwnInv, ExecTypeOK
  <2> QED BY <1>2, <2>1 DEF Sequence, Settled
<1> HIDE DEF a, p
<1>4. /\ s \in Sequence /\ s.text = Append(p, t) /\ s.done = p /\ s.prompt = p
      /\ s.budget = seq[r].budget /\ s.stage \in {"ready", "spent"}
      /\ s.stage = "spent" => r \in Plain
      /\ s.lane = seq[r].lane
  BY <1>1, <1>3, SettledType
<1>5. /\ FirstReplayed(r) \in DraftCache
      /\ FirstReplayed(r).context <= Len(p)
      /\ tails' \in Seq(TailEntry)
  BY <1>1, FirstReplayedType, PromptTailType DEF p
<1> HIDE DEF s
<1>6. /\ ExecTypeOK' /\ seq'[r] = s /\ draft'[r] = FirstReplayed(r)
      /\ \A q \in Request \ {r} : seq'[q] = seq[q] /\ draft'[q] = draft[q]
  <2>1. recycled' \subseteq Lane /\ turn' \in Request \cup {None}
    <3>1. recycled \subseteq Lane
      BY DEF EInv, OwnInv, ExecTypeOK
    <3>2. s.stage = "spent" => s.lane \in Lane
      BY <1>1, <1>4 DEF EInv, OwnInv, Sound, Resident
    <3> QED BY <1>1, <3>1, <3>2 DEF Give
  <2> QED BY <1>1, <1>4, <1>5, <2>1, MoveKeepsTypes
<1>7. p \sqsubseteq Append(p, t) /\ Len(Append(p, t)) = Len(p) + 1
  BY <1>2 DEF \sqsubseteq
<1>8. Sound(r)'
  <2>1. Generated(r)' = 1
    BY <1>2, <1>4, <1>6, <1>7 DEF Generated
  <2>2. seq[r].lane \in Lane
    BY <1>1 DEF EInv, OwnInv, Sound, Resident
  <2>3. p \sqsubseteq p
    BY <1>2, PrefixReflexive
  <2>4. /\ seq'[r].stage \in {"ready", "spent"} /\ seq'[r].prompt = p /\ seq'[r].done = p
        /\ seq'[r].text = Append(p, t) /\ seq'[r].budget = seq[r].budget
        /\ seq'[r].lane \in Lane
    BY <1>4, <1>6, <2>2
  <2> QED BY <1>2, <1>5, <1>6, <1>7, <2>1, <2>3, <2>4 DEF Sound, Resident, Opening
<1>9. Backed(r)'
  <2>1. /\ Backed(r) /\ capacity'[r] = capacity[r] /\ matched'[r] = matched[r] /\ active' = active
        /\ PageTable(r)' = PageTable(r)
    BY <1>1 DEF EInv, OwnInv, vars, PageTable
  <2>2. r \in active => PagesFor(Len(p)) <= Len(PageTable(r))
    <3> SUFFICES ASSUME r \in active PROVE PagesFor(Len(p)) <= Len(PageTable(r))
      OBVIOUS
    <3>1. /\ Len(p) + seq[r].budget <= capacity[r] /\ capacity[r] \in Nat
          /\ PagesFor(Frontier(r)) <= Len(PageTable(r)) /\ Frontier(r) \in Nat
          /\ Len(PageTable(r)) \in Nat
      BY <1>1, <2>1, FrontierFits, RequestTypes DEF Backed, p
    <3>2. Len(p) <= Frontier(r)
      <4>1. Frontier(r) = MinOf(Len(p) + MaxDrafts, capacity[r]) /\ MaxDrafts \in Nat
        BY <1>2, ExecutorAssumption DEF Frontier, ExecutorAssumption
      <4> QED BY <1>2, <3>1, <4>1 DEF MinOf
    <3>3. PagesFor(Len(p)) <= PagesFor(Frontier(r)) /\ PagesFor(Len(p)) \in Nat
          /\ PagesFor(Frontier(r)) \in Nat
      BY <1>2, <3>1, <3>2, PagesForProperties
    <3> HIDE DEF PageTable
    <3> QED BY <3>1, <3>3
  <2>3. r \in active <=> r \notin Plain
    BY <1>1, <2>1 DEF Backed
  <2>4. r \in active => matched[r] \sqsubseteq p /\ Len(matched[r]) < Len(p)
    BY <2>1 DEF Backed, p
  <2> HIDE DEF PageTable
  <2>5. r \in active =>
          capacity[r] \in Capacities /\ Len(p) + seq[r].budget <= capacity[r]
    BY <2>1 DEF Backed, p
  <2>6. r \in active => s.stage = "ready"
    BY <1>4, <2>3
  <2> QED BY <1>4, <1>6, <2>1, <2>2, <2>3, <2>4, <2>5, <2>6 DEF Backed
<1>10. Step(r)
  BY <1>1, <1>4, <1>6 DEF Step, Opening, PageTable, vars
<1> QED BY <1>6, <1>8, <1>9, <1>10, StepKeepsInv

(* What a later pass may emit.                                             *)
LEMMA NextPassFacts ==
  ASSUME EInv, NEW r \in Request, NEW ids \in Texts, seq[r].stage = "ready", Continues(r, ids)
  PROVE  \E n \in 1..Window :
           /\ Len(ids) = Len(seq[r].text) + n
           /\ Len(Front(ids)) = Len(seq[r].done) + n
           /\ n <= 1 + MaxDrafts
           /\ Generated(r) \in Nat /\ Generated(r) + n <= seq[r].budget
           /\ Generated(r) + n = Len(ids) - Len(seq[r].prompt)
           /\ ids # <<>> /\ Front(ids) \in Texts
           /\ seq[r].text \sqsubseteq ids /\ seq[r].prompt \sqsubseteq ids
           /\ Front(ids) \sqsubseteq ids /\ seq[r].done \sqsubseteq Front(ids)
           /\ RowsOf(ids, Len(seq[r].done), Len(Front(ids))) \in Seq(Texts)
           /\ Len(RowsOf(ids, Len(seq[r].done), Len(Front(ids)))) = n
           /\ \A i \in 1..n : RowsOf(ids, Len(seq[r].done), Len(Front(ids)))[i]
                                = SubSeq(ids, 1, Len(seq[r].done) + i)
<1>1. /\ seq[r].stage = "ready" /\ seq[r].text \sqsubseteq ids
      /\ Len(ids) - Len(seq[r].text) \in 1..MinOf(1 + PlannedDrafts(r), seq[r].budget - Generated(r))
  BY DEF Continues
<1>2. /\ Len(seq[r].done) + 1 = Len(seq[r].text)
      /\ seq[r].prompt \sqsubseteq seq[r].text /\ seq[r].done \sqsubseteq seq[r].text
      /\ Generated(r) <= seq[r].budget
  BY <1>1 DEF EInv, OwnInv, Sound
<1>3. /\ Len(seq[r].done) \in Nat /\ Len(seq[r].text) \in Nat /\ Len(seq[r].prompt) \in Nat
      /\ seq[r].budget \in Nat /\ Len(ids) \in Nat
      /\ seq[r].done \in Seq(Token) /\ seq[r].text \in Seq(Token)
      /\ seq[r].prompt \in Seq(Token) /\ ids \in Seq(Token)
  BY RequestTypes, TextsType
<1>4. Generated(r) \in Nat /\ Generated(r) = Len(seq[r].text) - Len(seq[r].prompt)
  BY <1>2, <1>3 DEF Generated, \sqsubseteq
<1>5. /\ PlannedDrafts(r) \in Nat /\ PlannedDrafts(r) <= MaxDrafts /\ MaxDrafts \in Nat
      /\ MaxDrafts < Window /\ Window \in Nat
  BY ExecutorAssumption DEF PlannedDrafts, ExecutorAssumption
<1>6. PICK lt \in Nat, lp \in Nat, ld \in Nat, li \in Nat, bu \in Nat :
        /\ lt = Len(seq[r].text) /\ lp = Len(seq[r].prompt) /\ ld = Len(seq[r].done)
        /\ li = Len(ids) /\ bu = seq[r].budget
  BY <1>3
<1>7. PICK g \in Nat, pd \in Nat : g = Generated(r) /\ pd = PlannedDrafts(r)
  BY <1>4, <1>5
<1>8. g = lt - lp /\ ld + 1 = lt /\ pd <= MaxDrafts /\ li - lt \in 1..MinOf(1 + pd, bu - g)
  BY <1>1, <1>2, <1>4, <1>5, <1>6, <1>7
<1>9. PICK n \in 1..MinOf(1 + pd, bu - g) : n = li - lt
  BY <1>8
<1>10. n \in Nat /\ n >= 1 /\ n <= 1 + pd /\ n <= bu - g
  BY <1>9 DEF MinOf
<1>11. n \in 1..Window /\ n <= 1 + MaxDrafts
  BY <1>5, <1>8, <1>10
<1>12. li = lt + n /\ li > 0 /\ g + n <= bu /\ g + n = li - lp
  BY <1>8, <1>9, <1>10
<1>13. ids # <<>>
  <2>1. li > 0 /\ li = Len(ids)
    BY <1>6, <1>12
  <2>2. Len(ids) # 0
    BY <2>1
  <2> QED BY <2>2
<1>14. /\ Front(ids) \in Texts /\ Len(Front(ids)) = li - 1 /\ Front(ids) \sqsubseteq ids
       /\ Front(ids) \in Seq(Token)
  BY <1>6, <1>13, FrontText, TextsType
<1>15. PICK lf \in Nat : lf = Len(Front(ids)) /\ lf = li - 1 /\ lf = ld + n /\ lf <= li
  BY <1>8, <1>10, <1>12, <1>14
<1>16. seq[r].prompt \sqsubseteq ids /\ seq[r].done \sqsubseteq ids
  BY <1>1, <1>2, <1>3, PrefixTransitive
<1>17. seq[r].done \sqsubseteq Front(ids)
  <2>1. Len(seq[r].done) <= Len(Front(ids))
    BY <1>6, <1>10, <1>15
  <2> QED BY <1>3, <1>14, <1>16, <2>1, PrefixesComparable
<1>18. /\ RowsOf(ids, ld, lf) \in Seq(Texts)
       /\ Len(RowsOf(ids, ld, lf)) = n
       /\ \A i \in 1..n : RowsOf(ids, ld, lf)[i] = SubSeq(ids, 1, ld + i)
  <2>1. lf \in Nat /\ ld \in Nat /\ n \in Nat /\ li \in Nat /\ lf = ld + n /\ lf <= li
    BY <1>6, <1>10, <1>15
  <2>2. lf \in ld..li /\ lf - ld = n
    BY <2>1
  <2>3. lf \in ld..Len(ids) /\ lf - ld = n
    BY <1>6, <2>2
  <2>4. /\ RowsOf(ids, ld, lf) \in Seq(Texts)
        /\ Len(RowsOf(ids, ld, lf)) = lf - ld
        /\ \A i \in 1..(lf - ld) : RowsOf(ids, ld, lf)[i] = SubSeq(ids, 1, ld + i)
    BY <2>1, <2>3, RowsType
  <2> QED BY <2>3, <2>4
<1> QED BY <1>1, <1>4, <1>6, <1>7, <1>11, <1>12, <1>13, <1>14, <1>15, <1>16, <1>17, <1>18

(* The draft cache after the replay of a later pass.                       *)
LEMMA NextReplayedType ==
  ASSUME EInv, NEW r \in Request, NEW ids \in Texts, seq[r].stage = "ready", Continues(r, ids)
  PROVE  LET d    == NextReplayed(r, ids)
             rows == RowsOf(ids, Len(seq[r].done), Len(Front(ids)))
         IN  /\ d \in DraftCache /\ d.slot = draft[r].slot
             /\ d.context <= Len(Front(ids))
             /\ \/ d = draft[r] /\ ~(Drafting(r) /\ Len(ids) - Len(seq[r].prompt) < seq[r].budget)
                \/ d = Replayed(draft[r], draft[r].context, rows) /\ Drafting(r)
<1> DEFINE rows == RowsOf(ids, Len(seq[r].done), Len(Front(ids)))
           d == Replayed(draft[r], draft[r].context, rows)
<1>1. PICK n \in 1..Window :
        /\ Len(Front(ids)) = Len(seq[r].done) + n
        /\ Generated(r) + (Len(ids) - Len(seq[r].text)) = Len(ids) - Len(seq[r].prompt)
        /\ rows \in Seq(Texts) /\ Len(rows) = n
  <2>1. Len(ids) \in Nat
    BY TextsType
  <2> HIDE DEF rows
  <2>2. Generated(r) + (Len(ids) - Len(seq[r].text)) = Len(ids) - Len(seq[r].prompt)
    BY <2>1, RequestTypes DEF Generated
  <2> QED BY <2>2, NextPassFacts DEF rows
<1>2. /\ draft[r] \in DraftCache /\ draft[r].context \in Nat /\ Len(seq[r].done) \in Nat
      /\ draft[r].context <= Len(seq[r].done)
  BY RequestTypes DEF EInv, OwnInv, ExecTypeOK, Sound, Resident
<1>3. n \in Nat /\ n <= Window
  BY ExecutorAssumption DEF ExecutorAssumption
<1>4. \/ NextReplayed(r, ids) = d /\ Drafting(r)
      \/ /\ NextReplayed(r, ids) = draft[r]
         /\ ~(Drafting(r) /\ Generated(r) + (Len(ids) - Len(seq[r].text)) < seq[r].budget)
  BY DEF NextReplayed
<1> HIDE DEF rows
<1>5. /\ d \in DraftCache /\ d.slot = draft[r].slot
      /\ d.context = draft[r].context + Len(rows)
  BY <1>1, <1>2, <1>3, ReplayedType
<1> HIDE DEF d
<1>6. d.context <= Len(Front(ids)) /\ draft[r].context <= Len(Front(ids))
  BY <1>1, <1>2, <1>3, <1>5
<1>7. CASE NextReplayed(r, ids) = d /\ Drafting(r)
  BY <1>5, <1>6, <1>7 DEF d, rows
<1>8. CASE /\ NextReplayed(r, ids) = draft[r]
           /\ ~(Drafting(r) /\ Generated(r) + (Len(ids) - Len(seq[r].text)) < seq[r].budget)
  BY <1>1, <1>2, <1>6, <1>8
<1> QED BY <1>4, <1>7, <1>8

(* The draft cache after a later pass.                                     *)
LEMMA NextPassDraft ==
  ASSUME EInv, NEW r \in Request, NEW ids \in Texts, NextPass(r, ids)
  PROVE  \E d \in DraftCache :
           /\ draft' = [draft EXCEPT ![r] = d]
           /\ d.slot = draft[r].slot /\ d.context <= Len(Front(ids))
           /\ \/ d = draft[r] /\ ~(Drafting(r) /\ Len(ids) - Len(seq[r].prompt) < seq[r].budget)
              \/ /\ d = Replayed(draft[r], draft[r].context,
                                 RowsOf(ids, Len(seq[r].done), Len(Front(ids))))
                 /\ Drafting(r)
<1>1. /\ seq[r].stage = "ready" /\ Continues(r, ids)
      /\ draft' = [draft EXCEPT ![r] = NextReplayed(r, ids)]
  BY DEF NextPass
<1> QED BY <1>1, NextReplayedType

(* A later pass.                                                           *)
LEMMA NextPassStep ==
  ASSUME EInv, IInv', NEW r \in Request, NEW ids \in Texts, NextPass(r, ids)
  PROVE  OwnInv'
<1> DEFINE a == [seq[r] EXCEPT !.text = ids, !.done = Front(ids)]
           s == Settled(r, a)
<1>1. /\ turn = None /\ turn' = turn /\ seq[r].stage = "ready" /\ Covered(r)
      /\ seq' = [seq EXCEPT ![r] = s]
      /\ tails' = tails /\ Give(r, s) /\ UNCHANGED vars
  BY DEF NextPass
<1>2. PICK n \in 1..Window :
        /\ Len(ids) = Len(seq[r].text) + n
        /\ Len(Front(ids)) = Len(seq[r].done) + n
        /\ n <= 1 + MaxDrafts
        /\ Generated(r) \in Nat /\ Generated(r) + n <= seq[r].budget
        /\ Generated(r) + n = Len(ids) - Len(seq[r].prompt)
        /\ ids # <<>> /\ Front(ids) \in Texts
        /\ seq[r].text \sqsubseteq ids /\ seq[r].prompt \sqsubseteq ids
        /\ Front(ids) \sqsubseteq ids /\ seq[r].done \sqsubseteq Front(ids)
  BY NextPassFacts DEF NextPass
<1>3. PICK d \in DraftCache :
        /\ draft' = [draft EXCEPT ![r] = d]
        /\ d.context <= Len(Front(ids))
  BY NextPassDraft
<1>4. /\ a \in Sequence /\ a.text = ids /\ a.done = Front(ids) /\ a.prompt = seq[r].prompt
      /\ a.budget = seq[r].budget /\ a.lane = seq[r].lane
  <2>1. seq[r] \in Sequence
    BY DEF EInv, OwnInv, ExecTypeOK
  <2> QED BY <1>2, <2>1 DEF Sequence
<1> HIDE DEF a
<1>5. /\ s \in Sequence /\ s.text = ids /\ s.done = Front(ids) /\ s.prompt = seq[r].prompt
      /\ s.budget = seq[r].budget /\ s.lane = seq[r].lane
      /\ s.stage \in {"ready", "spent"} /\ (s.stage = "spent" => r \in Plain)
  BY <1>4, SettledType
<1> HIDE DEF s
<1>6. /\ seq[r].lane \in Lane /\ seq[r].prompt # <<>> /\ seq[r].budget > 0
      /\ Len(seq[r].prompt) + seq[r].budget <= MaxContext
      /\ Len(seq[r].done) + 1 = Len(seq[r].text)
  BY <1>1 DEF EInv, OwnInv, Sound, Resident
<1>7. /\ ExecTypeOK' /\ seq'[r] = s /\ draft'[r] = d
      /\ \A q \in Request \ {r} : seq'[q] = seq[q] /\ draft'[q] = draft[q]
  <2>1. /\ recycled' \subseteq Lane /\ turn' \in Request \cup {None}
        /\ tails' \in Seq(TailEntry)
    BY <1>1, <1>5, <1>6 DEF Give, EInv, OwnInv, ExecTypeOK
  <2> QED BY <1>1, <1>3, <1>5, <2>1, MoveKeepsTypes
<1>8. Sound(r)'
  <2>1. Generated(r)' = Len(ids) - Len(seq[r].prompt)
    BY <1>5, <1>7 DEF Generated
  <2>2. Len(Front(ids)) + 1 = Len(ids)
    <3>1. Len(Front(ids)) = Len(ids) - 1 /\ Len(ids) \in Nat
      BY <1>2, FrontText, TextsType
    <3> QED BY <3>1
  <2>3. Generated(r)' <= seq[r].budget
    BY <1>2, <2>1
  <2>4. /\ seq'[r].stage \in {"ready", "spent"} /\ seq'[r].prompt = seq[r].prompt
        /\ seq'[r].done = Front(ids) /\ seq'[r].text = ids /\ seq'[r].budget = seq[r].budget
    BY <1>5, <1>7
  <2>5. seq'[r].lane \in Lane /\ draft'[r].context <= Len(Front(ids))
    BY <1>3, <1>5, <1>6, <1>7
  <2> QED BY <1>2, <1>6, <2>2, <2>3, <2>4, <2>5 DEF Sound, Resident, Opening
<1>9. Backed(r)'
  <2>1. /\ Backed(r) /\ capacity'[r] = capacity[r] /\ matched'[r] = matched[r] /\ active' = active
        /\ PageTable(r)' = PageTable(r)
    BY <1>1 DEF EInv, OwnInv, vars, PageTable
  <2>2. r \in active <=> r \notin Plain
    BY <1>1, <2>1 DEF Backed
  <2>3. r \in active =>
          /\ capacity[r] \in Capacities
          /\ Len(seq[r].prompt) + seq[r].budget <= capacity[r]
          /\ matched[r] \sqsubseteq seq[r].prompt /\ Len(matched[r]) < Len(seq[r].prompt)
          /\ matched[r] \sqsubseteq seq[r].done
    BY <1>1, <2>1 DEF Backed
  <2>4. r \in active => matched[r] \sqsubseteq Front(ids)
    <3>1. /\ matched[r] \in Seq(Token) /\ seq[r].done \in Seq(Token)
          /\ Front(ids) \in Seq(Token)
      BY <1>2, RequestTypes, TextsType
    <3> QED BY <1>2, <2>3, <3>1, PrefixTransitive
  <2>5. r \in active => PagesFor(Len(Front(ids))) <= Len(PageTable(r))
    <3> SUFFICES ASSUME r \in active PROVE PagesFor(Len(Front(ids))) <= Len(PageTable(r))
      OBVIOUS
    <3>1. Len(PageTable(r)) >= PagesFor(Frontier(r))
      BY <1>1, <2>2 DEF Covered
    <3> HIDE DEF PageTable
    <3>2. PICK lt \in Nat, lp \in Nat, lf \in Nat, c \in Nat, bu \in Nat, g \in Nat :
            /\ lt = Len(seq[r].text) /\ lp = Len(seq[r].prompt) /\ lf = Len(Front(ids))
            /\ c = capacity[r] /\ bu = seq[r].budget /\ g = Generated(r)
      BY <1>2, RequestTypes, TextsType
    <3>3. PICK li \in Nat : li = Len(ids) /\ lf = li - 1
      BY <1>2, <3>2, FrontText, TextsType
    <3>4. li = lt + n /\ n <= 1 + MaxDrafts /\ g + n = li - lp /\ g + n <= bu
      BY <1>2, <3>2, <3>3
    <3>5. lp + bu <= c /\ MaxDrafts \in Nat /\ n \in Nat
      BY <2>3, <3>2, ExecutorAssumption DEF ExecutorAssumption
    <3>6. lf <= lt + MaxDrafts /\ lf <= c
      <4>1. /\ lt \in Nat /\ lp \in Nat /\ lf \in Nat /\ c \in Nat /\ bu \in Nat
            /\ g \in Nat /\ li \in Nat /\ lf = li - 1
        BY <3>2, <3>3
      <4> QED BY <3>4, <3>5, <4>1
    <3>7. PICK fr \in Nat : fr = Frontier(r) /\ fr = MinOf(lt + MaxDrafts, c)
      <4>1. lt + MaxDrafts \in Nat /\ c \in Nat
        BY <3>2, <3>5, SMTT(20)
      <4>2. MinOf(lt + MaxDrafts, c) \in Nat
        BY <4>1, MinOfNat
      <4> QED BY <3>2, <4>2 DEF Frontier
    <3>8. lf <= fr
      BY <3>5, <3>6, <3>7 DEF MinOf
    <3>9. PagesFor(lf) <= PagesFor(fr) /\ PagesFor(fr) \in Nat /\ PagesFor(lf) \in Nat
      BY <3>2, <3>7, <3>8, PagesForProperties
    <3>10. Len(PageTable(r)) \in Nat /\ Len(PageTable(r)) >= PagesFor(fr)
      BY <3>1, <3>7, RequestTypes
    <3>11. PagesFor(lf) <= Len(PageTable(r))
      BY <3>9, <3>10
    <3> QED BY <3>2, <3>11
  <2> HIDE DEF PageTable
  <2>6. r \in active => s.stage = "ready"
    <3>1. s.stage \in {"ready", "spent"} /\ (s.stage = "spent" => r \in Plain)
      BY <1>5
    <3> QED BY <2>2, <3>1
  <2> QED BY <1>5, <1>7, <2>1, <2>2, <2>3, <2>4, <2>5, <2>6 DEF Backed
<1>10. Step(r)
  <2>1. \A q \in Request \ {r} :
          /\ seq'[q] = seq[q] /\ draft'[q] = draft[q] /\ (q \in active' <=> q \in active)
          /\ capacity'[q] = capacity[q] /\ matched'[q] = matched[q]
          /\ PageTable(q)' = PageTable(q)
    BY <1>1, <1>7 DEF PageTable, vars
  <2>2. turn' = turn /\ seq'[r].stage \notin Opening /\ seq[r].stage \notin Opening
    <3>1. seq'[r].stage \in {"ready", "spent"}
      BY <1>5, <1>7
    <3> QED BY <1>1, <3>1 DEF Opening
  <2> QED BY <1>1, <2>1, <2>2 DEF Step
<1> QED BY <1>7, <1>8, <1>9, <1>10, StepKeepsInv

(* A request in a pass has a page for every token that is processed.       *)
LEMMA PassIsBacked ==
  ASSUME EInv, NEW r \in Request, seq[r].stage \in {"primed", "ready"}, r \in active
  PROVE  matched[r] \sqsubseteq seq[r].done /\ PagesFor(Len(seq[r].done)) <= Len(PageTable(r))
<1>1. CASE seq[r].stage = "ready"
  BY <1>1 DEF EInv, OwnInv, Backed
<1>2. CASE seq[r].stage = "primed"
  <2>1. /\ seq[r].done = matched[r] /\ Len(matched[r]) < Len(seq[r].prompt)
        /\ seq[r].text = seq[r].prompt /\ PagesFor(Frontier(r)) <= Len(PageTable(r))
        /\ Len(seq[r].prompt) + seq[r].budget <= capacity[r]
    BY <1>2 DEF EInv, OwnInv, Sound, Backed, Opening
  <2>2. matched[r] \sqsubseteq seq[r].done
    BY <2>1, RequestTypes, PrefixReflexive
  <2>3. PICK ld \in Nat, lp \in Nat, c \in Nat, bu \in Nat, fr \in Nat, have \in Nat :
          /\ ld = Len(seq[r].done) /\ lp = Len(seq[r].prompt) /\ c = capacity[r]
          /\ bu = seq[r].budget /\ fr = Frontier(r) /\ have = Len(PageTable(r))
    BY RequestTypes, FrontierFits
  <2>4. /\ ld < lp /\ lp + bu <= c /\ PagesFor(fr) <= have
        /\ fr = MinOf(lp + MaxDrafts, c) /\ MaxDrafts \in Nat
    BY <2>1, <2>3, ExecutorAssumption DEF Frontier, ExecutorAssumption
  <2>5. ld <= fr
    <3>1. ld \in Nat /\ lp \in Nat /\ c \in Nat /\ bu \in Nat
      BY <2>3
    <3> QED BY <2>4, <3>1 DEF MinOf
  <2>6. PagesFor(ld) <= PagesFor(fr) /\ PagesFor(fr) \in Nat /\ PagesFor(ld) \in Nat
    BY <2>3, <2>5, PagesForProperties
  <2>7. PagesFor(ld) <= have
    BY <2>3, <2>4, <2>6
  <2> QED BY <2>2, <2>3, <2>7
<1> QED BY <1>1, <1>2

(* The draft cache that a failed pass leaves.                              *)
LEMMA DraftsLeftType ==
  ASSUME EInv, NEW r \in Request, seq[r].stage \in {"primed", "ready"}, NEW d \in DraftsLeft(r)
  PROVE  d \in DraftCache /\ d.slot = draft[r].slot
<1>1. CASE d = draft[r]
  BY <1>1 DEF EInv, OwnInv, ExecTypeOK
<1>2. CASE seq[r].stage = "primed" /\ d = FirstReplayed(r)
  BY <1>2, FirstReplayedType
<1>3. ASSUME NEW ids \in Texts, seq[r].stage = "ready", Continues(r, ids), d = NextReplayed(r, ids)
      PROVE  d \in DraftCache /\ d.slot = draft[r].slot
  BY <1>3, NextReplayedType
<1> QED BY <1>1, <1>2, <1>3 DEF DraftsLeft

(* A failed pass that keeps its scheduler state.                           *)
LEMMA PassFailsStep ==
  ASSUME EInv, IInv', NEW r \in Request, PassFails(r)
  PROVE  OwnInv'
<1> DEFINE s == [seq[r] EXCEPT !.stage = "failed"]
<1>1. /\ \/ turn = r /\ seq[r].stage = "primed"
         \/ turn = None /\ seq[r].stage = "ready"
      /\ turn' = None /\ UNCHANGED <<tails, recycled>> /\ UNCHANGED vars
      /\ seq[r].stage \in {"primed", "ready"}
  BY DEF PassFails, InPass
<1>2. /\ s \in Sequence /\ s.stage = "failed" /\ s.done = seq[r].done /\ s.lane = seq[r].lane
      /\ s.prompt = seq[r].prompt /\ s.text = seq[r].text /\ s.budget = seq[r].budget
  <2>1. seq[r] \in Sequence
    BY DEF EInv, OwnInv, ExecTypeOK
  <2> QED BY <2>1 DEF Sequence, Stages
<1>3. /\ ExecTypeOK' /\ seq'[r] = s
      /\ \A q \in Request \ {r} : seq'[q] = seq[q] /\ draft'[q] = draft[q]
  <2>1. seq \in [Request -> Sequence]
    BY DEF EInv, OwnInv, ExecTypeOK
  <2>2. PICK d \in DraftCache : seq' = [seq EXCEPT ![r] = s] /\ draft' = [draft EXCEPT ![r] = d]
    BY <1>1, <2>1, DraftsLeftType DEF PassFails
  <2>3. tails' \in Seq(TailEntry) /\ recycled' \subseteq Lane /\ turn' \in Request \cup {None}
    BY <1>1 DEF EInv, OwnInv, ExecTypeOK
  <2> HIDE DEF s
  <2> QED BY <1>2, <2>2, <2>3, MoveKeepsTypes
<1> HIDE DEF s
<1>4. Sound(r)'
  <2>1. Generated(r)' = Generated(r) /\ Sound(r)
    BY <1>2, <1>3 DEF Generated, EInv, OwnInv
  <2> QED BY <1>1, <1>2, <1>3, <2>1 DEF Sound, Resident, Opening
<1>5. Backed(r)'
  <2>1. /\ Backed(r) /\ capacity'[r] = capacity[r] /\ matched'[r] = matched[r] /\ active' = active
        /\ PageTable(r)' = PageTable(r)
    BY <1>1 DEF EInv, OwnInv, vars, PageTable
  <2>2. r \in active =>
          matched[r] \sqsubseteq seq[r].done /\ PagesFor(Len(seq[r].done)) <= Len(PageTable(r))
    BY <1>1, PassIsBacked
  <2> HIDE DEF PageTable
  <2> QED BY <1>1, <1>2, <1>3, <2>1, <2>2 DEF Backed
<1>6. Step(r)
  <2>1. turn = r => seq[r].stage \in Opening
    BY DEF EInv, OwnInv, Turns
  <2> QED BY <1>1, <1>2, <1>3, <2>1 DEF Step, Opening, PageTable, vars
<1> QED BY <1>3, <1>4, <1>5, <1>6, StepKeepsInv

(* A failed pass that loses it.                                            *)
LEMMA PassBreaksStep ==
  ASSUME EInv, IInv', NEW r \in Request, PassBreaks(r)
  PROVE  OwnInv'
<1> DEFINE s == [seq[r] EXCEPT !.stage = "spent"]
<1>1. /\ \/ turn = r /\ seq[r].stage = "primed"
         \/ turn = None /\ seq[r].stage = "ready"
      /\ turn' = None /\ UNCHANGED recycled /\ LoseState(r)
      /\ tails' = tails \/ (seq[r].stage = "primed" /\ tails' = TailsAfterFirst(r))
      /\ seq[r].stage \in {"primed", "ready"}
  BY DEF PassBreaks, InPass, LoseState
<1>2. /\ s \in Sequence /\ s.stage = "spent" /\ s.done = seq[r].done
      /\ s.prompt = seq[r].prompt /\ s.text = seq[r].text /\ s.budget = seq[r].budget
  <2>1. seq[r] \in Sequence
    BY DEF EInv, OwnInv, ExecTypeOK
  <2> QED BY <2>1 DEF Sequence, Stages
<1>3. /\ ExecTypeOK' /\ seq'[r] = s
      /\ \A q \in Request \ {r} : seq'[q] = seq[q] /\ draft'[q] = draft[q]
  <2>1. seq \in [Request -> Sequence]
    BY DEF EInv, OwnInv, ExecTypeOK
  <2>2. PICK d \in DraftCache : seq' = [seq EXCEPT ![r] = s] /\ draft' = [draft EXCEPT ![r] = d]
    BY <1>1, <2>1, DraftsLeftType DEF PassBreaks
  <2>3. tails' \in Seq(TailEntry)
    BY <1>1, PromptTailType DEF EInv, OwnInv, ExecTypeOK
  <2>4. recycled' \subseteq Lane /\ turn' \in Request \cup {None}
    BY <1>1 DEF EInv, OwnInv, ExecTypeOK
  <2> HIDE DEF s
  <2> QED BY <1>2, <2>2, <2>3, <2>4, MoveKeepsTypes
<1> HIDE DEF s
<1>4. /\ r \notin active'
      /\ \A q \in Request \ {r} :
           /\ matched'[q] = matched[q] /\ capacity'[q] = capacity[q]
           /\ PageTable(q)' = PageTable(q)
           /\ q \in active' <=> q \in active
  <2>1. CASE r \in Plain
    <3>1. UNCHANGED vars
      BY <1>1, <2>1 DEF LoseState
    <3> QED BY <2>1, <3>1 DEF EInv, OwnInv, Backed, PageTable, vars
  <2>2. CASE r \notin Plain
    <3>1. Release(r)
      BY <1>1, <2>2 DEF LoseState, Cancel
    <3> QED BY <3>1, ReleaseFrame DEF EInv
  <2> QED BY <2>1, <2>2
<1>5. Sound(r)'
  <2>1. Generated(r)' = Generated(r) /\ Sound(r)
    BY <1>2, <1>3 DEF Generated, EInv, OwnInv
  <2> QED BY <1>1, <1>2, <1>3, <2>1 DEF Sound, Resident, Opening
<1>6. Backed(r)'
  BY <1>2, <1>3, <1>4 DEF Backed
<1>7. Step(r)
  BY <1>1, <1>2, <1>3, <1>4 DEF Step, Opening
<1> QED BY <1>3, <1>5, <1>6, <1>7, StepKeepsInv

(* The openings that end without a pass.                                   *)
LEMMA RefusedOpeningStep ==
  ASSUME EInv, IInv', NEW r \in Request,
         \/ NoLane(r) \/ NoDraftSlot(r)
         \/ \E m \in Prefixes(seq[r].done) : RealignRefused(r, m)
  PROVE  OwnInv'
<1>1. CASE NoLane(r)
  <2>1. seq[r].stage \in {"probed", "reserved"}
    BY <1>1 DEF NoLane, MatchStands
  <2> QED BY <1>1, <2>1, CloseStep DEF NoLane
<1>2. CASE NoDraftSlot(r)
  <2>1. LoseState(r) /\ seq[r].stage = "bound"
    BY <1>2 DEF NoDraftSlot
  <2>2. CASE r \in Plain
    <3>1. UNCHANGED vars /\ turn' = None
      BY <2>1, <2>2 DEF LoseState
    <3>2. r \notin active
      BY <2>2 DEF EInv, OwnInv, Backed
    <3> QED BY <1>2, <2>1, <3>1, <3>2, CloseStep DEF NoDraftSlot, vars
  <2>3. CASE r \notin Plain
    <3>1. Cancel(r) /\ turn' = None
      BY <2>1, <2>3 DEF LoseState
    <3> QED BY <1>2, <2>1, <3>1, CloseStep DEF NoDraftSlot
  <2> QED BY <2>2, <2>3
<1>3. ASSUME NEW m \in Prefixes(seq[r].done), RealignRefused(r, m) PROVE OwnInv'
  <2>1. /\ turn = r /\ turn' = None /\ seq[r].stage = "realign" /\ Close(r)
        /\ UNCHANGED <<draft, tails>> /\ recycled' = recycled
        /\ UNCHANGED <<matched, capacity, shared, private, active>>
    BY <1>3 DEF RealignRefused, ReserveRefused
  <2>2. r \notin active
    BY <2>1 DEF EInv, OwnInv, Backed
  <2> QED BY <2>1, <2>2, CloseStep
<1> QED BY <1>1, <1>2, <1>3

(* Finishing: the tail is kept, the pages published or given back.         *)
LEMMA FinishStep ==
  ASSUME EInv, IInv', NEW r \in Request, NEW m \in Prefixes(PublishedText(r)), Finish(r, m)
  PROVE  OwnInv'
<1>1. /\ turn = None /\ turn' = turn /\ seq[r].stage \in {"ready", "failed", "spent"}
      /\ seq' = [seq EXCEPT ![r] = Idle] /\ draft' = [draft EXCEPT ![r] = NoSlot]
      /\ tails' = IF Retains(r) THEN TailInsert(tails, LastTail(r)) ELSE tails
      /\ recycled' = IF Resident(r) THEN recycled \cup {seq[r].lane} ELSE recycled
  BY DEF Finish, Close
<1>2. IF r \notin active THEN UNCHANGED vars ELSE Release(r)
  BY DEF Finish, Commit, Cancel
<1>3. <<>> \in Texts
  <2>1. SubSeq(seq[r].prompt, 1, 0) \in Texts /\ SubSeq(seq[r].prompt, 1, 0) = <<>>
    BY RequestTypes, TextsType, LenProperties
  <2> QED BY <2>1
<1>4. Idle \in Sequence /\ Idle.stage = "idle"
  BY <1>3 DEF Idle, Sequence, Stages
<1>5. NoSlot \in DraftCache
  <2>1. <<>> \in Seq(Texts)
    OBVIOUS
  <2> QED BY <2>1 DEF NoSlot, DraftCache
<1>6. tails' \in Seq(TailEntry)
  <2>1. tails \in Seq(TailEntry)
    BY DEF EInv, OwnInv, ExecTypeOK
  <2>2. ASSUME Retains(r) PROVE LastTail(r) \in TailEntry
    <3>1. draft[r].context \in 0..Len(seq[r].done)
      BY <2>2, RequestTypes DEF Retains
    <3>2. SubSeq(seq[r].done, 1, draft[r].context) \in Texts
      BY <3>1, RequestTypes, TextsType
    <3>3. draft[r].rows \in Seq(Texts)
      BY RequestTypes
    <3> QED BY <3>2, <3>3 DEF LastTail, TailEntry
  <2> QED BY <1>1, <2>1, <2>2, TailInsertKeepsOthers
<1>7. recycled' \subseteq Lane
  BY <1>1 DEF EInv, OwnInv, ExecTypeOK, Sound
<1>8. /\ ExecTypeOK' /\ seq'[r] = Idle /\ draft'[r] = NoSlot
      /\ \A q \in Request \ {r} : seq'[q] = seq[q] /\ draft'[q] = draft[q]
  <2>1. turn' \in Request \cup {None}
    BY <1>1
  <2> QED BY <1>1, <1>4, <1>5, <1>6, <1>7, <2>1, MoveKeepsTypes
<1>9. /\ r \notin active'
      /\ \A q \in Request \ {r} :
           /\ matched'[q] = matched[q] /\ capacity'[q] = capacity[q]
           /\ PageTable(q)' = PageTable(q)
           /\ q \in active' <=> q \in active
  <2>1. CASE r \in active
    BY <1>2, <2>1, ReleaseFrame DEF EInv
  <2>2. CASE r \notin active
    BY <1>2, <2>2 DEF PageTable, vars
  <2> QED BY <2>1, <2>2
<1>10. Sound(r)' /\ Backed(r)'
  BY <1>4, <1>8, <1>9 DEF Sound, Backed, Opening, Resident
<1>11. Step(r)
  BY <1>1, <1>4, <1>8, <1>9 DEF Step, Opening
<1> QED BY <1>8, <1>10, <1>11, StepKeepsInv

(* Steps of the cache under a request: pages come, nothing else.           *)
LEMMA CacheStep ==
  ASSUME EInv, IInv', UNCHANGED own,
         \/ \E r \in Request : CopyBoundary(r) \/ Extend(r)
         \/ \E p \in Page : TakePage(p)
         \/ \E n \in DOMAIN tree : EvictOneLeaf(n)
         \/ UNCHANGED vars
         \/ \E r \in Request, ids \in Texts, cap \in Nat : \E m \in Prefixes(ids) :
              ReserveRefused(r, ids, cap, m)
  PROVE  OwnInv'
<1>1. UNCHANGED <<matched, capacity, active>>
  BY DEF CopyBoundary, Extend, TakeBoundaryCopy, EnsureMaterialized, TakePage, EvictOneLeaf,
         ReserveRefused, vars
<1>2. ASSUME NEW q \in Request PROVE Len(PageTable(q))' >= Len(PageTable(q))
  <2>1. CASE UNCHANGED <<shared, private>>
    <3>1. PageTable(q)' = PageTable(q)
      BY <2>1 DEF PageTable
    <3>2. Len(PageTable(q)) \in Nat
      BY RequestTypes
    <3> QED BY <3>1, <3>2
  <2>2. CASE \E p \in Page : TakePage(p)
    <3>1. PICK p \in Page : TakePage(p)
      BY <2>2
    <3>2. private \in [Request -> Seq(Page)] /\ shared \in [Request -> Seq(Page)]
      BY DEF EInv, IInv, TypeOK
    <3>3. shared'[q] = shared[q] /\ private'[q] \in {private[q], Append(private[q], p)}
      BY <3>1, <3>2 DEF TakePage
    <3>4. PICK a \in Seq(Page), b \in Seq(Page) : a = shared[q] /\ b = private[q]
      BY <3>2
    <3>5. Append(b, p) \in Seq(Page) /\ Len(Append(b, p)) = Len(b) + 1
      BY <3>4
    <3>6. Len(a \o b) = Len(a) + Len(b) /\ Len(a \o Append(b, p)) = Len(a) + Len(Append(b, p))
      BY <3>5, ConcatProperties
    <3>7. Len(a) \in Nat /\ Len(b) \in Nat
      BY LenProperties
    <3>8. Len(PageTable(q)) = Len(a) + Len(b)
      BY <3>4, <3>6 DEF PageTable
    <3>9. Len(PageTable(q))' \in {Len(a) + Len(b), Len(a) + Len(b) + 1}
      <4>1. PageTable(q)' \in {a \o b, a \o Append(b, p)}
        BY <3>3, <3>4 DEF PageTable
      <4> HIDE DEF PageTable
      <4>2. Len(a \o Append(b, p)) = Len(a) + Len(b) + 1
        BY <3>5, <3>6, <3>7
      <4> QED BY <3>6, <4>1, <4>2
    <3> HIDE DEF PageTable
    <3> QED BY <3>7, <3>8, <3>9
  <2> QED BY <2>1, <2>2
          DEF CopyBoundary, Extend, TakeBoundaryCopy, EnsureMaterialized, EvictOneLeaf,
              ReserveRefused, vars
<1>3. \A q \in Request : Kept(q)
  BY <1>1, <1>2 DEF Kept, own
<1> QED BY <1>3, OwnKept

-----------------------------------------------------------------------------
(* The theorems *)

(* The invariant holds when the daemon starts. *)
LEMMA ExecInitInv == ExecInit => EInv
<1> SUFFICES ASSUME ExecInit PROVE EInv
  OBVIOUS
<1>1. IInv /\ active = {} /\ None \notin Request
  BY InitInv, RadixAssumption DEF ExecInit, Init, RadixAssumption
<1>2. <<>> \in Texts
  <2>1. PICK ids \in Texts : TRUE
    BY ExecutorAssumption DEF ExecutorAssumption
  <2>2. SubSeq(ids, 1, 0) \in Texts /\ SubSeq(ids, 1, 0) = <<>>
    BY <2>1, TextsType, LenProperties
  <2> QED BY <2>2
<1>3. Idle \in Sequence /\ Idle.stage = "idle"
  BY <1>2 DEF Idle, Sequence, Stages
<1>4. NoSlot \in DraftCache
  <2>1. <<>> \in Seq(Texts)
    OBVIOUS
  <2> QED BY <2>1 DEF NoSlot, DraftCache
<1>5. ExecTypeOK
  BY <1>3, <1>4 DEF ExecInit, ExecTypeOK
<1>6. \A r \in Request : seq[r] = Idle /\ draft[r] = NoSlot
  BY DEF ExecInit
<1>7. \A r \in Request : Sound(r) /\ Backed(r)
  BY <1>1, <1>3, <1>6 DEF Sound, Backed, Opening, Resident
<1>8. Turns
  BY <1>1, <1>3, <1>6 DEF Turns, ExecInit, Opening
<1> QED BY <1>1, <1>5, <1>7, <1>8 DEF EInv, OwnInv

(* Every step keeps it. *)
LEMMA EInvStep == EInv /\ [ExecNext]_execVars => EInv'
<1> SUFFICES ASSUME EInv, [ExecNext]_execVars PROVE IInv' /\ OwnInv'
  BY DEF EInv
<1>0. IInv'
  BY StepUsesRadix, IInvStep DEF EInv
<1> SUFFICES OwnInv'
  BY <1>0
<1>1. CASE UNCHANGED execVars
  BY <1>0, <1>1, CacheStep DEF execVars
<1>2. ASSUME NEW r \in Request, NEW ids \in Texts, NEW budget \in Budgets,
             NEW drafting \in {FALSE, budget > 1},
             \/ \E m \in Prefixes(Front(ids)) : Probe(r, ids, budget, drafting, m)
             \/ TakeLanePlain(r, ids, budget, drafting)
      PROVE  OwnInv'
  <2>1. (budget > 1) \in BOOLEAN
    OBVIOUS
  <2>2. drafting \in BOOLEAN
    BY <2>1, Zenon
  <2> QED BY <1>0, <1>2, <2>2, ProbeStep, TakeLanePlainStep
<1>3. ASSUME NEW r \in Request, NEW ids \in Texts, NEW budget \in Budgets,
             NEW m \in Prefixes(Front(ids)), ProbeRefused(r, ids, budget, m)
      PROVE  OwnInv'
  <2>1. /\ ids # <<>> /\ Fits(ids, budget) /\ budget \in Nat \ {0} /\ UNCHANGED own
        /\ ReserveRefused(r, Front(ids), Capacity(ids, budget), m)
    BY <1>3, ExecutorAssumption DEF ProbeRefused, Fits, ExecutorAssumption
  <2>2. Front(ids) \in Texts /\ Capacity(ids, budget) \in Capacities
    BY <2>1, FrontText, CapacityFits
  <2> QED BY <1>0, <2>1, <2>2, CapacitiesType, CacheStep
<1>4. ASSUME NEW r \in Request, NEW m \in Prefixes(seq[r].done),
             Realign(r, m) \/ RealignRefused(r, m)
      PROVE  OwnInv'
  BY <1>0, <1>4, RealignStep, RefusedOpeningStep
<1>5. ASSUME NEW r \in Request, DropMatch(r) \/ TakeLane(r) \/ NoLane(r) \/ Prepare(r)
                                \/ NoDraftSlot(r) \/ PassFails(r) \/ PassBreaks(r)
      PROVE  OwnInv'
  BY <1>0, <1>5, DropMatchStep, TakeLaneStep, RefusedOpeningStep, PrepareStep,
     PassFailsStep, PassBreaksStep
<1>6. ASSUME NEW r \in Request, CopyBoundary(r) \/ Extend(r) PROVE OwnInv'
  <2>1. UNCHANGED own
    BY <1>6 DEF CopyBoundary, Extend
  <2> QED BY <1>0, <1>6, <2>1, CacheStep
<1>7. ASSUME NEW r \in Request, NEW t \in Token, FirstPass(r, t) PROVE OwnInv'
  BY <1>0, <1>7, FirstPassStep
<1>8. ASSUME NEW r \in Request, NEW ids \in Texts, NextPass(r, ids) PROVE OwnInv'
  BY <1>0, <1>8, NextPassStep
<1>9. ASSUME NEW r \in Request, NEW m \in Prefixes(PublishedText(r)), Finish(r, m)
      PROVE  OwnInv'
  BY <1>0, <1>9, FinishStep
<1>10. CASE \E p \in Page : TakePage(p) /\ UNCHANGED own
  BY <1>0, <1>10, CacheStep
<1>11. CASE \E n \in DOMAIN tree : EvictOneLeaf(n) /\ UNCHANGED own
  BY <1>0, <1>11, CacheStep
<1>12. CASE \E r \in Request, ids \in Texts, budget \in Budgets :
             \/ \E drafting \in {FALSE, budget > 1} :
                  \/ \E m \in Prefixes(Front(ids)) : Probe(r, ids, budget, drafting, m)
                  \/ TakeLanePlain(r, ids, budget, drafting)
             \/ \E m \in Prefixes(Front(ids)) : ProbeRefused(r, ids, budget, m)
  BY <1>2, <1>3, <1>12
<1>13. CASE \E r \in Request : \E m \in Prefixes(seq[r].done) :
              Realign(r, m) \/ RealignRefused(r, m)
  BY <1>4, <1>13
<1>14. CASE \E r \in Request :
              \/ DropMatch(r) \/ TakeLane(r) \/ NoLane(r) \/ CopyBoundary(r) \/ Extend(r)
              \/ Prepare(r) \/ NoDraftSlot(r) \/ PassFails(r) \/ PassBreaks(r)
  BY <1>5, <1>6, <1>14
<1>15. CASE ExecNext
  BY <1>7, <1>8, <1>9, <1>10, <1>11, <1>12, <1>13, <1>14, <1>15 DEF ExecNext
<1> QED BY <1>1, <1>15

(* The inductive invariant. *)
THEOREM ExecInvariance == ExecSpec => []EInv
<1>1. ExecInit => EInv
  BY ExecInitInv
<1>2. EInv /\ [ExecNext]_execVars => EInv'
  BY EInvStep
<1> QED BY <1>1, <1>2, PTL DEF ExecSpec

(* The executor implements the prefix cache: what it does to the cache is   *)
(* what the cache allows, so that all that is proved of the cache holds     *)
(* under the executor.                                                     *)
THEOREM ExecutorUsesRadix == ExecSpec => UsesRadix
<1>1. ExecInit => Init
  BY DEF ExecInit
<1>2. EInv /\ [ExecNext]_execVars => [Next]_vars
  BY StepUsesRadix
<1> QED BY <1>1, <1>2, ExecInvariance, PTL DEF ExecSpec, UsesRadix, Spec

(* The executor's own state keeps its types. *)
THEOREM ExecTypeCorrectness == ExecSpec => []ExecTypeOK
<1>1. EInv => ExecTypeOK
  BY DEF EInv, OwnInv
<1> QED BY <1>1, ExecInvariance, PTL

(* A request holds a reservation, a draft slot and the turn only at the     *)
(* stages that are entitled to it, whatever fails, is refused or runs out. *)
THEOREM NothingIsLeaked == ExecSpec => []NothingOutlivesItsRequest
<1>1. EInv => NothingOutlivesItsRequest
  <2> SUFFICES ASSUME EInv, NEW r \in Request
               PROVE  /\ r \in active <=> r \notin Plain /\ seq[r].stage \notin {"idle", "realign", "spent"}
                      /\ draft[r].slot => seq[r].stage \in {"primed", "ready", "failed", "spent"}
                      /\ turn = r <=> seq[r].stage \in Opening
    BY DEF NothingOutlivesItsRequest
  <2>1. Sound(r) /\ Backed(r) /\ Turns
    BY DEF EInv, OwnInv
  <2> QED BY <2>1 DEF Sound, Backed, Turns, NoSlot
<1> QED BY <1>1, ExecInvariance, PTL

(* Under the executor no page is lost, and none has two owners. *)
THEOREM ExecutorKeepsPages == ExecSpec => []PagePartition
BY ExecutorUsesRadix, PagesArePartitioned, PTL DEF UsesRadix

-----------------------------------------------------------------------------
(* Who takes a step *)

(* The steps that are taken for one request, and those that leave every     *)
(* request's record, draft slot, tails and lanes as they are.              *)
Opens(r) ==
  \E ids \in Texts, budget \in Budgets, drafting \in BOOLEAN :
    \/ \E m \in Prefixes(Front(ids)) : Probe(r, ids, budget, drafting, m)
    \/ TakeLanePlain(r, ids, budget, drafting)

GoesOn(r) ==
  \/ \E m \in Prefixes(seq[r].done) : Realign(r, m) \/ RealignRefused(r, m)
  \/ DropMatch(r) \/ TakeLane(r) \/ NoLane(r) \/ Prepare(r) \/ NoDraftSlot(r)

Passes(r) ==
  \/ \E t \in Token : FirstPass(r, t)
  \/ \E ids \in Texts : NextPass(r, ids)
  \/ PassFails(r) \/ PassBreaks(r)

Ends(r) == \E m \in Prefixes(PublishedText(r)) : Finish(r, m)

Quiet ==
  \/ \E r \in Request : CopyBoundary(r) \/ Extend(r)
  \/ \E r \in Request, ids \in Texts, budget \in Budgets :
       \E m \in Prefixes(Front(ids)) : ProbeRefused(r, ids, budget, m)
  \/ \E p \in Page : TakePage(p) /\ UNCHANGED own
  \/ \E n \in DOMAIN tree : EvictOneLeaf(n) /\ UNCHANGED own
  \/ UNCHANGED execVars

(* There are no others. *)
LEMMA ExecCases ==
  ASSUME [ExecNext]_execVars
  PROVE  Quiet \/ \E r \in Request : Opens(r) \/ GoesOn(r) \/ Passes(r) \/ Ends(r)
<1>1. ASSUME NEW r \in Request, NEW ids \in Texts, NEW budget \in Budgets,
             NEW drafting \in {FALSE, budget > 1},
             \/ \E m \in Prefixes(Front(ids)) : Probe(r, ids, budget, drafting, m)
             \/ TakeLanePlain(r, ids, budget, drafting)
      PROVE  Opens(r)
  <2>1. (budget > 1) \in BOOLEAN
    OBVIOUS
  <2>2. drafting \in BOOLEAN
    BY <2>1, Zenon
  <2> QED BY <1>1, <2>2 DEF Opens
<1>2. CASE \E r \in Request, ids \in Texts, budget \in Budgets :
             \/ \E drafting \in {FALSE, budget > 1} :
                  \/ \E m \in Prefixes(Front(ids)) : Probe(r, ids, budget, drafting, m)
                  \/ TakeLanePlain(r, ids, budget, drafting)
             \/ \E m \in Prefixes(Front(ids)) : ProbeRefused(r, ids, budget, m)
  BY <1>1, <1>2 DEF Quiet
<1>3. CASE \E r \in Request : \E m \in Prefixes(seq[r].done) :
             Realign(r, m) \/ RealignRefused(r, m)
  BY <1>3 DEF GoesOn
<1>4. CASE \E r \in Request :
             \/ DropMatch(r) \/ TakeLane(r) \/ NoLane(r) \/ CopyBoundary(r) \/ Extend(r)
             \/ Prepare(r) \/ NoDraftSlot(r) \/ PassFails(r) \/ PassBreaks(r)
  BY <1>4 DEF GoesOn, Passes, Quiet
<1>5. CASE \/ \E r \in Request, t \in Token : FirstPass(r, t)
           \/ \E r \in Request, ids \in Texts : NextPass(r, ids)
           \/ \E r \in Request : \E m \in Prefixes(PublishedText(r)) : Finish(r, m)
  BY <1>5 DEF Passes, Ends
<1>6. CASE \/ \E p \in Page : TakePage(p) /\ UNCHANGED own
           \/ \E n \in DOMAIN tree : EvictOneLeaf(n) /\ UNCHANGED own
           \/ UNCHANGED execVars
  BY <1>6 DEF Quiet
<1>7. CASE ExecNext
  BY <1>2, <1>3, <1>4, <1>5, <1>6, <1>7 DEF ExecNext
<1> QED BY <1>6, <1>7

-----------------------------------------------------------------------------
(***************************************************************************)
(* Lanes: no two scheduler states share one, and an opening runs out of    *)
(* lanes or draft slots only for a reason.                                 *)
(***************************************************************************)

(* Two states have different lanes, recycled states included, and there    *)
(* are no more reservations than lanes.                                    *)
LanesApart ==
  /\ \A q, r \in Request : Resident(q) /\ Resident(r) /\ q # r => seq[q].lane # seq[r].lane
  /\ \A r \in Request : Resident(r) => seq[r].lane \notin recycled
  /\ Cardinality(active) <= Lanes

LInv == EInv /\ LanesApart

(* What a step may do to the lane of its request: give it up, to be        *)
(* recycled or not, keep it, or take the next one.                         *)
MovesLane(r) ==
  /\ \A q \in Request \ {r} : seq'[q] = seq[q]
  /\ \/ /\ ~Resident(r)'
        /\ recycled' \subseteq recycled \cup {l \in {seq[r].lane} : Resident(r)}
     \/ /\ Resident(r) /\ Resident(r)' /\ seq'[r].lane = seq[r].lane
        /\ recycled' = recycled
     \/ /\ ~Resident(r) /\ Resident(r)' /\ seq'[r].lane = NextLane
        /\ recycled \cup FreeLanes # {} /\ recycled' = recycled \ {NextLane}

(* Such a step keeps the lanes apart. *)
LEMMA LaneMoves ==
  ASSUME LInv, NEW r \in Request, MovesLane(r)
  PROVE  /\ \A p, q \in Request : Resident(p)' /\ Resident(q)' /\ p # q => seq'[p].lane # seq'[q].lane
         /\ \A q \in Request : Resident(q)' => seq'[q].lane \notin recycled'
<1>1. /\ \A p, q \in Request : Resident(p) /\ Resident(q) /\ p # q => seq[p].lane # seq[q].lane
      /\ \A q \in Request : Resident(q) => seq[q].lane \notin recycled
  BY DEF LInv, LanesApart
<1>2. \A q \in Request \ {r} : (Resident(q)' <=> Resident(q)) /\ seq'[q].lane = seq[q].lane
  BY DEF MovesLane, Resident
<1>3. CASE /\ ~Resident(r)'
           /\ recycled' \subseteq recycled \cup {l \in {seq[r].lane} : Resident(r)}
  BY <1>1, <1>2, <1>3
<1>4. CASE /\ Resident(r) /\ Resident(r)' /\ seq'[r].lane = seq[r].lane
           /\ recycled' = recycled
  BY <1>1, <1>2, <1>4
<1>5. CASE /\ ~Resident(r) /\ Resident(r)' /\ seq'[r].lane = NextLane
           /\ recycled \cup FreeLanes # {} /\ recycled' = recycled \ {NextLane}
  <2>1. \A q \in Request : Resident(q) => seq[q].lane # NextLane
    <3>1. \/ recycled # {} /\ NextLane \in recycled
          \/ NextLane \in FreeLanes
      BY <1>5, NextLaneExists DEF LInv
    <3>2. \A q \in Request : Resident(q) => seq[q].lane \in Occupied
      BY DEF Occupied
    <3> QED BY <1>1, <3>1, <3>2 DEF FreeLanes
  <2> QED BY <1>1, <1>2, <1>5, <2>1
<1> QED BY <1>3, <1>4, <1>5 DEF MovesLane

(* A reservation is made only while there are fewer than lanes.            *)
LEMMA ActiveWithinLanes ==
  ASSUME LInv, [Next]_vars
  PROVE  Cardinality(active') <= Lanes
<1>1. /\ active \subseteq Request /\ IsFiniteSet(active) /\ Cardinality(active) \in Nat
      /\ Cardinality(active) <= Lanes /\ Lanes \in Nat /\ Lanes = MaxActive
  <2>1. active \subseteq Request
    BY DEF LInv, EInv, IInv, TypeOK
  <2>2. IsFiniteSet(active)
    BY <2>1, RadixAssumption, FS_Subset DEF RadixAssumption
  <2> QED BY <2>1, <2>2, FS_CardinalityType, RadixAssumption, ExecutorAssumption
          DEF RadixAssumption, ExecutorAssumption, LInv, LanesApart
<1>2. ASSUME NEW r \in Request, active' = active \cup {r}, Cardinality(active) < MaxActive
      PROVE  Cardinality(active') <= Lanes
  BY <1>1, <1>2, FS_AddElement
<1>3. ASSUME NEW r \in Request, active' = active \ {r}
      PROVE  Cardinality(active') <= Lanes
  <2>1. Cardinality(active') <= Cardinality(active) /\ Cardinality(active') \in Nat
    BY <1>1, <1>3, FS_Subset, FS_CardinalityType
  <2> QED BY <1>1, <2>1
<1>4. \/ active' = active
      \/ \E r \in Request : \/ active' = active \cup {r} /\ Cardinality(active) < MaxActive
                            \/ active' = active \ {r}
  <2>1. ASSUME NEW ids \in Texts, NEW m \in Prefixes(ids), NEW r \in Request, NEW cap \in Capacities,
               Reserve(r, ids, cap, m)
        PROVE  active' = active \cup {r} /\ Cardinality(active) < MaxActive
    BY <2>1 DEF Reserve, CanReserve
  <2>2. ASSUME NEW r \in Request, Release(r) PROVE active' = active \ {r}
    BY <2>2 DEF Release
  <2>3. ASSUME NEW ids \in Texts, NEW m \in Prefixes(ids), NEW r \in Request, Commit(r, ids, m)
        PROVE  active' = active \ {r}
    BY <2>2, <2>3 DEF Commit
  <2>4. ASSUME NEW r \in Request, Cancel(r) PROVE active' = active \ {r}
    BY <2>2, <2>4 DEF Cancel
  <2>5. ASSUME NEW ids \in Texts, NEW m \in Prefixes(ids),
               \/ EvictExactLeaf(ids, m) \/ EvictExactSubtree(ids, m)
               \/ \E r \in Request, cap \in Capacities : ReserveRefused(r, ids, cap, m)
        PROVE  active' = active
    BY <2>5 DEF EvictExactLeaf, EvictExactSubtree, EvictExact, ReserveRefused
  <2>6. ASSUME \/ \E r \in Request : TakeBoundaryCopy(r)
               \/ \E r \in Request, tokens \in Capacities : EnsureMaterialized(r, tokens)
               \/ \E p \in Page : TakePage(p)
               \/ \E n \in DOMAIN tree : EvictOneLeaf(n)
        PROVE  active' = active
    BY <2>6 DEF TakeBoundaryCopy, EnsureMaterialized, TakePage, EvictOneLeaf
  <2>7. CASE UNCHANGED vars
    BY <2>7 DEF vars
  <2>8. CASE Next
    BY <2>1, <2>3, <2>4, <2>5, <2>6, <2>8 DEF Next
  <2> QED BY <2>7, <2>8
<1> QED BY <1>1, <1>2, <1>3, <1>4

(* What the steps of an opening do to the lane of their request.           *)
LEMMA OpeningMovesLane ==
  ASSUME EInv, NEW r \in Request,
         Opens(r) \/ GoesOn(r)
  PROVE  MovesLane(r)
<1>1. seq \in [Request -> Sequence] /\ seq[r] \in Sequence
  BY DEF EInv, OwnInv, ExecTypeOK
<1>2. ASSUME NEW ids \in Texts, NEW budget \in Budgets, NEW drafting \in BOOLEAN,
             NEW m \in Prefixes(Front(ids)), Probe(r, ids, budget, drafting, m)
      PROVE  MovesLane(r)
  <2>1. seq' = [seq EXCEPT ![r] = Opened(ids, budget, drafting)] /\ recycled' = recycled
    BY <1>2 DEF Probe
  <2>2. Opened(ids, budget, drafting).stage = "probed"
    BY DEF Opened, Idle
  <2> QED BY <1>1, <2>1, <2>2 DEF MovesLane, Resident
<1>3. ASSUME NEW ids \in Texts, NEW budget \in Budgets, NEW drafting \in BOOLEAN,
             TakeLanePlain(r, ids, budget, drafting)
      PROVE  MovesLane(r)
  <2> DEFINE s == [Opened(ids, budget, drafting) EXCEPT !.stage = "bound", !.lane = NextLane]
  <2>1. /\ seq' = [seq EXCEPT ![r] = s] /\ recycled' = recycled \ {NextLane}
        /\ recycled \cup FreeLanes # {} /\ seq[r].stage = "idle"
    BY <1>3 DEF TakeLanePlain
  <2>2. s.stage = "bound" /\ s.lane = NextLane
    BY DEF Opened, Idle
  <2> HIDE DEF s
  <2>3. seq'[r] = s /\ \A q \in Request \ {r} : seq'[q] = seq[q]
    BY <1>1, <2>1
  <2> QED BY <2>1, <2>2, <2>3 DEF MovesLane, Resident
<1>4. ASSUME NEW m \in Prefixes(seq[r].done), Realign(r, m)
      PROVE  MovesLane(r)
  <2>1. seq' = [seq EXCEPT ![r].stage = "reserved"] /\ recycled' = recycled
    BY <1>4 DEF Realign
  <2> QED BY <1>1, <2>1 DEF MovesLane, Resident, Sequence
<1>5. ASSUME Close(r), recycled' = recycled PROVE MovesLane(r)
  BY <1>1, <1>5 DEF MovesLane, Resident, Close, Idle
<1>6. ASSUME NEW m \in Prefixes(seq[r].done), RealignRefused(r, m) PROVE MovesLane(r)
  BY <1>5, <1>6 DEF RealignRefused
<1>7. CASE NoLane(r) \/ NoDraftSlot(r)
  BY <1>5, <1>7 DEF NoLane, NoDraftSlot
<1>8. CASE DropMatch(r)
  <2>1. /\ seq' = [seq EXCEPT ![r].stage = "realign", ![r].done = Aligned(matched[r])]
        /\ recycled' = recycled
    BY <1>8 DEF DropMatch
  <2> QED BY <1>1, <2>1 DEF MovesLane, Resident, Sequence
<1>9. CASE TakeLane(r)
  <2> DEFINE s == [seq[r] EXCEPT !.stage = "bound", !.lane = NextLane, !.done = matched[r]]
  <2>1. /\ seq' = [seq EXCEPT ![r] = s] /\ recycled' = recycled \ {NextLane}
        /\ recycled \cup FreeLanes # {} /\ seq[r].stage \in {"probed", "reserved"}
    BY <1>1, <1>9 DEF TakeLane, MatchStands
  <2>2. s.stage = "bound" /\ s.lane = NextLane
    BY <1>1 DEF Sequence
  <2> HIDE DEF s
  <2>3. seq'[r] = s /\ \A q \in Request \ {r} : seq'[q] = seq[q]
    BY <1>1, <2>1
  <2> QED BY <2>1, <2>2, <2>3 DEF MovesLane, Resident
<1>10. CASE Prepare(r)
  <2>1. seq' = [seq EXCEPT ![r].stage = "primed"] /\ recycled' = recycled /\ seq[r].stage = "bound"
    BY <1>10 DEF Prepare
  <2> QED BY <1>1, <2>1 DEF MovesLane, Resident, Sequence
<1> QED BY <1>2, <1>3, <1>4, <1>6, <1>7, <1>8, <1>9, <1>10 DEF Opens, GoesOn

(* What its passes do to it, and its end.                                  *)
LEMMA PassMovesLane ==
  ASSUME EInv, NEW r \in Request,
         Passes(r) \/ Ends(r)
  PROVE  MovesLane(r)
<1>1. seq \in [Request -> Sequence] /\ seq[r] \in Sequence
  BY DEF EInv, OwnInv, ExecTypeOK
<1>2. ASSUME NEW a, a.lane = seq[r].lane, seq' = [seq EXCEPT ![r] = Settled(r, a)],
             a \in Sequence, Give(r, Settled(r, a)), Resident(r)
      PROVE  MovesLane(r)
  <2> DEFINE s == Settled(r, a)
  <2>1. s.lane = seq[r].lane /\ s.stage \in {"ready", "spent"}
    BY <1>2, SettledType
  <2> HIDE DEF s
  <2>2. seq'[r] = s /\ \A q \in Request \ {r} : seq'[q] = seq[q]
    BY <1>1, <1>2 DEF s
  <2>3. recycled' = IF s.stage = "spent" THEN recycled \cup {s.lane} ELSE recycled
    BY <1>2 DEF Give, s
  <2>4. CASE s.stage = "spent"
    BY <1>2, <2>1, <2>2, <2>3, <2>4 DEF MovesLane, Resident
  <2>5. CASE s.stage = "ready"
    BY <1>2, <2>1, <2>2, <2>3, <2>5 DEF MovesLane, Resident
  <2> QED BY <2>1, <2>4, <2>5
<1>3. ASSUME NEW t \in Token, FirstPass(r, t) PROVE MovesLane(r)
  <2> DEFINE a == [seq[r] EXCEPT !.text = Append(@, t), !.done = seq[r].prompt]
  <2>1. /\ seq[r].stage = "primed" /\ Settled(r, a).text \in Texts
        /\ seq' = [seq EXCEPT ![r] = Settled(r, a)] /\ Give(r, Settled(r, a))
    BY <1>3 DEF FirstPass
  <2>2. a.lane = seq[r].lane /\ (a.text \in Texts => a \in Sequence) /\ Settled(r, a).text = a.text
    BY <1>1 DEF Sequence, Settled
  <2> HIDE DEF a
  <2> QED BY <1>2, <2>1, <2>2 DEF Resident
<1>4. ASSUME NEW ids \in Texts, NextPass(r, ids) PROVE MovesLane(r)
  <2> DEFINE a == [seq[r] EXCEPT !.text = ids, !.done = Front(ids)]
  <2>1. /\ seq[r].stage = "ready"
        /\ seq' = [seq EXCEPT ![r] = Settled(r, a)] /\ Give(r, Settled(r, a))
    BY <1>4 DEF NextPass
  <2>2. Front(ids) \in Texts
    BY <1>4, NextPassFacts DEF NextPass
  <2>3. a.lane = seq[r].lane /\ a \in Sequence
    BY <1>1, <2>2 DEF Sequence
  <2> HIDE DEF a
  <2> QED BY <1>2, <2>1, <2>3 DEF Resident
<1>5. CASE PassFails(r)
  <2>1. /\ seq' = [seq EXCEPT ![r].stage = "failed"] /\ recycled' = recycled
        /\ seq[r].stage \in {"primed", "ready"}
    BY <1>5 DEF PassFails, InPass
  <2> QED BY <1>1, <2>1 DEF MovesLane, Resident, Sequence
<1>6. CASE PassBreaks(r)
  <2>1. seq' = [seq EXCEPT ![r].stage = "spent"] /\ recycled' = recycled
    BY <1>6 DEF PassBreaks
  <2> QED BY <1>1, <2>1 DEF MovesLane, Resident, Sequence
<1>7. ASSUME NEW m \in Prefixes(PublishedText(r)), Finish(r, m) PROVE MovesLane(r)
  <2>1. /\ seq' = [seq EXCEPT ![r] = Idle]
        /\ recycled' = IF Resident(r) THEN recycled \cup {seq[r].lane} ELSE recycled
    BY <1>7 DEF Finish, Close
  <2>2. recycled' \subseteq recycled \cup {l \in {seq[r].lane} : Resident(r)}
    BY <2>1
  <2>3. ~Resident(r)'
    BY <1>1, <2>1 DEF Resident, Idle
  <2> QED BY <1>1, <2>1, <2>2, <2>3 DEF MovesLane
<1> QED BY <1>3, <1>4, <1>5, <1>6, <1>7 DEF Passes, Ends

(* Every step keeps the lanes apart. *)
LEMMA LInvStep == LInv /\ [ExecNext]_execVars => LInv'
<1> SUFFICES ASSUME LInv, [ExecNext]_execVars PROVE LInv'
  OBVIOUS
<1>1. EInv /\ EInv' /\ Cardinality(active') <= Lanes
  BY EInvStep, StepUsesRadix, ActiveWithinLanes DEF LInv
<1>2. ASSUME NEW r \in Request, MovesLane(r) PROVE LInv'
  BY <1>1, <1>2, LaneMoves DEF LInv, LanesApart
<1>3. CASE Quiet
  <2>1. UNCHANGED <<seq, recycled>>
    BY <1>3 DEF Quiet, CopyBoundary, Extend, ProbeRefused, execVars, own
  <2> QED BY <1>1, <2>1 DEF LInv, LanesApart, Resident
<1>4. ASSUME NEW r \in Request, Opens(r) \/ GoesOn(r) PROVE LInv'
  BY <1>1, <1>2, <1>4, OpeningMovesLane
<1>5. ASSUME NEW r \in Request, Passes(r) \/ Ends(r) PROVE LInv'
  BY <1>1, <1>2, <1>5, PassMovesLane
<1> QED BY <1>3, <1>4, <1>5, ExecCases

(* Distinct lanes count the states that have them. *)
LEMMA LanesCountStates ==
  ASSUME LInv, NEW S \in SUBSET Request, \A q \in S : Resident(q)
  PROVE  /\ IsFiniteSet(S) /\ Cardinality(S) \in Nat /\ Cardinality(S) <= Lanes
         /\ Cardinality({seq[q].lane : q \in S}) <= Cardinality(S)
<1> DEFINE T == {seq[q].lane : q \in S}
           f == [q \in S |-> seq[q].lane]
<1>1. Lanes \in Nat /\ IsFiniteSet(Lane) /\ Cardinality(Lane) = Lanes
  <2>1. Lanes \in Nat /\ Lanes > 0
    BY RadixAssumption, ExecutorAssumption DEF RadixAssumption, ExecutorAssumption
  <2>2. 0 \in Int /\ Lanes - 1 \in Int /\ ~(0 > Lanes - 1) /\ Lanes - 1 - 0 + 1 = Lanes
    BY <2>1
  <2> QED BY <2>1, <2>2, FS_Interval DEF Lane
<1>2. \A q \in S : seq[q].lane \in Lane
  BY DEF LInv, EInv, OwnInv, Sound
<1>3. f \in Injection(S, Lane)
  BY <1>2 DEF Injection, IsInjective, LInv, LanesApart
<1>4. IsFiniteSet(S) /\ Cardinality(S) <= Cardinality(Lane)
  BY <1>1, <1>3, FS_Injection
<1>5. f \in Surjection(S, T)
  BY DEF Surjection
<1> QED BY <1>1, <1>4, <1>5, FS_Surjection, FS_CardinalityType

(* When all lanes are resident, a request without reservation has one.     *)
LEMMA LanesRunOut ==
  ASSUME LInv, NEW r \in active, seq[r].stage \in {"probed", "reserved"},
         recycled \cup FreeLanes = {}
  PROVE  \E q \in Plain : Resident(q)
<1> SUFFICES ASSUME \A q \in Plain : ~Resident(q) PROVE FALSE
  OBVIOUS
<1> DEFINE S == {q \in Request : Resident(q)}
<1>1. /\ r \in Request /\ active \subseteq Request /\ IsFiniteSet(active)
      /\ Cardinality(active) \in Nat /\ Cardinality(active) <= Lanes
      /\ \A q \in Request : q \in active <=> q \notin Plain /\ seq[q].stage \notin {"idle", "realign", "spent"}
  <2>1. active \subseteq Request
    BY DEF LInv, EInv, IInv, TypeOK
  <2> QED BY <2>1, RadixAssumption, FS_Subset, FS_CardinalityType
          DEF RadixAssumption, LInv, LanesApart, EInv, OwnInv, Backed
<1>2. r \notin S
  BY DEF Resident
<1>3. S \subseteq active \ {r}
  BY <1>1, <1>2 DEF Resident
<1>4. /\ IsFiniteSet(active \ {r}) /\ Cardinality(active \ {r}) = Cardinality(active) - 1
  BY <1>1, FS_RemoveElement
<1>5. Lane = {seq[q].lane : q \in S}
  <2>1. Lane \subseteq Occupied
    BY DEF FreeLanes
  <2>2. Occupied \subseteq Lane
    BY DEF Occupied, LInv, EInv, OwnInv, Sound
  <2> QED BY <2>1, <2>2 DEF Occupied
<1>6. Cardinality(Lane) = Lanes /\ Lanes \in Nat
  <2>1. Lanes \in Nat /\ Lanes > 0
    BY RadixAssumption, ExecutorAssumption DEF RadixAssumption, ExecutorAssumption
  <2>2. 0 \in Int /\ Lanes - 1 \in Int /\ ~(0 > Lanes - 1) /\ Lanes - 1 - 0 + 1 = Lanes
    BY <2>1
  <2> QED BY <2>1, <2>2, FS_Interval DEF Lane
<1>7. Cardinality(S) \in Nat /\ Cardinality({seq[q].lane : q \in S}) <= Cardinality(S)
  BY LanesCountStates
<1>8. Cardinality(S) <= Cardinality(active) - 1
  BY <1>3, <1>4, FS_Subset
<1> HIDE DEF S
<1> QED BY <1>1, <1>5, <1>6, <1>7, <1>8

(* When all draft slots are held, a request that lost its state holds one. *)
LEMMA SlotsRunOut ==
  ASSUME LInv, NEW r \in Request, seq[r].stage = "bound"
  PROVE  Cardinality(SlotsHeld) < Lanes \/ \E q \in SlotsHeld : seq[q].stage = "spent"
<1> SUFFICES ASSUME \A q \in SlotsHeld : seq[q].stage # "spent"
             PROVE  Cardinality(SlotsHeld) < Lanes
  OBVIOUS
<1>1. \A q \in SlotsHeld : q \in Request /\ Resident(q)
  BY DEF SlotsHeld, LInv, EInv, OwnInv, Sound, NoSlot, Resident
<1>2. r \notin SlotsHeld /\ Resident(r)
  BY DEF SlotsHeld, LInv, EInv, OwnInv, Sound, NoSlot, Resident
<1> DEFINE S == SlotsHeld \cup {r}
<1>3. S \in SUBSET Request /\ \A q \in S : Resident(q)
  BY <1>1, <1>2
<1>4. Cardinality(S) <= Lanes /\ IsFiniteSet(S)
  BY <1>3, LanesCountStates
<1>5. IsFiniteSet(SlotsHeld) /\ Cardinality(SlotsHeld) \in Nat
  BY <1>4, FS_Subset, FS_CardinalityType
<1>6. Cardinality(S) = Cardinality(SlotsHeld) + 1
  BY <1>2, <1>5, FS_AddElement
<1> QED BY <1>4, <1>5, <1>6, RadixAssumption, ExecutorAssumption
        DEF RadixAssumption, ExecutorAssumption

(* The lanes stay apart, in both cache modes. *)
THEOREM LanesStayApart == ExecSpec => []LInv
<1>1. ExecInit => LInv
  <2> SUFFICES ASSUME ExecInit PROVE LInv
    OBVIOUS
  <2>1. \A r \in Request : ~Resident(r)
    BY DEF ExecInit, Resident, Idle
  <2>2. Cardinality(active) = 0 /\ Lanes \in Nat
    BY FS_EmptySet, RadixAssumption, ExecutorAssumption
    DEF ExecInit, Init, RadixAssumption, ExecutorAssumption
  <2> QED BY <2>1, <2>2, ExecInitInv DEF LInv, LanesApart
<1>2. LInv /\ [ExecNext]_execVars => LInv'
  BY LInvStep
<1> QED BY <1>1, <1>2, PTL DEF ExecSpec

(* A lane or a draft slot runs out only for the reason given. *)
THEOREM ShortagesHaveCauses == ExecSpec => []ShortageHasACause
<1>1. LInv => ShortageHasACause
  <2> SUFFICES ASSUME LInv PROVE ShortageHasACause
    OBVIOUS
  <2>1. Occupied \cap recycled = {}
    BY DEF LInv, LanesApart, Occupied
  <2>2. \A q, r \in Request : Resident(q) /\ Resident(r) /\ q # r => seq[q].lane # seq[r].lane
    BY DEF LInv, LanesApart
  <2>3. \A r \in active : seq[r].stage \in {"probed", "reserved"} =>
          recycled \cup FreeLanes # {} \/ \E q \in Plain : Resident(q)
    BY LanesRunOut
  <2>4. \A r \in Request : seq[r].stage = "bound" =>
          Cardinality(SlotsHeld) < Lanes \/ \E q \in SlotsHeld : seq[q].stage = "spent"
    BY SlotsRunOut
  <2> QED BY <2>1, <2>2, <2>3, <2>4 DEF ShortageHasACause
<1> QED BY <1>1, LanesStayApart, PTL

-----------------------------------------------------------------------------
(***************************************************************************)
(* Where a finished sequence ends in the prefix cache, for every instance   *)
(* in the prompt-swa cache mode: not before the prefix it was given, within *)
(* the pages it has, and at most one pass before what was processed.       *)
(***************************************************************************)

Passing == {"primed", "ready", "failed"}

(* Draft rows never end before the match nor more than one pass behind the  *)
(* target model, and while passes remain they end where it does.  After a   *)
(* pass that failed behind its replay they end further than it.            *)
Follows(r) ==
  seq[r].stage \in Passing =>
    /\ ~seq[r].drafting => draft[r].rows = <<>>
    /\ draft[r].rows # <<>> \/ (seq[r].stage = "ready" /\ seq[r].drafting) =>
         /\ Len(matched[r]) <= draft[r].context
         /\ Len(seq[r].done) <= draft[r].context + MaxDrafts + 1
    /\ seq[r].stage = "ready" /\ seq[r].drafting /\ Generated(r) < seq[r].budget =>
         draft[r].context = Len(seq[r].done)

AllFollow == \A r \in Request : Follows(r)

FInv == EInv /\ AllFollow

-----------------------------------------------------------------------------
(* A step of one request leaves the others alone.                          *)
Alone(r) ==
  \A q \in Request \ {r} :
    seq'[q] = seq[q] /\ draft'[q] = draft[q] /\ matched'[q] = matched[q]

(* A request left alone still has a draft model that follows it. *)
LEMMA FollowsKept ==
  ASSUME NEW q, Follows(q), seq'[q] = seq[q], draft'[q] = draft[q], matched'[q] = matched[q]
  PROVE  Follows(q)'
BY DEF Follows, Generated

(* What is known of the state's functions. *)
LEMMA StateFunctions ==
  ASSUME EInv
  PROVE  /\ seq \in [Request -> Sequence] /\ draft \in [Request -> DraftCache]
         /\ matched \in [Request -> Seq(Token)]
BY DEF EInv, OwnInv, ExecTypeOK, IInv, TypeOK

(* The steps after which the request is in no pass.                        *)
LEMMA OutOfPass ==
  ASSUME EInv, NEW r \in Request,
         \/ \E ids \in Texts, budget \in Budgets, drafting \in BOOLEAN :
              \/ \E m \in Prefixes(Front(ids)) : Probe(r, ids, budget, drafting, m)
              \/ TakeLanePlain(r, ids, budget, drafting)
         \/ \E m \in Prefixes(seq[r].done) : Realign(r, m) \/ RealignRefused(r, m)
         \/ DropMatch(r) \/ TakeLane(r) \/ NoLane(r) \/ NoDraftSlot(r) \/ PassBreaks(r)
         \/ \E m \in Prefixes(PublishedText(r)) : Finish(r, m)
  PROVE  Alone(r) /\ seq'[r].stage \notin Passing /\ Follows(r)'
<1>1. /\ seq \in [Request -> Sequence] /\ draft \in [Request -> DraftCache]
      /\ matched \in [Request -> Seq(Token)]
  BY StateFunctions
<1>2. ASSUME NEW ids \in Texts, NEW budget \in Budgets, NEW drafting \in BOOLEAN,
             \/ \E m \in Prefixes(Front(ids)) : Probe(r, ids, budget, drafting, m)
             \/ TakeLanePlain(r, ids, budget, drafting)
      PROVE  Alone(r) /\ seq'[r].stage \notin Passing
  <2>1. /\ draft' = draft
        /\ matched' = matched \/ \E m : matched' = [matched EXCEPT ![r] = m]
        /\ \E s : seq' = [seq EXCEPT ![r] = s] /\ s.stage \in {"probed", "bound"}
    <3>1. ASSUME NEW m \in Prefixes(Front(ids)), Probe(r, ids, budget, drafting, m)
          PROVE  /\ draft' = draft /\ matched' = [matched EXCEPT ![r] = m]
                 /\ seq' = [seq EXCEPT ![r] = Opened(ids, budget, drafting)]
      BY <3>1 DEF Probe, Reserve
    <3>2. ASSUME TakeLanePlain(r, ids, budget, drafting)
          PROVE  /\ draft' = draft /\ matched' = matched
                 /\ seq' = [seq EXCEPT ![r] = [Opened(ids, budget, drafting) EXCEPT
                                                 !.stage = "bound", !.lane = NextLane]]
      BY <3>2 DEF TakeLanePlain, vars
    <3>3. /\ Opened(ids, budget, drafting).stage = "probed"
          /\ [Opened(ids, budget, drafting) EXCEPT !.stage = "bound", !.lane = NextLane].stage
               = "bound"
      BY DEF Opened, Idle
    <3> QED BY <1>2, <3>1, <3>2, <3>3
  <2>2. Alone(r)
    BY <1>1, <2>1 DEF Alone
  <2>3. seq'[r].stage \in {"probed", "bound"}
    BY <1>1, <2>1
  <2> QED BY <2>2, <2>3 DEF Passing
<1>3. ASSUME NEW m \in Prefixes(seq[r].done), Realign(r, m) \/ RealignRefused(r, m)
      PROVE  Alone(r) /\ seq'[r].stage \notin Passing
  <2>1. CASE Realign(r, m)
    BY <1>1, <2>1 DEF Realign, Reserve, Alone, Passing, Sequence
  <2>2. CASE RealignRefused(r, m)
    BY <1>1, <2>2 DEF RealignRefused, ReserveRefused, Alone, Passing, Close, Idle
  <2> QED BY <1>3, <2>1, <2>2
<1>4. CASE DropMatch(r) \/ TakeLane(r)
  <2>1. /\ draft' = draft
        /\ matched' = matched \/ matched' = [matched EXCEPT ![r] = <<>>]
    BY <1>4 DEF DropMatch, Cancel, Release, TakeLane, EnsureMaterialized
  <2>2. \/ seq' = [seq EXCEPT ![r].stage = "realign", ![r].done = Aligned(matched[r])]
        \/ seq' = [seq EXCEPT ![r].stage = "bound", ![r].lane = NextLane, ![r].done = matched[r]]
    BY <1>4 DEF DropMatch, TakeLane
  <2>3. Alone(r)
    BY <1>1, <2>1, <2>2 DEF Alone
  <2>4. seq'[r].stage \in {"realign", "bound"}
    <3>1. seq[r] \in Sequence
      BY <1>1
    <3>2. CASE seq' = [seq EXCEPT ![r].stage = "realign", ![r].done = Aligned(matched[r])]
      BY <1>1, <3>1, <3>2 DEF Sequence
    <3>3. CASE seq' = [seq EXCEPT ![r].stage = "bound", ![r].lane = NextLane, ![r].done = matched[r]]
      BY <1>1, <3>1, <3>3 DEF Sequence
    <3> QED BY <2>2, <3>2, <3>3
  <2> QED BY <2>3, <2>4 DEF Follows, Passing
<1>5. CASE NoLane(r) \/ NoDraftSlot(r) \/ PassBreaks(r)
  <2>1. matched' = matched \/ matched' = [matched EXCEPT ![r] = <<>>]
    BY <1>5 DEF NoLane, NoDraftSlot, PassBreaks, LoseState, Cancel, Release, vars
  <2>2. /\ draft' = draft \/ \E d : draft' = [draft EXCEPT ![r] = d]
        /\ \/ seq' = [seq EXCEPT ![r] = Idle]
           \/ seq' = [seq EXCEPT ![r].stage = "spent"]
    BY <1>5 DEF NoLane, NoDraftSlot, PassBreaks, Close
  <2>3. Alone(r)
    BY <1>1, <2>1, <2>2 DEF Alone
  <2>4. seq'[r].stage \notin Passing
    BY <1>1, <2>2 DEF Passing, Idle, Sequence
  <2> QED BY <2>3, <2>4 DEF Follows
<1>6. ASSUME NEW m \in Prefixes(PublishedText(r)), Finish(r, m)
      PROVE  Alone(r) /\ seq'[r].stage \notin Passing
  <2>1. matched' = matched \/ matched' = [matched EXCEPT ![r] = <<>>]
    BY <1>6 DEF Finish, Commit, Cancel, Release, vars
  <2>2. draft' = [draft EXCEPT ![r] = NoSlot] /\ seq' = [seq EXCEPT ![r] = Idle]
    BY <1>6 DEF Finish, Close
  <2> QED BY <1>1, <2>1, <2>2 DEF Alone, Passing, Idle
<1> QED BY <1>2, <1>3, <1>4, <1>5, <1>6 DEF Follows

(* The slot is prepared: the rows restored end where the match does.       *)
LEMMA PrepareFollows ==
  ASSUME EInv, NEW r \in Request, Prepare(r)
  PROVE  Alone(r) /\ Follows(r)'
<1>1. /\ seq \in [Request -> Sequence] /\ draft \in [Request -> DraftCache]
  BY StateFunctions
<1>2. PICK d \in DraftCache :
        /\ draft' = [draft EXCEPT ![r] = d] \/ (draft' = draft /\ d = draft[r])
        /\ d.rows = <<>> \/ d.context = Len(matched[r])
        /\ ~seq[r].drafting => d.rows = <<>>
  BY PreparedDraft
<1>3. /\ seq' = [seq EXCEPT ![r].stage = "primed"] /\ matched' = matched
      /\ seq[r].stage = "bound" /\ seq[r].done = matched[r]
  BY DEF Prepare, vars, EInv, OwnInv, Sound
<1>4. /\ seq'[r].stage = "primed" /\ seq'[r].done = matched[r]
      /\ seq'[r].drafting = seq[r].drafting /\ draft'[r] = d /\ matched'[r] = matched[r]
  BY <1>1, <1>2, <1>3 DEF Sequence
<1>5. Alone(r)
  BY <1>1, <1>2, <1>3 DEF Alone
<1>6. /\ Len(matched[r]) <= Len(matched[r])
      /\ Len(matched[r]) <= Len(matched[r]) + MaxDrafts + 1
  BY RequestTypes, ExecutorAssumption DEF ExecutorAssumption
<1> QED BY <1>2, <1>4, <1>5, <1>6 DEF Follows

(* A failed pass leaves the draft cache as it was or ahead of the target.  *)
LEMMA DraftAheadOrKept ==
  ASSUME FInv, NEW r \in Request, InPass(r), NEW d \in DraftsLeft(r)
  PROVE  \/ d = draft[r]
         \/ /\ seq[r].drafting /\ d.context \in Nat
            /\ Len(seq[r].done) < d.context /\ Len(matched[r]) <= d.context
<1>1. EInv /\ Follows(r) /\ seq[r].stage \in {"primed", "ready"}
  BY DEF FInv, AllFollow, InPass
<1>2. CASE seq[r].stage = "primed" /\ d = FirstReplayed(r) /\ d # draft[r]
  <2>1. seq[r].drafting /\ PromptTails
    BY <1>2 DEF FirstReplayed
  <2>2. d.context = Len(seq[r].prompt) /\ Len(matched[r]) < Len(seq[r].prompt)
    BY <1>1, <1>2, <2>1, FirstReplayedType, FirstRowsType
  <2>3. seq[r].done = matched[r]
    BY <1>1, <1>2 DEF EInv, OwnInv, Sound
  <2>4. Len(matched[r]) \in Nat /\ Len(seq[r].prompt) \in Nat
    BY <1>1, RequestTypes
  <2> QED BY <2>1, <2>2, <2>3, <2>4
<1>3. ASSUME NEW ids \in Texts, seq[r].stage = "ready", Continues(r, ids),
             d = NextReplayed(r, ids), d # draft[r]
      PROVE  /\ seq[r].drafting /\ d.context \in Nat
             /\ Len(seq[r].done) < d.context /\ Len(matched[r]) <= d.context
  <2> DEFINE rows == RowsOf(ids, Len(seq[r].done), Len(Front(ids)))
  <2>1. d = Replayed(draft[r], draft[r].context, rows) /\ Drafting(r)
    BY <1>1, <1>3, NextReplayedType
  <2>2. PICK n \in 1..Window : rows \in Seq(Texts) /\ Len(rows) = n
    BY <1>1, <1>3, NextPassFacts
  <2> HIDE DEF rows
  <2>3. n \in Nat /\ n >= 1 /\ n <= Window
    BY ExecutorAssumption DEF ExecutorAssumption
  <2>4. /\ draft[r] \in DraftCache /\ draft[r].context \in Nat /\ Len(seq[r].done) \in Nat
        /\ Len(matched[r]) \in Nat
    BY <1>1, RequestTypes DEF EInv, OwnInv, ExecTypeOK
  <2>5. d.context = draft[r].context + n
    BY <2>1, <2>2, <2>3, <2>4, ReplayedType
  <2>6. seq[r].drafting /\ Generated(r) < seq[r].budget
    BY <1>3, <2>1 DEF Drafting, InPass
  <2>7. draft[r].context = Len(seq[r].done) /\ Len(matched[r]) <= draft[r].context
    BY <1>1, <1>3, <2>6 DEF Follows, Passing
  <2> QED BY <2>3, <2>4, <2>5, <2>6, <2>7
<1> QED BY <1>1, <1>2, <1>3 DEF DraftsLeft

(* A pass that fails leaves the target where it was, the draft not behind. *)
LEMMA PassFailsFollows ==
  ASSUME FInv, NEW r \in Request, PassFails(r)
  PROVE  Alone(r) /\ Follows(r)'
<1>1. /\ seq \in [Request -> Sequence] /\ draft \in [Request -> DraftCache] /\ Follows(r)
      /\ EInv
  BY StateFunctions DEF FInv, AllFollow
<1>2. /\ seq' = [seq EXCEPT ![r].stage = "failed"] /\ matched' = matched
      /\ seq[r].stage \in Passing /\ InPass(r)
  BY DEF PassFails, vars, InPass, Passing
<1>3. PICK d \in DraftsLeft(r) : draft' = [draft EXCEPT ![r] = d]
  BY DEF PassFails
<1>4. /\ seq'[r].stage = "failed" /\ seq'[r].done = seq[r].done
      /\ seq'[r].drafting = seq[r].drafting
      /\ draft'[r] = d /\ matched'[r] = matched[r]
  BY <1>1, <1>2, <1>3 DEF Sequence
<1>5. Alone(r)
  BY <1>1, <1>2, <1>3 DEF Alone
<1>6. CASE d = draft[r]
  BY <1>1, <1>2, <1>4, <1>5, <1>6 DEF Follows
<1>7. CASE /\ seq[r].drafting /\ d.context \in Nat
           /\ Len(seq[r].done) < d.context /\ Len(matched[r]) <= d.context
  <2>1. Len(seq[r].done) <= d.context + MaxDrafts + 1
    BY <1>1, <1>7, RequestTypes, ExecutorAssumption DEF ExecutorAssumption
  <2> QED BY <1>4, <1>5, <1>7, <2>1 DEF Follows
<1> QED BY <1>2, <1>6, <1>7, DraftAheadOrKept

(* The first pass of a drafted request replays up to the end of its prompt. *)
LEMMA FirstPassFollows ==
  ASSUME FInv, PromptTails, NEW r \in Request, NEW t \in Token, FirstPass(r, t)
  PROVE  Alone(r) /\ Follows(r)'
<1> DEFINE a == [seq[r] EXCEPT !.text = Append(@, t), !.done = seq[r].prompt]
           s == Settled(r, a)
<1>1. /\ seq \in [Request -> Sequence] /\ draft \in [Request -> DraftCache] /\ Follows(r)
      /\ EInv
  BY StateFunctions DEF FInv, AllFollow
<1>2. /\ seq[r].stage = "primed" /\ seq' = [seq EXCEPT ![r] = s] /\ matched' = matched
      /\ draft' = [draft EXCEPT ![r] = FirstReplayed(r)]
  BY DEF FirstPass, vars
<1>3. s.done = seq[r].prompt /\ s.drafting = seq[r].drafting /\ s.stage \in {"ready", "spent"}
  <2>1. seq[r] \in Sequence
    BY <1>1
  <2>2. a.done = seq[r].prompt /\ a.drafting = seq[r].drafting
    BY <2>1 DEF Sequence
  <2> QED BY <2>1, <2>2 DEF Settled, Sequence
<1> HIDE DEF s
<1>4. /\ seq'[r] = s /\ draft'[r] = FirstReplayed(r) /\ matched'[r] = matched[r]
  BY <1>1, <1>2
<1>5. Alone(r)
  BY <1>1, <1>2 DEF Alone
<1>6. CASE seq[r].drafting
  <2>1. FirstReplayed(r).context = Len(seq[r].prompt) /\ Len(matched[r]) < Len(seq[r].prompt)
    BY <1>1, <1>2, <1>6, FirstReplayedType, FirstRowsType
  <2>2. /\ Len(matched[r]) <= Len(seq[r].prompt)
        /\ Len(seq[r].prompt) <= Len(seq[r].prompt) + MaxDrafts + 1
    BY <1>1, <2>1, RequestTypes, ExecutorAssumption DEF ExecutorAssumption
  <2> QED BY <1>3, <1>4, <1>5, <1>6, <2>1, <2>2 DEF Follows
<1>7. CASE ~seq[r].drafting
  <2>1. FirstReplayed(r) = draft[r] /\ draft[r].rows = <<>>
    BY <1>1, <1>2, <1>7 DEF FirstReplayed, Follows, Passing
  <2> QED BY <1>3, <1>4, <1>5, <1>7, <2>1 DEF Follows
<1> QED BY <1>6, <1>7

(* A pass of n tokens from a covered ledger leaves it at most one draft      *)
(* further than the draft cache.                                             *)
LEMMA PassSlack ==
  ASSUME NEW ld \in Nat, NEW lf \in Nat, NEW n \in Nat, NEW m \in Nat,
         NEW c \in Nat, lf = ld + n, c = ld, n <= 1 + m
  PROVE  lf <= c + m + 1
OBVIOUS

(* A later pass replays what it processed, unless it was the last.          *)
LEMMA NextPassFollows ==
  ASSUME FInv, PromptTails, NEW r \in Request, NEW ids \in Texts, NextPass(r, ids)
  PROVE  Alone(r) /\ Follows(r)'
<1> DEFINE a == [seq[r] EXCEPT !.text = ids, !.done = Front(ids)]
           s == Settled(r, a)
<1>1. /\ seq \in [Request -> Sequence] /\ draft \in [Request -> DraftCache] /\ Follows(r)
      /\ EInv
  BY StateFunctions DEF FInv, AllFollow
<1>2. /\ seq[r].stage = "ready" /\ seq' = [seq EXCEPT ![r] = s] /\ matched' = matched
  BY DEF NextPass, vars
<1>3. /\ s.done = Front(ids) /\ s.drafting = seq[r].drafting /\ s.stage \in {"ready", "spent"}
      /\ s.text = ids /\ s.prompt = seq[r].prompt /\ s.budget = seq[r].budget
  <2>1. seq[r] \in Sequence
    BY <1>1
  <2>2. /\ a.done = Front(ids) /\ a.drafting = seq[r].drafting /\ a.text = ids
        /\ a.prompt = seq[r].prompt /\ a.budget = seq[r].budget
    BY <2>1 DEF Sequence
  <2> QED BY <2>1, <2>2 DEF Settled, Sequence
<1> HIDE DEF s
<1> DEFINE rows == RowsOf(ids, Len(seq[r].done), Len(Front(ids)))
<1>4. PICK d \in DraftCache :
        /\ draft' = [draft EXCEPT ![r] = d]
        /\ \/ d = draft[r] /\ ~(Drafting(r) /\ Len(ids) - Len(seq[r].prompt) < seq[r].budget)
           \/ d = Replayed(draft[r], draft[r].context, rows) /\ Drafting(r)
  BY <1>1, NextPassDraft
<1>5. /\ seq'[r] = s /\ draft'[r] = d /\ matched'[r] = matched[r]
  BY <1>1, <1>2, <1>4
<1>6. Alone(r)
  BY <1>1, <1>2, <1>4 DEF Alone
<1>7. PICK n \in 1..Window :
        /\ Len(Front(ids)) = Len(seq[r].done) + n /\ n <= 1 + MaxDrafts
        /\ Generated(r) \in Nat /\ Generated(r) + n <= seq[r].budget
        /\ Generated(r) + n = Len(ids) - Len(seq[r].prompt)
        /\ rows \in Seq(Texts) /\ Len(rows) = n
  BY <1>1, NextPassFacts DEF NextPass
<1> HIDE DEF rows
<1>8. /\ n \in Nat /\ n >= 1 /\ n <= Window /\ MaxDrafts \in Nat /\ n <= 1 + MaxDrafts
  BY <1>7, ExecutorAssumption DEF ExecutorAssumption
<1>9. PICK ld \in Nat, lf \in Nat, lm \in Nat, bu \in Nat, g \in Nat, c \in Nat :
        /\ ld = Len(seq[r].done) /\ lf = Len(Front(ids)) /\ lm = Len(matched[r])
        /\ bu = seq[r].budget /\ g = Generated(r) /\ c = draft[r].context
        /\ lf = ld + n
  <2>1. /\ Len(seq[r].done) \in Nat /\ Len(matched[r]) \in Nat /\ seq[r].budget \in Nat
        /\ draft[r].context \in Nat
    BY <1>1, RequestTypes
  <2>2. Len(Front(ids)) \in Nat
    BY <1>7, <1>8, <2>1
  <2> QED BY <1>7, <2>1, <2>2
<1>10. g + n <= bu /\ g < bu /\ Generated(r)' = g + n
  <2>1. g + n <= bu /\ g + n = Len(ids) - Len(seq[r].prompt)
    BY <1>7, <1>9
  <2>2. Generated(r)' = g + n
    BY <1>3, <1>5, <2>1 DEF Generated
  <2> QED BY <1>8, <1>9, <2>1, <2>2
<1>11. CASE ~seq[r].drafting
  <2>1. d = draft[r] /\ draft[r].rows = <<>>
    BY <1>1, <1>2, <1>4, <1>11 DEF Drafting, Follows, Passing
  <2> QED BY <1>3, <1>5, <1>6, <1>11, <2>1 DEF Follows
<1>12. CASE seq[r].drafting
  <2>1. c = ld /\ lm <= c
    BY <1>1, <1>2, <1>9, <1>10, <1>12 DEF Follows, Passing
  <2>2. CASE d = draft[r] /\ ~(Drafting(r) /\ g + n < bu)
    <3>1. lm <= c /\ lf <= c + MaxDrafts + 1
      <4>1. lf = ld + n /\ n \in Nat /\ MaxDrafts \in Nat /\ n <= 1 + MaxDrafts
        BY <1>8, <1>9
      <4> QED BY <4>1, <2>1, PassSlack
    <3>2. g + n = bu
      <4>1. bu - g <= 1 \/ ~(g + n < bu)
        BY <1>9, <1>12, <2>2 DEF Drafting
      <4>2. g \in Nat /\ bu \in Nat /\ n \in Nat /\ n >= 1 /\ g + n <= bu
        BY <1>8, <1>9, <1>10
      <4> QED BY <4>1, <4>2
    <3>3. /\ Len(matched'[r]) <= draft'[r].context
          /\ Len(seq'[r].done) <= draft'[r].context + MaxDrafts + 1
          /\ ~(Generated(r)' < seq'[r].budget)
      <4>1. ~(bu < bu) /\ Generated(r)' = bu /\ seq'[r].budget = bu
        BY <1>3, <1>5, <1>9, <1>10, <3>2
      <4> QED BY <1>3, <1>5, <1>9, <2>2, <3>1, <4>1
    <3> QED BY <1>3, <1>5, <1>6, <1>12, <3>3 DEF Follows
  <2>3. CASE d = Replayed(draft[r], draft[r].context, rows)
    <3>1. d.context = draft[r].context + Len(rows)
      <4>1. draft[r] \in DraftCache /\ draft[r].context \in Nat /\ Len(rows) <= Window
        BY <1>1, <1>7, <1>8, <1>9
      <4> QED BY <1>7, <2>3, <4>1, ReplayedType
    <3>2. d.context = lf
      BY <1>7, <1>9, <2>1, <3>1
    <3>3. lm <= lf /\ lf <= lf + MaxDrafts + 1
      BY <1>8, <1>9, <2>1
    <3>4. /\ Len(matched'[r]) <= draft'[r].context
          /\ Len(seq'[r].done) <= draft'[r].context + MaxDrafts + 1
          /\ draft'[r].context = Len(seq'[r].done)
      BY <1>3, <1>5, <1>9, <3>2, <3>3
    <3> QED BY <1>3, <1>5, <1>6, <1>12, <3>4 DEF Follows
  <2>4. g + n = Len(ids) - Len(seq[r].prompt) /\ bu = seq[r].budget
    BY <1>7, <1>9
  <2> QED BY <1>4, <2>2, <2>3, <2>4
<1> QED BY <1>11, <1>12

(* Steps of the cache under a request. *)
LEMMA CacheFollows ==
  ASSUME FInv, UNCHANGED <<seq, draft, matched>>
  PROVE  AllFollow'
BY FollowsKept DEF FInv, AllFollow

(* In the prompt-swa mode every step keeps it. *)
LEMMA FInvStep == PromptTails /\ FInv /\ [ExecNext]_execVars => FInv'
<1> SUFFICES ASSUME PromptTails, FInv, [ExecNext]_execVars PROVE AllFollow'
  BY EInvStep DEF FInv
<1>1. EInv
  BY DEF FInv
<1>2. ASSUME NEW r \in Request, Alone(r) /\ Follows(r)' PROVE AllFollow'
  BY <1>2, FollowsKept DEF FInv, Alone, AllFollow
<1>3. ASSUME NEW r \in Request, Opens(r) \/ GoesOn(r) \/ Ends(r) PROVE AllFollow'
  BY <1>1, <1>2, <1>3, OutOfPass, PrepareFollows DEF Opens, GoesOn, Ends
<1>4. ASSUME NEW r \in Request, Passes(r) PROVE AllFollow'
  BY <1>1, <1>2, <1>4, OutOfPass, PassFailsFollows, FirstPassFollows, NextPassFollows DEF Passes
<1>5. CASE Quiet
  <2>1. UNCHANGED <<seq, draft, matched>>
    BY <1>5 DEF Quiet, CopyBoundary, Extend, ProbeRefused, TakeBoundaryCopy, EnsureMaterialized,
                ReserveRefused, TakePage, EvictOneLeaf, execVars, vars, own
  <2> QED BY <2>1, CacheFollows
<1> QED BY <1>3, <1>4, <1>5, ExecCases

(* The draft model follows the target model, in the prompt-swa mode: never *)
(* behind the match nor more than a pass, exactly at the target while       *)
(* passes remain, and ahead only after a pass that failed behind its        *)
(* replay.                                                                 *)
THEOREM DraftFollows == PromptTails /\ ExecSpec => []FInv
<1>1. ExecInit => FInv
  BY ExecInitInv DEF FInv, AllFollow, Follows, ExecInit, Idle, Passing
<1>2. PromptTails /\ FInv /\ [ExecNext]_execVars => FInv'
  BY FInvStep
<1>3. CASE PromptTails
  BY <1>1, <1>2, <1>3, PTL DEF ExecSpec
<1> QED BY <1>3

-----------------------------------------------------------------------------
(* What follows for the end of a request *)

(* Where a request in or after a pass would be published.                  *)
LEMMA FrontierFacts ==
  ASSUME FInv, NEW r \in active, seq[r].stage \in {"ready", "failed"}
  PROVE  /\ matched[r] \sqsubseteq PublishedText(r) /\ PublishedText(r) \sqsubseteq seq[r].text
         /\ Len(PublishedText(r)) \in Nat
         /\ Len(seq[r].done) <= Len(PublishedText(r)) + MaxDrafts + 1
<1>1. r \in Request /\ EInv
  BY DEF FInv, EInv, IInv, TypeOK
<1>2. matched[r] \sqsubseteq seq[r].done /\ seq[r].done \sqsubseteq seq[r].text
  BY <1>1 DEF EInv, OwnInv, Sound, Backed
<1>3. /\ matched[r] \in Seq(Token) /\ seq[r].done \in Seq(Token) /\ seq[r].text \in Seq(Token)
      /\ Len(seq[r].done) \in Nat /\ draft[r].context \in Nat /\ Len(matched[r]) \in Nat
      /\ seq[r].done \in Texts
  BY <1>1, RequestTypes, TextsType
<1>4. CASE Retains(r)
  <2>1. /\ Len(matched[r]) <= draft[r].context
        /\ Len(seq[r].done) <= draft[r].context + MaxDrafts + 1
    BY <1>1, <1>4 DEF FInv, AllFollow, Follows, Passing, Retains
  <2>2. PublishedText(r) = SubSeq(seq[r].done, 1, draft[r].context)
    BY <1>4 DEF PublishedText, LastTail
  <2>3. /\ PublishedText(r) \in Seq(Token) /\ Len(PublishedText(r)) = draft[r].context
        /\ PublishedText(r) \sqsubseteq seq[r].done
    <3>1. draft[r].context \in 0..Len(seq[r].done)
      BY <1>3, <1>4 DEF Retains
    <3> QED BY <1>3, <2>2, <3>1, SubSeqPrefix
  <2>4. matched[r] \sqsubseteq PublishedText(r)
    BY <1>2, <1>3, <2>1, <2>3, PrefixesComparable
  <2>5. PublishedText(r) \sqsubseteq seq[r].text
    BY <1>2, <1>3, <2>3, PrefixTransitive
  <2> QED BY <1>3, <2>1, <2>3, <2>4, <2>5
<1>5. CASE ~Retains(r)
  <2>1. PublishedText(r) = seq[r].done
    BY <1>5 DEF PublishedText
  <2>2. Len(seq[r].done) <= Len(seq[r].done) + MaxDrafts + 1
    BY <1>3, ExecutorAssumption DEF ExecutorAssumption
  <2> QED BY <1>2, <1>3, <2>1, <2>2
<1> QED BY <1>4, <1>5

(* A finished request that still has its state can always be published:    *)
(* neither the check against the matched prefix, nor the one against the   *)
(* capacity, nor the one against the pages it has can fail.                *)
THEOREM PublishingSucceeds == PromptTails /\ ExecSpec => []PublishNeverFails
<1>1. FInv => PublishNeverFails
  <2> SUFFICES ASSUME FInv, NEW r \in active, seq[r].stage \in {"ready", "failed"}
               PROVE  /\ matched[r] \sqsubseteq PublishedText(r)
                      /\ PublishedText(r) \sqsubseteq seq[r].text
                      /\ Len(seq[r].done) <= capacity[r]
                      /\ PagesFor(Len(seq[r].done)) <= Len(PageTable(r))
    BY DEF PublishNeverFails
  <2>1. r \in Request /\ EInv
    BY DEF FInv, EInv, IInv, TypeOK
  <2>2. /\ seq[r].done \sqsubseteq seq[r].text /\ Generated(r) <= seq[r].budget
        /\ Len(seq[r].prompt) + seq[r].budget <= capacity[r]
        /\ PagesFor(Len(seq[r].done)) <= Len(PageTable(r))
    BY <2>1 DEF EInv, OwnInv, Sound, Backed
  <2>3. PICK ld \in Nat, lt \in Nat, lp \in Nat, bu \in Nat, c \in Nat :
          /\ ld = Len(seq[r].done) /\ lt = Len(seq[r].text) /\ lp = Len(seq[r].prompt)
          /\ bu = seq[r].budget /\ c = capacity[r]
    BY <2>1, RequestTypes
  <2>4. ld <= lt /\ lt - lp <= bu /\ lp + bu <= c
    BY <2>2, <2>3 DEF Generated, \sqsubseteq
  <2>5. ld <= c
    <3>1. ld \in Nat /\ lt \in Nat /\ lp \in Nat /\ bu \in Nat /\ c \in Nat
      BY <2>3
    <3> QED BY <3>1, <2>4
  <2> QED BY <2>2, <2>3, <2>5, FrontierFacts
<1> QED BY <1>1, DraftFollows, PTL

(* What is published ends at most one pass before what was processed.      *)
THEOREM PublishedIsNear == PromptTails /\ ExecSpec => []PublishedFrontierIsNear
<1>1. FInv => PublishedFrontierIsNear
  <2> SUFFICES ASSUME FInv, NEW r \in active, seq[r].stage \in {"ready", "failed"}
               PROVE  Len(seq[r].done) - Len(PublishedText(r)) <= MaxDrafts + 1
    BY DEF PublishedFrontierIsNear
  <2>1. r \in Request /\ EInv
    BY DEF FInv, EInv, IInv, TypeOK
  <2>2. PICK ld \in Nat, lq \in Nat :
          /\ ld = Len(seq[r].done) /\ lq = Len(PublishedText(r)) /\ ld <= lq + MaxDrafts + 1
    BY <2>1, RequestTypes, FrontierFacts
  <2>3. ld - lq <= MaxDrafts + 1
    BY <2>2, ExecutorAssumption DEF ExecutorAssumption
  <2> QED BY <2>2, <2>3
<1> QED BY <1>1, DraftFollows, PTL

-----------------------------------------------------------------------------
(***************************************************************************)
(* Alignment: a match that was shortened to a cached tail is reserved       *)
(* again as it stands, and its tail is still there when the draft slot is   *)
(* prepared, in both cache modes.                                          *)
(***************************************************************************)

(* Between the two reservations nothing runs that could take the prefix     *)
(* away, and the tail that the request relies on stays.                    *)
AlignedOK(r) ==
  /\ seq[r].stage = "realign" =>
       /\ busy = None /\ seq[r].done \in TailKeys \cup {<<>>}
       /\ seq[r].done # <<>> => Below(tree, seq[r].done) # {}
  /\ PromptTails /\ seq[r].drafting /\ seq[r].stage \in {"reserved", "bound"} =>
       matched[r] \in TailKeys \cup {<<>>}

AInv == EInv /\ \A r \in Request : AlignedOK(r)

(* While a request is being opened no other takes a step.                  *)
LEMMA OpeningIsAlone ==
  ASSUME EInv, NEW q \in Request, NEW r \in Request \ {q}, turn = r
  PROVE  ~(Opens(q) \/ GoesOn(q) \/ Passes(q) \/ Ends(q))
<1>1. turn # None /\ turn # q
  BY RadixAssumption DEF RadixAssumption
<1>2. ~Opens(q)
  BY <1>1 DEF Opens, Probe, TakeLanePlain
<1>3. ~GoesOn(q)
  BY <1>1 DEF GoesOn, Realign, RealignRefused, DropMatch, TakeLane, NoLane, Prepare, NoDraftSlot
<1>4. ~Passes(q)
  BY <1>1 DEF Passes, FirstPass, NextPass, PassFails, PassBreaks, InPass
<1>5. ~Ends(q)
  BY <1>1 DEF Ends, Finish
<1> QED BY <1>2, <1>3, <1>4, <1>5

(* A cached prefix is matched in full.                                     *)
LEMMA CachedIsMatched ==
  ASSUME EInv, NEW ids \in Seq(Token), ids # <<>> => Below(tree, ids) # {},
         NEW m \in Prefixes(ids), IsMatch(tree, ids, m)
  PROVE  m = ids
<1>1. /\ m \in Seq(Token) /\ Len(m) \in 0..Len(ids) /\ Len(ids) \in Nat /\ m \sqsubseteq ids
  <2>1. PICK k \in 0..Len(ids) : m = SubSeq(ids, 1, k)
    BY DEF Prefixes
  <2> QED BY <2>1, SubSeqPrefix
<1>2. CASE Len(m) = Len(ids)
  <2>1. \A i \in 1..Len(ids) : m[i] = ids[i]
    BY <1>1, <1>2 DEF \sqsubseteq
  <2> QED BY <1>1, <1>2, <2>1, SeqEqual
<1>3. CASE Len(m) < Len(ids)
  <2>1. m # ids /\ ids # <<>> /\ Len(m) + 1 \in 0..Len(ids)
    BY <1>1, <1>3
  <2> DEFINE longer == SubSeq(ids, 1, Len(m) + 1)
  <2>2. longer \in Seq(Token) /\ longer \sqsubseteq ids
    BY <2>1, SubSeqPrefix
  <2>3. PICK n \in Below(tree, ids) : TRUE
    BY <2>1
  <2>4. n \in DOMAIN tree /\ ids \sqsubseteq n /\ n \in Seq(Token)
    BY <2>3 DEF Below, EInv, IInv, TypeOK, Prefix
  <2>5. Below(tree, longer) = {}
    BY <2>1 DEF IsMatch
  <2> HIDE DEF longer
  <2>6. longer \sqsubseteq n
    BY <2>2, <2>4, PrefixTransitive
  <2> QED BY <2>4, <2>5, <2>6 DEF Below
<1> QED BY <1>1, <1>2, <1>3

(* The match is dropped: its aligned prefix stays in the tree. *)
LEMMA DropMatchAligned ==
  ASSUME AInv, NEW r \in Request, DropMatch(r)
  PROVE  AlignedOK(r)'
<1>1. /\ seq' = [seq EXCEPT ![r].stage = "realign", ![r].done = Aligned(matched[r])]
      /\ Cancel(r) /\ tails' = tails /\ busy = None /\ busy' = busy /\ r \in active
  BY DEF DropMatch, Cancel, Release
<1>2. seq \in [Request -> Sequence] /\ seq[r] \in Sequence
  BY DEF AInv, EInv, OwnInv, ExecTypeOK
<1>3. seq'[r].stage = "realign" /\ seq'[r].done = Aligned(matched[r])
  BY <1>1, <1>2 DEF Sequence
<1>4. /\ Aligned(matched[r]) \in Seq(Token) /\ Aligned(matched[r]) \sqsubseteq matched[r]
      /\ Aligned(matched[r]) \in TailKeys \cup {<<>>}
      /\ EInv /\ Len(matched[r]) \in Nat
  BY RequestTypes, AlignedIsPrefix DEF AInv
<1>5. Aligned(matched[r]) # <<>> => Below(tree', Aligned(matched[r])) # {}
  <2> SUFFICES ASSUME Aligned(matched[r]) # <<>>
               PROVE  Below(tree', Aligned(matched[r])) # {}
    OBVIOUS
  <2>1. matched[r] # <<>>
    BY <1>4 DEF \sqsubseteq
  <2>2. matched[r] \in DOMAIN tree
    BY <1>1, <1>4, <2>1 DEF EInv, IInv, SharedPagesStayCached
  <2>3. DOMAIN tree' = DOMAIN tree
    BY <1>1 DEF Cancel, UnlockPath
  <2> QED BY <1>4, <2>2, <2>3 DEF Below
<1>6. TailKeys' = TailKeys
  BY <1>1 DEF TailKeys
<1> QED BY <1>1, <1>3, <1>4, <1>5, <1>6 DEF AlignedOK

(* The second reservation matches exactly that prefix. *)
LEMMA RealignAligned ==
  ASSUME AInv, NEW r \in Request, NEW m \in Prefixes(seq[r].done), Realign(r, m)
  PROVE  AlignedOK(r)' /\ m = seq[r].done
<1>1. /\ seq[r].stage = "realign" /\ seq' = [seq EXCEPT ![r].stage = "reserved"]
      /\ IsMatch(tree, seq[r].done, m) /\ matched' = [matched EXCEPT ![r] = m] /\ tails' = tails
  BY DEF Realign, Reserve
<1>2. /\ seq \in [Request -> Sequence] /\ seq[r] \in Sequence /\ matched \in [Request -> Seq(Token)]
      /\ seq[r].done \in Seq(Token) /\ EInv /\ AlignedOK(r)
  BY RequestTypes, TextsType DEF AInv, EInv, OwnInv, ExecTypeOK, IInv, TypeOK
<1>3. m = seq[r].done
  BY <1>1, <1>2, CachedIsMatched DEF AlignedOK
<1>4. seq'[r].stage = "reserved" /\ matched'[r] = m
  BY <1>1, <1>2 DEF Sequence
<1>5. m \in TailKeys \cup {<<>>} /\ TailKeys' = TailKeys
  BY <1>1, <1>2, <1>3 DEF AlignedOK, TailKeys
<1> QED BY <1>3, <1>4, <1>5 DEF AlignedOK

(* A lane is taken with a match whose tail is cached. *)
LEMMA TakeLaneAligned ==
  ASSUME AInv, NEW r \in Request, TakeLane(r)
  PROVE  AlignedOK(r)'
<1>1. /\ MatchStands(r) /\ tails' = tails /\ matched' = matched
      /\ seq' = [seq EXCEPT ![r].stage = "bound", ![r].lane = NextLane, ![r].done = matched[r]]
  BY DEF TakeLane, EnsureMaterialized
<1>2. seq \in [Request -> Sequence] /\ seq[r] \in Sequence /\ EInv /\ AlignedOK(r)
  BY DEF AInv, EInv, OwnInv, ExecTypeOK
<1>3. seq'[r].stage = "bound" /\ seq'[r].drafting = seq[r].drafting
  BY <1>1, <1>2 DEF Sequence
<1>4. TailKeys' = TailKeys
  BY <1>1 DEF TailKeys
<1>5. PromptTails /\ seq[r].drafting => matched[r] \in TailKeys \cup {<<>>}
  <2> SUFFICES ASSUME PromptTails, seq[r].drafting PROVE matched[r] \in TailKeys \cup {<<>>}
    OBVIOUS
  <2>1. CASE seq[r].stage = "reserved"
    BY <1>2, <2>1 DEF AlignedOK
  <2>2. CASE Aligned(matched[r]) = matched[r]
    BY <1>2, <2>2, RequestTypes, AlignedIsPrefix
  <2> QED BY <1>1, <2>1, <2>2 DEF MatchStands
<1> QED BY <1>1, <1>3, <1>4, <1>5 DEF AlignedOK

(* Where the other steps of a request leave it. *)
LEMMA OtherStages ==
  ASSUME EInv, NEW r \in Request,
         \/ \E ids \in Texts, budget \in Budgets, drafting \in BOOLEAN :
              \E m \in Prefixes(Front(ids)) : Probe(r, ids, budget, drafting, m)
         \/ \E m \in Prefixes(seq[r].done) : RealignRefused(r, m)
         \/ NoLane(r) \/ Prepare(r) \/ NoDraftSlot(r) \/ Passes(r) \/ Ends(r)
  PROVE  seq'[r].stage \in {"idle", "probed", "primed", "ready", "failed", "spent"}
<1>1. seq \in [Request -> Sequence] /\ seq[r] \in Sequence
  BY DEF EInv, OwnInv, ExecTypeOK
<1>2. ASSUME NEW ids \in Texts, NEW budget \in Budgets, NEW drafting \in BOOLEAN,
             NEW m \in Prefixes(Front(ids)), Probe(r, ids, budget, drafting, m)
      PROVE  seq'[r].stage = "probed"
  BY <1>1, <1>2 DEF Probe, Opened, Idle
<1>3. ASSUME Close(r) PROVE seq'[r].stage = "idle"
  BY <1>1, <1>3 DEF Close, Idle
<1>4. CASE \/ \E m \in Prefixes(seq[r].done) : RealignRefused(r, m)
           \/ NoLane(r) \/ NoDraftSlot(r) \/ Ends(r)
  BY <1>3, <1>4 DEF RealignRefused, NoLane, NoDraftSlot, Ends, Finish
<1>5. CASE Prepare(r) \/ PassFails(r) \/ PassBreaks(r)
  <2>1. \E st \in {"primed", "failed", "spent"} : seq' = [seq EXCEPT ![r].stage = st]
    BY <1>5 DEF Prepare, PassFails, PassBreaks
  <2> QED BY <1>1, <2>1 DEF Sequence
<1>6. ASSUME NEW a, seq' = [seq EXCEPT ![r] = Settled(r, a)], a \in Sequence
      PROVE  seq'[r].stage \in {"ready", "spent"}
  BY <1>1, <1>6, SettledType
<1>7. ASSUME NEW t \in Token, FirstPass(r, t) PROVE seq'[r].stage \in {"ready", "spent"}
  <2> DEFINE a == [seq[r] EXCEPT !.text = Append(@, t), !.done = seq[r].prompt]
  <2>1. Settled(r, a).text \in Texts /\ seq' = [seq EXCEPT ![r] = Settled(r, a)]
    BY <1>7 DEF FirstPass
  <2>2. a \in Sequence
    BY <1>1, <2>1 DEF Sequence, Settled
  <2> HIDE DEF a
  <2> QED BY <1>6, <2>1, <2>2
<1>8. ASSUME NEW ids \in Texts, NextPass(r, ids) PROVE seq'[r].stage \in {"ready", "spent"}
  <2> DEFINE a == [seq[r] EXCEPT !.text = ids, !.done = Front(ids)]
  <2>1. seq' = [seq EXCEPT ![r] = Settled(r, a)]
    BY <1>8 DEF NextPass
  <2>2. a \in Sequence
    BY <1>1, <1>8, NextPassFacts DEF Sequence, NextPass
  <2> HIDE DEF a
  <2> QED BY <1>6, <2>1, <2>2
<1> QED BY <1>2, <1>4, <1>5, <1>7, <1>8 DEF Passes

(* The steps that leave the requests alone leave the cached prefix alone. *)
LEMMA QuietAligned ==
  ASSUME AInv, NEW r \in Request, Quiet
  PROVE  AlignedOK(r)'
<1>1. seq' = seq /\ tails' = tails /\ matched' = matched
  BY DEF Quiet, CopyBoundary, Extend, ProbeRefused, execVars, own, vars, TakeBoundaryCopy,
         EnsureMaterialized, ReserveRefused, TakePage, EvictOneLeaf
<1>2. EInv /\ AlignedOK(r) /\ TailKeys' = TailKeys
  BY <1>1 DEF AInv, TailKeys
<1>3. CASE seq[r].stage = "realign"
  <2>1. turn = r /\ turn # None /\ busy = None
    BY <1>2, <1>3, RadixAssumption DEF EInv, OwnInv, Turns, Opening, AlignedOK, RadixAssumption
  <2>2. ~\E q \in Request : CopyBoundary(q) \/ Extend(q)
    BY <1>3, <2>1 DEF CopyBoundary, Extend
  <2>3. UNCHANGED execVars
    BY <2>1, <2>2 DEF Quiet, ProbeRefused, TakePage, EvictOneLeaf
  <2>4. tree' = tree /\ busy' = busy
    BY <2>3 DEF execVars, vars
  <2> QED BY <1>1, <1>2, <1>3, <2>4 DEF AlignedOK, Below
<1>4. CASE seq[r].stage # "realign"
  BY <1>1, <1>2, <1>4 DEF AlignedOK
<1> QED BY <1>3, <1>4

(* Every step keeps alignments exact. *)
LEMMA AInvStep == AInv /\ [ExecNext]_execVars => AInv'
<1> SUFFICES ASSUME AInv, [ExecNext]_execVars, NEW r \in Request PROVE AlignedOK(r)'
  BY EInvStep DEF AInv
<1>1. EInv /\ AlignedOK(r)
  BY DEF AInv
<1>2. CASE Quiet
  BY <1>2, QuietAligned
<1>3. ASSUME NEW q \in Request \ {r}, Opens(q) \/ GoesOn(q) \/ Passes(q) \/ Ends(q)
      PROVE  AlignedOK(r)'
  <2>1. turn # r
    BY <1>1, <1>3, OpeningIsAlone
  <2>2. seq[r].stage \notin Opening
    BY <1>1, <2>1 DEF EInv, OwnInv, Turns
  <2>3. seq'[r] = seq[r]
    BY <1>1, <1>3, OpeningMovesLane, PassMovesLane DEF MovesLane
  <2> QED BY <2>2, <2>3 DEF AlignedOK, Opening
<1>4. CASE Opens(r) \/ GoesOn(r) \/ Passes(r) \/ Ends(r)
  <2>1. ASSUME NEW ids \in Texts, NEW budget \in Budgets, NEW drafting \in BOOLEAN,
               TakeLanePlain(r, ids, budget, drafting)
        PROVE  AlignedOK(r)'
    <3>1. /\ r \notin active /\ matched' = matched
          /\ seq' = [seq EXCEPT ![r] = [Opened(ids, budget, drafting) EXCEPT
                                          !.stage = "bound", !.lane = NextLane]]
      BY <1>1, <2>1 DEF TakeLanePlain, vars, EInv, OwnInv, Backed
    <3>2. matched'[r] = <<>>
      BY <1>1, <3>1 DEF EInv, IInv, IdleHandles
    <3>3. [Opened(ids, budget, drafting) EXCEPT !.stage = "bound", !.lane = NextLane].stage = "bound"
      BY DEF Opened, Idle
    <3>4. seq'[r].stage = "bound"
      BY <1>1, <3>1, <3>3 DEF EInv, OwnInv, ExecTypeOK
    <3> QED BY <3>2, <3>4 DEF AlignedOK
  <2>2. ASSUME seq'[r].stage \in {"idle", "probed", "primed", "ready", "failed", "spent"}
        PROVE  AlignedOK(r)'
    BY <2>2 DEF AlignedOK
  <2> QED BY <1>1, <1>4, <2>1, <2>2, DropMatchAligned, RealignAligned, TakeLaneAligned, OtherStages
          DEF Opens, GoesOn
<1> QED BY <1>2, <1>3, <1>4, ExecCases

(* The alignment of a request with the tail cache holds what it promises. *)
THEOREM AlignmentInvariance == ExecSpec => []AInv
<1>1. ExecInit => AInv
  BY ExecInitInv DEF AInv, AlignedOK, ExecInit, Idle
<1>2. AInv /\ [ExecNext]_execVars => AInv'
  BY AInvStep
<1> QED BY <1>1, <1>2, PTL DEF ExecSpec

(* A shortened match is reserved again as it stands, and its tail is kept   *)
(* until the draft slot is prepared.                                       *)
THEOREM AlignmentIsExact == ExecSpec => []AlignedMatchIsExact
<1>1. AInv => AlignedMatchIsExact
  <2> SUFFICES ASSUME AInv, NEW r \in Request
               PROVE  /\ seq[r].stage = "realign" /\ busy = None => IsMatch(tree, seq[r].done, seq[r].done)
                      /\ PromptTails /\ seq[r].drafting /\ seq[r].stage \in {"reserved", "bound"} =>
                           matched[r] \in TailKeys \cup {<<>>}
    BY DEF AlignedMatchIsExact
  <2>1. AlignedOK(r) /\ EInv
    BY DEF AInv
  <2>2. seq[r].done \sqsubseteq seq[r].done
    BY <2>1, RequestTypes, TextsType, PrefixReflexive
  <2> QED BY <2>1, <2>2 DEF AlignedOK, IsMatch
<1> QED BY <1>1, AlignmentInvariance, PTL

-----------------------------------------------------------------------------
(***************************************************************************)
(* The draft model's rows: an entry of the tail cache holds the rows of     *)
(* its prefix, and the draft model continues the text the target is at.    *)
(***************************************************************************)

(* rows are those of the last tokens of the first c of a text.             *)
EndsAt(rows, ids, c) ==
  /\ Len(rows) <= c /\ c <= Len(ids)
  /\ \A i \in 1..Len(rows) : rows[i] = SubSeq(ids, 1, c - Len(rows) + i)

(* The prefixes of a prefix. *)
LEMMA SubSeqOfPrefix ==
  ASSUME NEW ids \in Seq(Token), NEW jds \in Seq(Token), ids \sqsubseteq jds, NEW k \in 0..Len(ids)
  PROVE  SubSeq(ids, 1, k) = SubSeq(jds, 1, k)
<1>1. k \in 0..Len(jds) /\ Len(ids) \in Nat /\ Len(jds) \in Nat
  BY DEF \sqsubseteq
<1>2. /\ SubSeq(ids, 1, k) \in Seq(Token) /\ Len(SubSeq(ids, 1, k)) = k
      /\ \A i \in 1..k : SubSeq(ids, 1, k)[i] = ids[i]
  BY SubSeqPrefix
<1>3. /\ SubSeq(jds, 1, k) \in Seq(Token) /\ Len(SubSeq(jds, 1, k)) = k
      /\ \A i \in 1..k : SubSeq(jds, 1, k)[i] = jds[i]
  BY <1>1, SubSeqPrefix
<1>4. \A i \in 1..k : ids[i] = jds[i]
  BY <1>1 DEF \sqsubseteq
<1> QED BY <1>2, <1>3, <1>4, SeqEqual

(* Rows stay those of a text that grows, and of a prefix that holds them.  *)
LEMMA EndsAtOther ==
  ASSUME NEW ids \in Texts, NEW jds \in Texts, NEW rows \in Seq(Texts), NEW c \in Nat,
         EndsAt(rows, ids, c), c <= Len(jds),
         ids \sqsubseteq jds \/ jds \sqsubseteq ids
  PROVE  EndsAt(rows, jds, c)
<1>1. /\ ids \in Seq(Token) /\ jds \in Seq(Token) /\ Len(ids) \in Nat /\ Len(jds) \in Nat
      /\ Len(rows) \in Nat /\ Len(rows) <= c /\ c <= Len(ids)
  BY TextsType, LenProperties DEF EndsAt
<1>2. ASSUME NEW k \in 0..c PROVE SubSeq(ids, 1, k) = SubSeq(jds, 1, k)
  <2>1. k \in 0..Len(ids) /\ k \in 0..Len(jds)
    BY <1>1
  <2> QED BY <1>1, <2>1, SubSeqOfPrefix
<1>3. \A i \in 1..Len(rows) : c - Len(rows) + i \in 0..c
  BY <1>1
<1> QED BY <1>1, <1>2, <1>3 DEF EndsAt

(* They are what RowsOf names. *)
LEMMA EndsAtRows ==
  ASSUME NEW ids \in Texts, NEW rows \in Seq(Texts), NEW c \in Nat, EndsAt(rows, ids, c)
  PROVE  rows = RowsOf(ids, c - Len(rows), c)
<1>1. Len(rows) \in Nat /\ Len(rows) <= c /\ Len(ids) \in Nat /\ c <= Len(ids)
  BY TextsType, LenProperties DEF EndsAt
<1>2. PICK from \in Nat : from = c - Len(rows)
  <2>1. c - Len(rows) \in Nat
    BY <1>1
  <2> QED BY <2>1
<1>3. c \in from..Len(ids) /\ c - from = Len(rows)
  BY <1>1, <1>2
<1>4. /\ RowsOf(ids, from, c) \in Seq(Texts)
      /\ Len(RowsOf(ids, from, c)) = Len(rows)
      /\ \A i \in 1..Len(rows) : RowsOf(ids, from, c)[i] = SubSeq(ids, 1, from + i)
  <2>1. /\ RowsOf(ids, from, c) \in Seq(Texts)
        /\ Len(RowsOf(ids, from, c)) = c - from
        /\ \A i \in 1..(c - from) : RowsOf(ids, from, c)[i] = SubSeq(ids, 1, from + i)
    BY <1>3, RowsType
  <2> QED BY <1>3, <2>1
<1>5. \A i \in 1..Len(rows) : rows[i] = SubSeq(ids, 1, from + i)
  BY <1>2 DEF EndsAt
<1> QED BY <1>2, <1>4, <1>5, SeqEqual

(* Without the last one they are those of one token less. *)
LEMMA EndsAtFront ==
  ASSUME NEW ids \in Texts, NEW rows \in Seq(Texts), NEW c \in Nat, EndsAt(rows, ids, c),
         Len(rows) > 0
  PROVE  /\ c - 1 \in Nat /\ Front(rows) \in Seq(Texts) /\ Len(Front(rows)) = Len(rows) - 1
         /\ EndsAt(Front(rows), ids, c - 1)
<1>1. Len(rows) \in Nat /\ Len(rows) <= c /\ Len(ids) \in Nat /\ c <= Len(ids)
  BY TextsType, LenProperties DEF EndsAt
<1>2. /\ Front(rows) \in Seq(Texts) /\ Len(Front(rows)) = Len(rows) - 1
      /\ \A i \in 1..(Len(rows) - 1) : Front(rows)[i] = rows[i]
  BY FrontOfSequence
<1>3. PICK n \in Nat, k \in Nat : n = Len(rows) - 1 /\ k = c - 1
  BY <1>1
<1>4. k - n = c - Len(rows)
  BY <1>1, <1>3
<1>5. n <= k /\ k <= Len(ids)
  BY <1>1, <1>3
<1>6. \A i \in 1..n : Front(rows)[i] = SubSeq(ids, 1, k - n + i)
  <2>1. \A i \in 1..n : i \in 1..Len(rows)
    BY <1>1, <1>3
  <2> QED BY <1>2, <1>3, <1>4, <2>1 DEF EndsAt
<1> QED BY <1>2, <1>3, <1>5, <1>6 DEF EndsAt

(* The elements of one sequence after another. *)
LEMMA ConcatElements ==
  ASSUME NEW S, NEW a \in Seq(S), NEW b \in Seq(S)
  PROVE  /\ a \o b \in Seq(S) /\ Len(a \o b) = Len(a) + Len(b)
         /\ Len(a) \in Nat /\ Len(b) \in Nat
         /\ \A i \in 1..Len(a) : (a \o b)[i] = a[i]
         /\ \A i \in 1..Len(b) : (a \o b)[Len(a) + i] = b[i]
<1>1. /\ a \o b \in Seq(S) /\ Len(a \o b) = Len(a) + Len(b)
      /\ Len(a) \in Nat /\ Len(b) \in Nat
      /\ \A i \in 1..(Len(a) + Len(b)) :
           (a \o b)[i] = IF i <= Len(a) THEN a[i] ELSE b[i - Len(a)]
  BY ConcatProperties, LenProperties
<1>2. ASSUME NEW i \in 1..Len(a) PROVE (a \o b)[i] = a[i]
  BY <1>1
<1>3. ASSUME NEW i \in 1..Len(b) PROVE (a \o b)[Len(a) + i] = b[i]
  <2>1. /\ Len(a) + i \in 1..(Len(a) + Len(b)) /\ ~(Len(a) + i <= Len(a))
        /\ Len(a) + i - Len(a) = i
    BY <1>1
  <2> QED BY <1>1, <2>1
<1> QED BY <1>1, <1>2, <1>3

(* A replay of the rows that follow gives rows that end where they do, and  *)
(* drops none unless they fill the window.                                 *)
LEMMA EndsAtReplayed ==
  ASSUME NEW ids \in Texts, NEW rows \in Seq(Texts), NEW c \in Nat, EndsAt(rows, ids, c),
         NEW more \in Seq(Texts), Len(more) <= Window, c + Len(more) <= Len(ids),
         \A i \in 1..Len(more) : more[i] = SubSeq(ids, 1, c + i)
  PROVE  LET all == Rolled(rows, Len(more)) \o more
         IN  /\ all \in Seq(Texts) /\ Len(all) \in Nat
             /\ EndsAt(all, ids, c + Len(more))
             /\ Len(all) >= Len(more)
             /\ Len(all) >= Len(rows) + Len(more) \/ Len(all) >= Window
<1>1. /\ Len(rows) \in Nat /\ Len(rows) <= c /\ Len(ids) \in Nat /\ Len(more) \in Nat
      /\ Window \in Nat /\ Len(more) \in 0..Window
  BY TextsType, LenProperties, ExecutorAssumption DEF EndsAt, ExecutorAssumption
<1> DEFINE old == Rolled(rows, Len(more))
           all == old \o more
<1>2. PICK drop \in 0..Len(rows) :
        /\ old = SubSeq(rows, drop + 1, Len(rows))
        /\ old \in Seq(Texts)
        /\ Len(old) = Len(rows) - drop
        /\ drop = 0 \/ Len(rows) - drop + Len(more) >= Window
  BY <1>1, RolledKeepsLastRows
<1>3. \A i \in 1..(Len(rows) - drop) : old[i] = rows[drop + i]
  <2>1. drop + 1 \in 1..(Len(rows) + 1) /\ Len(rows) \in (drop + 1 - 1)..Len(rows)
    BY <1>1, <1>2
  <2>2. \A i \in 1..(Len(rows) - (drop + 1) + 1) : SubSeq(rows, drop + 1, Len(rows))[i] = rows[drop + 1 + i - 1]
    BY <2>1, SubSeqElems, SMTT(20)
  <2>3. Len(rows) - (drop + 1) + 1 = Len(rows) - drop
        /\ \A i \in 1..(Len(rows) - drop) : drop + 1 + i - 1 = drop + i
    BY <1>1, <1>2
  <2> QED BY <1>2, <2>2, <2>3
<1> HIDE DEF old
<1>4. PICK n \in Nat, k \in Nat, lo \in Nat :
        n = Len(rows) /\ k = Len(more) /\ lo = Len(old) /\ lo = n - drop /\ drop \in 0..n /\ n <= c
  BY <1>1, <1>2
<1>5. /\ all \in Seq(Texts) /\ Len(all) = lo + k
      /\ \A i \in 1..lo : all[i] = old[i]
      /\ \A i \in 1..k : all[lo + i] = more[i]
  <2>1. /\ all \in Seq(Texts) /\ Len(all) = Len(old) + Len(more)
        /\ \A i \in 1..Len(old) : all[i] = old[i]
        /\ \A i \in 1..Len(more) : all[Len(old) + i] = more[i]
    <3>1. old \in Seq(Texts) /\ more \in Seq(Texts)
      BY <1>2
    <3>2. /\ old \o more \in Seq(Texts) /\ Len(old \o more) = Len(old) + Len(more)
          /\ \A i \in 1..Len(old) : (old \o more)[i] = old[i]
          /\ \A i \in 1..Len(more) : (old \o more)[Len(old) + i] = more[i]
      BY ONLY <3>1, ConcatElements
    <3> QED BY <3>2
  <2> HIDE DEF all
  <2> QED BY <1>4, <2>1
<1> HIDE DEF all
<1>6. lo + k <= c + k /\ c + k <= Len(ids) /\ lo + k \in Nat /\ c + k \in Nat
  BY <1>4
<1>7. ASSUME NEW i \in 1..(lo + k) PROVE all[i] = SubSeq(ids, 1, (c + k) - (lo + k) + i)
  <2>0. i \in Nat /\ i >= 1 /\ i <= lo + k
    BY <1>4
  <2>1. (c + k) - (lo + k) + i = c - lo + i
    BY <1>4, <2>0
  <2>2. CASE i <= lo
    <3>1. i \in 1..lo /\ drop + i \in 1..n /\ c - n + (drop + i) = c - lo + i
      BY <1>4, <2>2
    <3>2. all[i] = rows[drop + i]
      BY <1>3, <1>4, <1>5, <3>1
    <3>3. rows[drop + i] = SubSeq(ids, 1, c - n + (drop + i))
      BY <1>4, <3>1 DEF EndsAt
    <3> QED BY <2>1, <3>1, <3>2, <3>3
  <2>3. CASE i > lo
    <3>1. PICK j \in 1..k : i = lo + j
      <4>1. i - lo \in 1..k /\ i = lo + (i - lo)
        BY <1>4, <2>0, <2>3
      <4> QED BY <4>1
    <3>2. all[i] = SubSeq(ids, 1, c + j)
      BY <1>4, <1>5, <3>1
    <3>3. c - lo + i = c + j
      BY <1>4, <3>1
    <3> QED BY <2>1, <3>2, <3>3
  <2> QED BY <1>4, <2>0, <2>2, <2>3
<1>8. EndsAt(all, ids, c + k)
  BY <1>5, <1>6, <1>7 DEF EndsAt
<1>9. lo + k >= k /\ (lo + k >= n + k \/ lo + k >= Window)
  BY <1>1, <1>2, <1>4
<1> QED BY <1>4, <1>5, <1>6, <1>8, <1>9 DEF old, all

-----------------------------------------------------------------------------
(* The tail cache *)

DistinctKeys(ts) == \A i, j \in DOMAIN ts : ts[i].key = ts[j].key => i = j

(* The entry's rows are the last ones of its prefix, and fill the window    *)
(* with the row that is recomputed.                                        *)
TailExact(e) ==
  /\ e.rows # <<>>
  /\ EndsAt(e.rows, e.key, Len(e.key))
  /\ Len(e.rows) >= MinOf(Window - 1, Len(e.key))

(* An entry's rows are among those of the cache. *)
LEMMA EntryWithinBulk ==
  ASSUME NEW ts \in Seq(TailEntry), NEW i \in 1..Len(ts)
  PROVE  Len(ts[i].rows) <= Bulk(ts, 1)
<1>1. Len(ts) \in Nat /\ 1 \in 1..(Len(ts) + 1) /\ Len(ts[i].rows) \in Nat
  BY DEF TailEntry
<1>2. Cardinality({i} \X (1..Len(ts[i].rows))) = Len(ts[i].rows)
  BY <1>1, RowOfSlots
<1>3. {i} \X (1..Len(ts[i].rows)) \subseteq RowPairs(ts, 1, Len(ts))
  BY DEF RowPairs
<1> QED BY <1>1, <1>2, <1>3, RowPairsFinite, FS_Subset

(* The entries from a position on, and one more, have as many rows as they  *)
(* had there, and those of the new one.                                    *)
LEMMA BulkOfKept ==
  ASSUME NEW ts \in Seq(TailEntry), NEW first \in 1..(Len(ts) + 1), NEW e \in TailEntry
  PROVE  Bulk(Append(SubSeq(ts, first, Len(ts)), e), 1) <= Bulk(ts, first) + Len(e.rows)
<1> DEFINE kept == SubSeq(ts, first, Len(ts))
           new  == Append(kept, e)
           n    == Len(kept)
           A    == RowPairs(kept, 1, n)
           B    == {n + 1} \X (1..Len(e.rows))
<1>1. /\ Len(ts) \in Nat /\ kept \in Seq(TailEntry) /\ n = Len(ts) - first + 1 /\ n \in Nat
      /\ \A i \in 1..n : kept[i] = ts[first + i - 1]
  <2>1. Len(ts) \in Nat /\ Len(ts) \in (first - 1)..Len(ts)
    OBVIOUS
  <2>2. /\ SubSeq(ts, first, Len(ts)) \in Seq(TailEntry)
        /\ Len(SubSeq(ts, first, Len(ts))) = Len(ts) - first + 1
        /\ \A i \in 1..(Len(ts) - first + 1) : SubSeq(ts, first, Len(ts))[i] = ts[first + i - 1]
    BY <2>1, SubSeqElems
  <2> QED BY <2>1, <2>2
<1> HIDE DEF kept
<1>2. /\ new \in Seq(TailEntry) /\ Len(new) = n + 1
      /\ \A i \in 1..n : new[i] = kept[i]
      /\ new[n + 1] = e
  <2>1. /\ Append(kept, e) \in Seq(TailEntry) /\ Len(Append(kept, e)) = Len(kept) + 1
        /\ \A i \in 1..Len(kept) : Append(kept, e)[i] = kept[i]
        /\ Append(kept, e)[Len(kept) + 1] = e
    <3>1. kept \in Seq(TailEntry) /\ e \in TailEntry
      BY <1>1
    <3> QED BY ONLY <3>1, AppendProperties
  <2> QED BY <2>1
<1> HIDE DEF new, n
<1>3. RowPairs(new, 1, Len(new)) \subseteq A \cup B
  <2> SUFFICES ASSUME NEW x \in RowPairs(new, 1, Len(new)) PROVE x \in A \cup B
    OBVIOUS
  <2>1. PICK i \in 1..(n + 1) : \E j \in 1..Len(new[i].rows) : x = <<i, j>>
    BY <1>2, RowPairsMembers
  <2>2. CASE i = n + 1
    BY <1>2, <2>1, <2>2
  <2>3. CASE i # n + 1
    <3>1. i \in 1..n /\ new[i] = kept[i]
      <4>1. n \in Nat
        BY <1>1
      <4>2. i \in 1..n
        BY <2>1, <2>3, <4>1
      <4> QED BY <1>2, <4>2
    <3> QED BY <2>1, <3>1, RowPairsMembers
  <2> QED BY <2>2, <2>3
<1>4. IsFiniteSet(A) /\ Cardinality(A) \in Nat /\ Cardinality(A) <= Bulk(ts, first)
  <2>1. /\ IsFiniteSet(RowPairs(ts, first, Len(ts)))
        /\ Bulk(ts, first) = Cardinality(RowPairs(ts, first, Len(ts)))
    BY RowPairsFinite
  <2> DEFINE f == [x \in A |-> <<first + x[1] - 1, x[2]>>]
  <2>2. ASSUME NEW x \in A
        PROVE  /\ x[1] \in 1..n /\ x = <<x[1], x[2]>>
               /\ f[x] \in RowPairs(ts, first, Len(ts))
    <3>1. PICK i \in 1..n : \E j \in 1..Len(kept[i].rows) : x = <<i, j>>
      BY RowPairsMembers
    <3>0. PICK j \in 1..Len(kept[i].rows) : x = <<i, j>>
      BY <3>1
    <3>2. kept[i] = ts[first + i - 1] /\ first + i - 1 \in first..Len(ts)
      BY <1>1
    <3>3. <<first + i - 1, j>> \in RowPairs(ts, first, Len(ts))
      BY <3>0, <3>2, RowPairsMembers
    <3> QED BY <3>0, <3>3
  <2>3. ASSUME NEW x \in A, NEW y \in A, f[x] = f[y] PROVE x = y
    <3>1. <<first + x[1] - 1, x[2]>> = <<first + y[1] - 1, y[2]>>
      BY <2>3
    <3>2. first + x[1] - 1 = first + y[1] - 1 /\ x[2] = y[2]
      BY <3>1
    <3>3. x[1] \in 1..n /\ y[1] \in 1..n /\ n \in Nat
      BY <1>1, <2>2
    <3>4. x[1] = y[1]
      BY <3>2, <3>3
    <3> QED BY <2>2, <3>2, <3>4
  <2>4. f \in Injection(A, RowPairs(ts, first, Len(ts)))
    BY <2>2, <2>3 DEF Injection, IsInjective
  <2> HIDE DEF f
  <2> QED BY <2>1, <2>4, FS_Injection, FS_CardinalityType
<1>5. IsFiniteSet(B) /\ Cardinality(B) = Len(e.rows) /\ Len(e.rows) \in Nat
  <2>1. Len(e.rows) \in Nat
    BY DEF TailEntry
  <2> QED BY <2>1, RowOfSlots
<1> HIDE DEF A, B
<1>6. IsFiniteSet(A \cup B) /\ Cardinality(A \cup B) \in Nat
      /\ Cardinality(A \cup B) <= Cardinality(A) + Cardinality(B)
  <2>1. /\ IsFiniteSet(A \cup B) /\ IsFiniteSet(A \cap B)
        /\ Cardinality(A \cup B) = Cardinality(A) + Cardinality(B) - Cardinality(A \cap B)
    BY <1>4, <1>5, FS_Union, FS_Intersection
  <2> QED BY <1>4, <1>5, <2>1, FS_CardinalityType
<1>7. Bulk(new, 1) \in Nat /\ Bulk(new, 1) <= Cardinality(A \cup B)
  <2>1. 1 \in 1..(Len(new) + 1)
    BY <1>1, <1>2
  <2>2. Bulk(new, 1) = Cardinality(RowPairs(new, 1, Len(new)))
        /\ Cardinality(RowPairs(new, 1, Len(new))) \in Nat
    BY <1>2, <2>1, RowPairsFinite
  <2> QED BY <1>3, <1>6, <2>2, FS_Subset
<1>8. Bulk(ts, first) \in Nat /\ Len(e.rows) \in Nat
  <2>1. Bulk(ts, first) \in Nat
    BY BulkType
  <2> QED BY <2>1 DEF TailEntry
<1> QED BY <1>4, <1>5, <1>6, <1>7, <1>8 DEF new, kept

(* Taking out the entry of a key leaves none of it, and the keys distinct. *)
LEMMA WithoutKeepsKeys ==
  ASSUME NEW ts \in Seq(TailEntry), NEW key, DistinctKeys(ts)
  PROVE  /\ DistinctKeys(Without(ts, key))
         /\ \A i \in DOMAIN Without(ts, key) : Without(ts, key)[i].key # key
         /\ Without(ts, key) = ts \/ \E i \in 1..Len(ts) : ts[i].key = key
<1>0. DOMAIN ts = 1..Len(ts) /\ Len(ts) \in Nat
  BY LenProperties
<1>1. CASE \A i \in 1..Len(ts) : ts[i].key # key
  BY <1>0, <1>1 DEF Without
<1>2. CASE \E i \in 1..Len(ts) : ts[i].key = key
  <2> DEFINE at == CHOOSE i \in 1..Len(ts) : ts[i].key = key
             a  == SubSeq(ts, 1, at - 1)
             b  == SubSeq(ts, at + 1, Len(ts))
             w  == a \o b
             pos(i) == IF i < at THEN i ELSE i + 1
  <2>1. at \in 1..Len(ts) /\ ts[at].key = key
    BY <1>2
  <2>2. Without(ts, key) = w
    BY <1>2 DEF Without
  <2> HIDE DEF at
  <2>3. /\ a \in Seq(TailEntry) /\ Len(a) = at - 1
        /\ \A i \in 1..(at - 1) : a[i] = ts[i]
    <3>1. 1 \in 1..(Len(ts) + 1) /\ at - 1 \in (1 - 1)..Len(ts) /\ at - 1 - 1 + 1 = at - 1
      BY <1>0, <2>1
    <3>2. /\ a \in Seq(TailEntry) /\ Len(a) = at - 1 - 1 + 1
          /\ \A i \in 1..(at - 1 - 1 + 1) : a[i] = ts[1 + i - 1]
      BY <3>1, SubSeqElems
    <3>3. \A i \in 1..(at - 1) : 1 + i - 1 = i
      BY <1>0, <2>1
    <3> QED BY <3>1, <3>2, <3>3
  <2>4. /\ b \in Seq(TailEntry) /\ Len(b) = Len(ts) - at
        /\ \A i \in 1..(Len(ts) - at) : b[i] = ts[at + i]
    <3>1. /\ at + 1 \in 1..(Len(ts) + 1) /\ Len(ts) \in (at + 1 - 1)..Len(ts)
          /\ Len(ts) - (at + 1) + 1 = Len(ts) - at
      BY <1>0, <2>1
    <3>2. /\ b \in Seq(TailEntry) /\ Len(b) = Len(ts) - (at + 1) + 1
          /\ \A i \in 1..(Len(ts) - (at + 1) + 1) : b[i] = ts[at + 1 + i - 1]
      BY <3>1, SubSeqElems
    <3>3. \A i \in 1..(Len(ts) - at) : at + 1 + i - 1 = at + i
      BY <1>0, <2>1
    <3> QED BY <3>1, <3>2, <3>3
  <2> HIDE DEF a, b
  <2>5. /\ w \in Seq(TailEntry) /\ Len(w) = Len(a) + Len(b)
        /\ \A i \in 1..Len(a) : w[i] = a[i]
        /\ \A i \in 1..Len(b) : w[Len(a) + i] = b[i]
    <3>1. a \in Seq(TailEntry) /\ b \in Seq(TailEntry)
      BY <2>3, <2>4
    <3>2. /\ a \o b \in Seq(TailEntry) /\ Len(a \o b) = Len(a) + Len(b)
          /\ \A i \in 1..Len(a) : (a \o b)[i] = a[i]
          /\ \A i \in 1..Len(b) : (a \o b)[Len(a) + i] = b[i]
      BY ONLY <3>1, ConcatElements
    <3> QED BY <3>2
  <2> HIDE DEF w
  <2>6. DOMAIN w = 1..(Len(ts) - 1)
    <3>1. Len(w) = Len(ts) - 1
      BY <1>0, <2>1, <2>3, <2>4, <2>5
    <3> QED BY <2>5, <3>1, LenProperties
  <2>7. ASSUME NEW i \in DOMAIN w
        PROVE  /\ i \in Nat /\ pos(i) \in DOMAIN ts /\ pos(i) # at /\ w[i] = ts[pos(i)]
    <3>0. i \in 1..(Len(ts) - 1) /\ at \in Nat /\ at >= 1 /\ at <= Len(ts)
      BY <1>0, <2>1, <2>6
    <3>1. CASE i < at
      <4>1. i \in 1..(at - 1)
        BY <3>0, <3>1
      <4> QED BY <1>0, <2>3, <2>5, <3>0, <3>1, <4>1
    <3>2. CASE ~(i < at)
      <4>1. PICK j \in 1..(Len(ts) - at) : i = at - 1 + j
        <5>1. i - (at - 1) \in 1..(Len(ts) - at) /\ i = at - 1 + (i - (at - 1))
          BY <1>0, <3>0, <3>2
        <5> QED BY <5>1
      <4>2. w[i] = ts[at + j]
        BY <2>3, <2>4, <2>5, <4>1
      <4>3. at + j = i + 1 /\ pos(i) = i + 1 /\ i + 1 \in 1..Len(ts) /\ i + 1 # at /\ i \in Nat
        BY <1>0, <3>0, <3>2, <4>1
      <4> QED BY <1>0, <4>2, <4>3
    <3> QED BY <3>1, <3>2
  <2>8. ASSUME NEW i \in DOMAIN w, NEW j \in DOMAIN w, w[i].key = w[j].key PROVE i = j
    <3>1. pos(i) = pos(j) /\ i \in Nat /\ j \in Nat /\ at \in Nat
      BY <1>0, <2>1, <2>7, <2>8 DEF DistinctKeys
    <3> QED BY <3>1
  <2>9. ASSUME NEW i \in DOMAIN w PROVE w[i].key # key
    BY <1>0, <2>1, <2>7, <2>9 DEF DistinctKeys
  <2> QED BY <1>2, <2>2, <2>8, <2>9 DEF DistinctKeys
<1> QED BY <1>1, <1>2

(* An insertion keeps the keys distinct and the rows within the capacity.  *)
LEMMA TailInsertKeepsBounds ==
  ASSUME NEW ts \in Seq(TailEntry), NEW e \in TailEntry, DistinctKeys(ts),
         Len(e.rows) > TailRows => Bulk(ts, 1) <= TailRows
  PROVE  DistinctKeys(TailInsert(ts, e)) /\ Bulk(TailInsert(ts, e), 1) <= TailRows
<1>0. Len(e.rows) \in Nat /\ TailRows \in Nat
  BY ExecutorAssumption DEF TailEntry, ExecutorAssumption
<1>1. CASE Len(e.rows) > TailRows
  BY <1>1 DEF TailInsert
<1>2. CASE ~(Len(e.rows) > TailRows)
  <2> DEFINE others == Without(ts, e.key)
             first  == FirstKept(others, e)
             kept   == SubSeq(others, first, Len(others))
  <2>1. TailInsert(ts, e) = Append(kept, e)
    BY <1>2 DEF TailInsert, FirstKept
  <2>2. /\ others \in Seq(TailEntry) /\ DistinctKeys(others)
        /\ \A i \in DOMAIN others : others[i].key # e.key
        /\ DOMAIN others = 1..Len(others) /\ Len(others) \in Nat
    BY WithoutKeepsOthers, WithoutKeepsKeys, LenProperties
  <2>3. first \in 1..(Len(others) + 1) /\ Bulk(others, first) + Len(e.rows) <= TailRows
    BY <1>0, <1>2, <2>2, FirstKeptExists
  <2>4. Bulk(Append(kept, e), 1) <= Bulk(others, first) + Len(e.rows)
    BY <2>2, <2>3, BulkOfKept
  <2> HIDE DEF others, first
  <2>5. Bulk(others, first) \in Nat
    BY <2>2, <2>3, BulkType
  <2>6. /\ kept \in Seq(TailEntry) /\ Len(kept) = Len(others) - first + 1
        /\ \A i \in 1..(Len(others) - first + 1) : kept[i] = others[first + i - 1]
    <3>1. Len(others) \in (first - 1)..Len(others)
      BY <2>2, <2>3
    <3> QED BY <2>2, <2>3, <3>1, SubSeqElems
  <2> DEFINE n == Len(others) - first + 1
             new == Append(kept, e)
  <2>7. /\ new \in Seq(TailEntry) /\ DOMAIN new = 1..(n + 1) /\ n \in Nat
        /\ \A i \in 1..n : new[i] = others[first + i - 1]
        /\ new[n + 1] = e
    <3>1. n \in Nat
      BY <2>2, <2>3
    <3>2. kept \in Seq(TailEntry) /\ e \in TailEntry
      BY <2>6
    <3>3. /\ new \in Seq(TailEntry) /\ Len(new) = Len(kept) + 1
          /\ \A i \in 1..Len(kept) : new[i] = kept[i]
          /\ new[Len(kept) + 1] = e
      BY ONLY <3>2, AppendProperties
    <3>4. DOMAIN new = 1..Len(new)
      BY ONLY <3>3, LenProperties
    <3> HIDE DEF new, kept
    <3> QED BY <2>6, <3>1, <3>3, <3>4
  <2> HIDE DEF new, kept
  <2>8. ASSUME NEW i \in 1..n
        PROVE  first + i - 1 \in DOMAIN others /\ new[i].key # e.key
    <3>1. first + i - 1 \in 1..Len(others)
      BY <2>2, <2>3, <2>7
    <3> QED BY <2>2, <2>7, <3>1
  <2>9. ASSUME NEW i \in DOMAIN new, NEW j \in DOMAIN new, new[i].key = new[j].key PROVE i = j
    <3>0. n \in Nat /\ i \in 1..(n + 1) /\ j \in 1..(n + 1)
      BY <2>7
    <3> HIDE DEF n
    <3>1. CASE i \in 1..n /\ j \in 1..n
      <4>1. first + i - 1 \in DOMAIN others /\ first + j - 1 \in DOMAIN others
        BY <2>8, <3>1
      <4>2. others[first + i - 1].key = others[first + j - 1].key
        BY <2>7, <2>9, <3>1
      <4>3. first + i - 1 = first + j - 1
        BY <2>2, <4>1, <4>2 DEF DistinctKeys
      <4> QED BY <2>3, <3>0, <4>3
    <3>2. i \in 1..n \/ i = n + 1
      BY <3>0
    <3>3. j \in 1..n \/ j = n + 1
      BY <3>0
    <3> QED BY <2>7, <2>8, <2>9, <3>1, <3>2, <3>3
  <2>10. Bulk(new, 1) <= TailRows
    <3>1. Bulk(new, 1) \in Nat
      <4>1. 1 \in 1..(Len(new) + 1)
        BY <2>7, LenProperties
      <4> QED BY <2>7, <4>1, BulkType
    <3> QED BY <1>0, <2>3, <2>4, <2>5, <3>1 DEF new
  <2> QED BY <2>1, <2>9, <2>10 DEF DistinctKeys, new
<1> QED BY <1>1, <1>2

-----------------------------------------------------------------------------
(* The invariant of tails and draft rows *)

SoundTails(ts) ==
  /\ \A e \in Elems(ts) : TailExact(e)
  /\ DistinctKeys(ts)
  /\ Bulk(ts, 1) <= TailRows

(* The rows are those of the request's text, unless a failed pass left them *)
(* ahead of what is known of it.  A slot that was prepared and is empty has *)
(* nothing to attend to that the replay would not give; after a replay the  *)
(* window is full, as far as the text goes.                                *)
DraftExact(r) ==
  /\ seq[r].stage \in Passing /\ draft[r].rows # <<>> /\ draft[r].context <= Len(seq[r].done) =>
       /\ EndsAt(draft[r].rows, seq[r].text, draft[r].context)
       /\ Len(draft[r].rows) >= MinOf(Window - 1, draft[r].context)
       /\ seq[r].stage = "primed" => draft[r].context = Len(matched[r]) /\ Near(r)
  /\ seq[r].stage = "primed" /\ seq[r].drafting /\ draft[r].rows = <<>> =>
       ~Near(r) \/ matched[r] = <<>>
  /\ seq[r].stage = "ready" /\ seq[r].drafting => draft[r].rows # <<>>
  /\ seq[r].stage = "ready" /\ seq[r].drafting /\ Generated(r) < seq[r].budget =>
       Len(draft[r].rows) >= MinOf(Window, draft[r].context)

TInv ==
  /\ FInv
  /\ \A r \in Request : AlignedOK(r) /\ DraftExact(r)
  /\ SoundTails(tails)

(* What is entered in the cache is as exact as what is there. *)
LEMMA InsertKeepsTails ==
  ASSUME NEW ts \in Seq(TailEntry), SoundTails(ts), NEW e \in TailEntry, TailExact(e)
  PROVE  SoundTails(TailInsert(ts, e))
BY TailInsertKeepsOthers, TailInsertKeepsBounds DEF SoundTails

(* So is an entry that is made the newest. *)
LEMMA RefreshKeepsTails ==
  ASSUME NEW ts \in Seq(TailEntry), SoundTails(ts), NEW e \in Elems(ts)
  PROVE  SoundTails(TailInsert(Without(ts, e.key), e))
<1>1. PICK i \in 1..Len(ts) : e = ts[i]
  BY DEF Elems
<1>2. e \in TailEntry /\ Len(e.rows) <= Bulk(ts, 1)
  BY <1>1, EntryWithinBulk
<1>3. /\ Len(e.rows) \in Nat /\ Bulk(ts, 1) \in Nat /\ TailRows \in Nat
      /\ Bulk(ts, 1) <= TailRows /\ TailExact(e)
  <2>1. Bulk(ts, 1) \in Nat
    <3>1. 1 \in 1..(Len(ts) + 1)
      BY LenProperties
    <3> QED BY <3>1, BulkType
  <2>2. Len(e.rows) \in Nat
    BY <1>2 DEF TailEntry
  <2> QED BY <2>1, <2>2, ExecutorAssumption DEF ExecutorAssumption, SoundTails
<1>4. ~(Len(e.rows) > TailRows)
  BY <1>2, <1>3
<1> DEFINE others == Without(ts, e.key)
<1>5. /\ others \in Seq(TailEntry) /\ Elems(others) \subseteq Elems(ts) /\ DistinctKeys(others)
  BY WithoutKeepsOthers, WithoutKeepsKeys DEF SoundTails
<1> HIDE DEF others
<1>6. /\ DistinctKeys(TailInsert(others, e)) /\ Bulk(TailInsert(others, e), 1) <= TailRows
  BY <1>2, <1>4, <1>5, TailInsertKeepsBounds
<1>7. Elems(TailInsert(others, e)) \subseteq Elems(others) \cup {e}
  BY <1>2, <1>5, TailInsertKeepsOthers
<1> QED BY <1>3, <1>5, <1>6, <1>7 DEF SoundTails, others

(* The rows after the first pass are the last of the prompt, as many as    *)
(* the window takes.                                                       *)
LEMMA FirstReplayedExact ==
  ASSUME TInv, PromptTails, NEW r \in Request, seq[r].stage = "primed", seq[r].drafting
  PROVE  LET rows == FirstReplayed(r).rows
             p    == seq[r].prompt
         IN  /\ rows \in Seq(Texts) /\ Len(rows) > 0 /\ Len(rows) \in Nat
             /\ FirstReplayed(r).context = Len(p)
             /\ EndsAt(rows, p, Len(p))
             /\ Len(rows) >= MinOf(Window, Len(p))
<1> DEFINE p == seq[r].prompt
           old == draft[r].rows
           more == FirstRows(r)
           all == Rolled(old, Len(more)) \o more
<1>1. /\ EInv /\ DraftExact(r) /\ p \in Texts /\ Len(p) \in Nat /\ old \in Seq(Texts)
      /\ Len(old) \in Nat /\ draft[r].context \in Nat /\ Len(matched[r]) \in Nat
      /\ seq[r].text = p /\ draft[r].context <= Len(seq[r].done)
  <2>1. EInv
    BY DEF TInv, FInv
  <2> QED BY <2>1, RequestTypes DEF TInv, EInv, OwnInv, Sound, Opening, Resident
<1>2. /\ Len(matched[r]) < Len(p)
      /\ more \in Seq(Texts)
      /\ Len(more) = MinOf(Len(p) - Len(matched[r]), Window)
      /\ Len(more) \in 1..Window
      /\ FirstStart(r) \in Nat
      /\ FirstStart(r) + Len(more) = Len(p)
      /\ \A i \in 1..Len(more) : more[i] = SubSeq(p, 1, FirstStart(r) + i)
  BY <1>1, FirstRowsType
<1>3. /\ FirstReplayed(r).context = Len(p) /\ FirstReplayed(r).rows = all /\ Len(all) > 0
  BY <1>1, FirstReplayedType
<1>4. Window \in Nat /\ Window > 0
  BY ExecutorAssumption DEF ExecutorAssumption
<1> HIDE DEF p, old, more, all
<1>5. PICK np \in Nat, nm \in Nat, k \in Nat, s \in Nat, no \in Nat :
        /\ np = Len(p) /\ nm = Len(matched[r]) /\ k = Len(more) /\ s = FirstStart(r)
        /\ no = Len(old) /\ nm < np /\ s + k = np /\ k <= Window /\ k >= 1
        /\ k = MinOf(np - nm, Window)
  <2>1. Len(more) \in Nat /\ Len(more) <= Window /\ Len(more) >= 1
    BY <1>2, <1>4
  <2> QED BY <1>1, <1>2, <2>1
<1>6. Near(r) <=> np - nm < Window
  BY <1>5 DEF Near, p
<1>7. old # <<>> => /\ EndsAt(old, p, draft[r].context) /\ draft[r].context = nm
                    /\ no >= MinOf(Window - 1, nm) /\ np - nm < Window
  BY <1>1, <1>5, <1>6 DEF DraftExact, Passing, old
<1>8. old = <<>> => ~(np - nm < Window) \/ nm = 0
  <2>1. matched[r] = <<>> => nm = 0
    BY <1>5
  <2> QED BY <1>1, <1>6, <2>1 DEF DraftExact, old
<1>9. EndsAt(old, p, s)
  <2>1. CASE old = <<>>
    BY <1>5, <2>1 DEF EndsAt
  <2>2. CASE old # <<>>
    <3>1. np - nm < Window
      BY <1>7, <2>2
    <3>2. k = np - nm
      BY <1>4, <1>5, <3>1 DEF MinOf
    <3>3. s = nm
      BY <1>5, <3>2
    <3> QED BY <1>7, <2>2, <3>3
  <2> QED BY <2>1, <2>2
<1>10. /\ all \in Seq(Texts) /\ Len(all) \in Nat /\ EndsAt(all, p, s + k)
       /\ Len(all) >= k /\ (Len(all) >= no + k \/ Len(all) >= Window)
  <2>1. /\ p \in Texts /\ old \in Seq(Texts) /\ s \in Nat /\ EndsAt(old, p, s)
        /\ more \in Seq(Texts) /\ Len(more) <= Window /\ s + Len(more) <= Len(p)
        /\ \A i \in 1..Len(more) : more[i] = SubSeq(p, 1, s + i)
    BY <1>1, <1>2, <1>5, <1>9
  <2>2. /\ all \in Seq(Texts) /\ Len(all) \in Nat /\ EndsAt(all, p, s + Len(more))
        /\ Len(all) >= Len(more) /\ (Len(all) >= Len(old) + Len(more) \/ Len(all) >= Window)
    BY <2>1, EndsAtReplayed DEF all
  <2> QED BY <1>5, <2>2
<1>11. PICK na \in Nat : na = Len(all)
  BY <1>10
<1>12. na >= MinOf(Window, np)
  <2>1. na >= k /\ (na >= no + k \/ na >= Window)
    BY <1>10, <1>11
  <2>2. CASE old = <<>>
    <3>1. ~(np - nm < Window) \/ nm = 0
      BY <1>8, <2>2
    <3>2. k = MinOf(Window, np) \/ k >= Window
      BY <1>4, <1>5, <3>1 DEF MinOf
    <3> QED BY <1>4, <1>5, <1>11, <2>1, <3>2, SMTT(20) DEF MinOf
  <2>3. CASE old # <<>>
    <3>1. no >= MinOf(Window - 1, nm) /\ np - nm < Window
      BY <1>7, <2>3
    <3>2. k = np - nm
      BY <1>4, <1>5, <3>1 DEF MinOf
    <3>3. no + k >= MinOf(Window, np)
      BY <1>4, <1>5, <3>1, <3>2 DEF MinOf
    <3> QED BY <1>4, <1>5, <1>11, <2>1, <3>3, SMTT(20) DEF MinOf
  <2> QED BY <2>2, <2>3
<1> QED BY <1>3, <1>5, <1>10, <1>11, <1>12 DEF p

(* The tail of the prompt is exact.                                        *)
LEMMA PromptTailExact ==
  ASSUME TInv, PromptTails, NEW r \in Request, seq[r].stage = "primed"
  PROVE  SoundTails(TailsAfterFirst(r))
<1>1. EInv /\ tails \in Seq(TailEntry) /\ SoundTails(tails)
  BY DEF TInv, FInv, EInv, OwnInv, ExecTypeOK
<1>2. CASE TailsAfterFirst(r) = tails
  BY <1>1, <1>2
<1>3. CASE /\ seq[r].drafting /\ PromptTail(r).rows # <<>>
           /\ PromptTail(r) \in TailEntry
           /\ TailsAfterFirst(r) = TailInsert(tails, PromptTail(r))
  <2> DEFINE p == seq[r].prompt
             rows == FirstReplayed(r).rows
             e == PromptTail(r)
  <2>1. /\ rows \in Seq(Texts) /\ Len(rows) > 0 /\ Len(rows) \in Nat
        /\ EndsAt(rows, p, Len(p)) /\ Len(rows) >= MinOf(Window, Len(p))
    BY <1>3, FirstReplayedExact
  <2>2. /\ p \in Texts /\ p # <<>> /\ Len(p) \in Nat
    BY <1>1, RequestTypes DEF EInv, OwnInv, Sound
  <2>3. /\ Front(p) \in Texts /\ Len(Front(p)) = Len(p) - 1 /\ Front(p) \sqsubseteq p /\ Len(p) > 0
    BY <2>2, FrontText
  <2>4. /\ Len(p) - 1 \in Nat /\ Front(rows) \in Seq(Texts) /\ Len(Front(rows)) = Len(rows) - 1
        /\ EndsAt(Front(rows), p, Len(p) - 1)
    BY <2>1, <2>2, EndsAtFront
  <2>5. e.key = Front(p) /\ e.rows = Front(rows)
    BY DEF PromptTail
  <2> HIDE DEF p, rows, e
  <2>6. EndsAt(Front(rows), Front(p), Len(Front(p)))
    <3>1. Len(Front(p)) \in Nat /\ Len(Front(p)) <= Len(Front(p))
      BY <2>3, <2>4
    <3> QED BY <2>2, <2>3, <2>4, <3>1, EndsAtOther
  <2>7. Len(Front(rows)) >= MinOf(Window - 1, Len(Front(p)))
    <3>1. Window \in Nat /\ Window > 0
      BY ExecutorAssumption DEF ExecutorAssumption
    <3> QED BY <2>1, <2>2, <2>3, <2>4, <3>1 DEF MinOf
  <2>8. TailExact(e)
    BY <1>3, <2>5, <2>6, <2>7 DEF TailExact, e
  <2> QED BY <1>1, <1>3, <2>8, InsertKeepsTails DEF e
<1> QED BY <1>1, <1>2, <1>3, PromptTailType

-----------------------------------------------------------------------------
(* The steps *)

(* A request left alone keeps its draft rows, and they their text. *)
LEMMA DraftKept ==
  ASSUME NEW q, DraftExact(q), seq'[q] = seq[q], draft'[q] = draft[q], matched'[q] = matched[q]
  PROVE  DraftExact(q)'
BY DEF DraftExact, Generated, Near

(* A request in no pass has no draft rows to speak of. *)
LEMMA DraftUnused ==
  ASSUME NEW q, seq'[q].stage \notin Passing
  PROVE  DraftExact(q)'
BY DEF DraftExact, Passing

(* The tail that is restored ends where the recomputed suffix starts.      *)
LEMMA PrepareExact ==
  ASSUME TInv, PromptTails, NEW r \in Request, Prepare(r)
  PROVE  Alone(r) /\ DraftExact(r)' /\ SoundTails(tails')
<1>1. /\ seq \in [Request -> Sequence] /\ draft \in [Request -> DraftCache]
      /\ EInv /\ AlignedOK(r) /\ SoundTails(tails) /\ tails \in Seq(TailEntry)
  BY StateFunctions DEF TInv, FInv, EInv, OwnInv, ExecTypeOK
<1>2. /\ seq' = [seq EXCEPT ![r].stage = "primed"] /\ matched' = matched
      /\ seq[r].stage = "bound" /\ seq[r].text = seq[r].prompt
  BY <1>1 DEF Prepare, vars, EInv, OwnInv, Sound, Opening
<1>3. PICK d \in DraftCache :
        /\ draft' = [draft EXCEPT ![r] = d] \/ (draft' = draft /\ d = draft[r])
        /\ \/ d.context = 0 /\ d.rows = <<>> /\ tails' = tails
           \/ \E e \in Elems(tails) :
                /\ seq[r].drafting /\ Near(r)
                /\ e.key = matched[r] /\ d.context = Len(e.key) /\ d.rows = e.rows
                /\ tails' = TailInsert(Without(tails, e.key), e)
        /\ seq[r].drafting /\ d.rows = <<>> =>
             \/ ~Near(r) \/ matched[r] \notin TailKeys
             \/ \E e \in Elems(tails) : e.rows = <<>>
  BY <1>1, PreparedDraft
<1>4. /\ seq'[r].stage = "primed" /\ seq'[r].drafting = seq[r].drafting
      /\ seq'[r].prompt = seq[r].prompt /\ seq'[r].text = seq[r].prompt
      /\ draft'[r] = d /\ matched'[r] = matched[r]
  <2>1. seq[r] \in Sequence
    BY <1>1
  <2>2. seq'[r] = [seq[r] EXCEPT !.stage = "primed"]
    BY <1>1, <1>2
  <2>3. draft'[r] = d
    BY <1>1, <1>3
  <2> QED BY <1>2, <2>1, <2>2, <2>3 DEF Sequence
<1>5. Alone(r)
  BY <1>1, <1>2, <1>3 DEF Alone
<1>6. Near(r)' <=> Near(r)
  BY <1>4 DEF Near
<1>7. SoundTails(tails')
  BY <1>1, <1>3, RefreshKeepsTails
<1>8. seq[r].drafting /\ d.rows = <<>> => ~Near(r) \/ matched[r] = <<>>
  <2>1. \A e \in Elems(tails) : e.rows # <<>>
    BY <1>1 DEF SoundTails, TailExact
  <2>2. seq[r].drafting => matched[r] \in TailKeys \cup {<<>>}
    BY <1>1, <1>2 DEF AlignedOK
  <2> QED BY <1>3, <2>1, <2>2
<1>9. d.rows # <<>> =>
        /\ EndsAt(d.rows, seq[r].prompt, d.context)
        /\ Len(d.rows) >= MinOf(Window - 1, d.context)
        /\ d.context = Len(matched[r]) /\ Near(r)
  <2> SUFFICES ASSUME d.rows # <<>>
               PROVE  /\ EndsAt(d.rows, seq[r].prompt, d.context)
                      /\ Len(d.rows) >= MinOf(Window - 1, d.context)
                      /\ d.context = Len(matched[r]) /\ Near(r)
    OBVIOUS
  <2>1. PICK e \in Elems(tails) :
          /\ Near(r) /\ e.key = matched[r] /\ d.context = Len(e.key) /\ d.rows = e.rows
    BY <1>3
  <2>2. TailExact(e)
    BY <1>1 DEF SoundTails
  <2>3. e \in TailEntry
    BY <1>1 DEF Elems
  <2>4. r \in active => matched[r] \sqsubseteq seq[r].prompt /\ Len(matched[r]) < Len(seq[r].prompt)
    BY <1>1 DEF EInv, OwnInv, Backed
  <2>5. r \notin active => matched[r] = <<>>
    BY <1>1 DEF EInv, IInv, IdleHandles
  <2>6. /\ seq[r].prompt \in Texts /\ Len(seq[r].prompt) \in Nat /\ matched[r] \in Seq(Token)
        /\ seq[r].prompt \in Seq(Token) /\ Len(matched[r]) \in Nat
    BY <1>1, RequestTypes, TextsType
  <2>7. matched[r] \sqsubseteq seq[r].prompt /\ Len(matched[r]) <= Len(seq[r].prompt)
    <3>1. CASE r \in active
      BY <2>4, <2>6, <3>1
    <3>2. CASE r \notin active
      BY <2>5, <2>6, <3>2, PrefixReflexive
    <3> QED BY <3>1, <3>2
  <2>8. EndsAt(e.rows, seq[r].prompt, Len(e.key))
    <3>1. /\ e.key \in Texts /\ e.rows \in Seq(Texts) /\ Len(e.key) \in Nat
          /\ EndsAt(e.rows, e.key, Len(e.key)) /\ Len(e.key) <= Len(seq[r].prompt)
          /\ e.key \sqsubseteq seq[r].prompt
      BY <2>1, <2>2, <2>3, <2>6, <2>7 DEF TailEntry, TailExact
    <3> QED BY <2>6, <3>1, EndsAtOther
  <2> QED BY <2>1, <2>2, <2>8 DEF TailExact
<1>10. DraftExact(r)'
  BY <1>4, <1>6, <1>8, <1>9 DEF DraftExact
<1> QED BY <1>5, <1>7, <1>10

(* A pass that fails leaves the rows as they were or ahead of the text.    *)
LEMMA PassFailsExact ==
  ASSUME TInv, NEW r \in Request, PassFails(r)
  PROVE  Alone(r) /\ DraftExact(r)'
<1>1. /\ seq \in [Request -> Sequence] /\ draft \in [Request -> DraftCache]
      /\ FInv /\ EInv /\ DraftExact(r)
  BY StateFunctions DEF TInv, FInv
<1>2. /\ seq' = [seq EXCEPT ![r].stage = "failed"] /\ matched' = matched
      /\ seq[r].stage \in Passing /\ InPass(r)
  BY DEF PassFails, vars, InPass, Passing
<1>3. PICK d \in DraftsLeft(r) : draft' = [draft EXCEPT ![r] = d]
  BY DEF PassFails
<1>4. /\ seq'[r].stage = "failed" /\ seq'[r].text = seq[r].text /\ seq'[r].done = seq[r].done
      /\ draft'[r] = d
  BY <1>1, <1>2, <1>3 DEF Sequence
<1>5. Alone(r)
  BY <1>1, PassFailsFollows
<1>6. CASE d = draft[r]
  BY <1>1, <1>2, <1>4, <1>5, <1>6 DEF DraftExact
<1>7. CASE d.context \in Nat /\ Len(seq[r].done) < d.context
  <2>1. ~(d.context <= Len(seq[r].done))
    BY <1>1, <1>7, RequestTypes
  <2> QED BY <1>4, <1>5, <2>1 DEF DraftExact
<1> QED BY <1>1, <1>2, <1>6, <1>7, DraftAheadOrKept

(* The first pass replays the rows up to the end of the prompt.            *)
LEMMA FirstPassExact ==
  ASSUME TInv, PromptTails, NEW r \in Request, NEW t \in Token, FirstPass(r, t)
  PROVE  Alone(r) /\ DraftExact(r)' /\ SoundTails(tails')
<1> DEFINE p == seq[r].prompt
           a == [seq[r] EXCEPT !.text = Append(@, t), !.done = p]
           s == Settled(r, a)
           d == FirstReplayed(r)
<1>1. /\ seq \in [Request -> Sequence] /\ draft \in [Request -> DraftCache] /\ Follows(r)
      /\ FInv /\ EInv
  BY StateFunctions DEF TInv, FInv, AllFollow
<1>2. /\ seq[r].stage = "primed" /\ seq' = [seq EXCEPT ![r] = s] /\ matched' = matched
      /\ draft' = [draft EXCEPT ![r] = d] /\ tails' = TailsAfterFirst(r) /\ s.text \in Texts
  BY DEF FirstPass, vars
<1>3. SoundTails(tails') /\ Alone(r)
  BY <1>1, <1>2, PromptTailExact, FirstPassFollows
<1>4. /\ seq[r].text = p /\ p \in Texts /\ p \in Seq(Token) /\ Len(p) \in Nat
  BY <1>1, <1>2, RequestTypes, TextsType DEF EInv, OwnInv, Sound, Opening
<1>5. /\ s.text = Append(p, t) /\ s.drafting = seq[r].drafting /\ s.stage \in {"ready", "spent"}
  <2>1. seq[r] \in Sequence
    BY <1>1
  <2>2. a.text = Append(p, t) /\ a.drafting = seq[r].drafting
    BY <1>4, <2>1 DEF Sequence
  <2> QED BY <2>1, <2>2 DEF Settled, Sequence
<1> HIDE DEF s, d, p
<1>6. seq'[r] = s /\ draft'[r] = d /\ matched'[r] = matched[r]
  BY <1>1, <1>2
<1>7. CASE seq[r].drafting
  <2>1. /\ d.rows \in Seq(Texts) /\ Len(d.rows) > 0 /\ Len(d.rows) \in Nat
        /\ d.context = Len(p) /\ EndsAt(d.rows, p, Len(p)) /\ Len(d.rows) >= MinOf(Window, Len(p))
    BY <1>2, <1>7, FirstReplayedExact DEF p, d
  <2>2. p \sqsubseteq s.text /\ Len(s.text) = Len(p) + 1
    BY <1>4, <1>5 DEF \sqsubseteq
  <2>3. EndsAt(d.rows, s.text, d.context)
    <3>1. Len(p) <= Len(s.text)
      BY <1>4, <2>2
    <3> QED BY <1>2, <1>4, <2>1, <2>2, <3>1, EndsAtOther
  <2>4. Len(d.rows) >= MinOf(Window - 1, d.context)
    <3>1. Window \in Nat
      BY ExecutorAssumption DEF ExecutorAssumption
    <3> QED BY <1>4, <2>1, <3>1 DEF MinOf
  <2>5. d.rows # <<>> /\ Len(d.rows) >= MinOf(Window, d.context)
    BY <2>1
  <2> QED BY <1>3, <1>5, <1>6, <2>3, <2>4, <2>5 DEF DraftExact
<1>8. CASE ~seq[r].drafting
  <2>1. d = draft[r] /\ draft[r].rows = <<>>
    BY <1>1, <1>2, <1>8 DEF d, FirstReplayed, Follows, Passing
  <2> QED BY <1>3, <1>5, <1>6, <1>8, <2>1 DEF DraftExact
<1> QED BY <1>7, <1>8

(* Rows that filled the window still do when n more have come. *)
LEMMA WindowFills ==
  ASSUME NEW na \in Nat, NEW no \in Nat, NEW n \in Nat, NEW c \in Nat, NEW w \in Nat,
         n >= 1, n <= w, no >= MinOf(w, c), na >= n, na >= no + n \/ na >= w
  PROVE  na >= 1 /\ na >= MinOf(w, c + n) /\ na >= MinOf(w - 1, c + n)
BY DEF MinOf

(* A later pass replays what it processed, unless it was the last.         *)
LEMMA NextPassExact ==
  ASSUME TInv, PromptTails, NEW r \in Request, NEW ids \in Texts, NextPass(r, ids)
  PROVE  Alone(r) /\ DraftExact(r)' /\ tails' = tails
<1> DEFINE a == [seq[r] EXCEPT !.text = ids, !.done = Front(ids)]
           s == Settled(r, a)
           more == RowsOf(ids, Len(seq[r].done), Len(Front(ids)))
           old == draft[r].rows
           all == Rolled(old, Len(more)) \o more
<1>1. /\ seq \in [Request -> Sequence] /\ draft \in [Request -> DraftCache] /\ Follows(r)
      /\ FInv /\ EInv /\ DraftExact(r)
  BY StateFunctions DEF TInv, FInv, AllFollow
<1>2. /\ seq[r].stage = "ready" /\ seq' = [seq EXCEPT ![r] = s] /\ matched' = matched
      /\ tails' = tails
  BY DEF NextPass, vars
<1>3. /\ s.text = ids /\ s.drafting = seq[r].drafting /\ s.stage \in {"ready", "spent"}
      /\ s.prompt = seq[r].prompt /\ s.budget = seq[r].budget
  <2>1. seq[r] \in Sequence
    BY <1>1
  <2>2. /\ a.text = ids /\ a.drafting = seq[r].drafting
        /\ a.prompt = seq[r].prompt /\ a.budget = seq[r].budget
    BY <2>1 DEF Sequence
  <2> QED BY <2>1, <2>2 DEF Settled, Sequence
<1> HIDE DEF s
<1>4. PICK d \in DraftCache :
        /\ draft' = [draft EXCEPT ![r] = d]
        /\ \/ d = draft[r] /\ ~(Drafting(r) /\ Len(ids) - Len(seq[r].prompt) < seq[r].budget)
           \/ d = Replayed(draft[r], draft[r].context, more) /\ Drafting(r)
  BY <1>1, NextPassDraft
<1>5. /\ seq'[r] = s /\ draft'[r] = d
  BY <1>1, <1>2, <1>4
<1>6. Alone(r)
  BY <1>1, NextPassFollows
<1>7. PICK n \in 1..Window :
        /\ Len(ids) = Len(seq[r].text) + n /\ Len(Front(ids)) = Len(seq[r].done) + n
        /\ Generated(r) \in Nat /\ Generated(r) + n <= seq[r].budget
        /\ Generated(r) + n = Len(ids) - Len(seq[r].prompt)
        /\ seq[r].text \sqsubseteq ids /\ Front(ids) \sqsubseteq ids
        /\ more \in Seq(Texts) /\ Len(more) = n
        /\ \A i \in 1..n : more[i] = SubSeq(ids, 1, Len(seq[r].done) + i)
  BY <1>1, NextPassFacts DEF NextPass
<1> HIDE DEF more
<1>8. Window \in Nat /\ n \in Nat /\ n >= 1 /\ n <= Window
  BY <1>7, ExecutorAssumption DEF ExecutorAssumption
<1>9. PICK ld \in Nat, lt \in Nat, li \in Nat, bu \in Nat, g \in Nat, c \in Nat, no \in Nat :
        /\ ld = Len(seq[r].done) /\ lt = Len(seq[r].text) /\ li = Len(ids)
        /\ bu = seq[r].budget /\ g = Generated(r) /\ c = draft[r].context /\ no = Len(old)
        /\ li = lt + n /\ g + n <= bu /\ ld + n <= li
  <2>1. /\ Len(seq[r].done) \in Nat /\ Len(seq[r].text) \in Nat /\ seq[r].budget \in Nat
        /\ draft[r].context \in Nat /\ Len(old) \in Nat
    BY <1>1, RequestTypes
  <2>2. Len(ids) \in Nat /\ Len(seq[r].done) + n <= Len(ids)
    BY <1>7, TextsType DEF \sqsubseteq
  <2> QED BY <1>7, <2>1, <2>2
<1>10. g < bu /\ Generated(r)' = g + n
  <2>1. Generated(r)' = g + n
    BY <1>3, <1>5, <1>7, <1>9 DEF Generated
  <2> QED BY <1>8, <1>9, <2>1
<1>11. CASE ~seq[r].drafting
  <2>1. d = draft[r] /\ draft[r].rows = <<>>
    BY <1>1, <1>2, <1>4, <1>11 DEF Drafting, Follows, Passing
  <2> QED BY <1>2, <1>3, <1>5, <1>6, <1>11, <2>1 DEF DraftExact
<1>12. CASE seq[r].drafting
  <2>1. old # <<>> /\ EndsAt(old, seq[r].text, c) /\ no >= MinOf(Window, c) /\ c = ld
        /\ no >= MinOf(Window - 1, c)
    <3>1. draft[r].context <= Len(seq[r].done)
      BY <1>1, <1>2 DEF EInv, OwnInv, Sound, Resident
    <3> QED BY <1>1, <1>2, <1>9, <1>10, <1>12, <3>1 DEF DraftExact, Follows, Passing
  <2>2. EndsAt(old, ids, c)
    <3>1. seq[r].text \in Texts /\ old \in Seq(Texts) /\ c <= Len(ids)
      <4>1. c <= li
        <5>1. c \in Nat /\ n \in Nat /\ li \in Nat /\ c = ld /\ ld + n <= li
          BY <1>8, <1>9, <2>1
        <5> QED BY <5>1
      <4> QED BY <1>1, <1>9, <4>1, RequestTypes
    <3> QED BY <1>7, <1>9, <2>1, <3>1, EndsAtOther
  <2> HIDE DEF old
  <2>3. CASE d = draft[r] /\ ~(Drafting(r) /\ g + n < bu)
    <3>1. ~(Generated(r)' < seq'[r].budget)
      <4>1. bu - g <= 1 \/ ~(g + n < bu)
        BY <1>9, <1>12, <2>3 DEF Drafting
      <4>2. g + n = bu
        <5>1. g \in Nat /\ bu \in Nat /\ n \in Nat /\ n >= 1 /\ g + n <= bu
          BY <1>8, <1>9
        <5> QED BY <4>1, <5>1
      <4> QED BY <1>3, <1>5, <1>9, <1>10, <4>2
    <3>2. /\ d.rows = old /\ d.context = c
      BY <1>9, <2>3 DEF old
    <3>3. Len(d.rows) >= MinOf(Window - 1, d.context)
      BY <1>9, <2>1, <3>2
    <3> QED BY <1>2, <1>3, <1>5, <1>6, <2>1, <2>2, <3>1, <3>2, <3>3 DEF DraftExact
  <2>4. CASE d = Replayed(draft[r], draft[r].context, more)
    <3>1. /\ d.context = c + n /\ d.rows = all
      <4>1. draft[r] \in DraftCache /\ draft[r].context \in Nat /\ Len(more) <= Window
        BY <1>1, <1>7, <1>8, <1>9
      <4> QED BY <1>7, <1>9, <2>4, <4>1, ReplayedType DEF old
    <3>2. /\ all \in Seq(Texts) /\ Len(all) \in Nat /\ EndsAt(all, ids, c + n)
          /\ Len(all) >= n /\ (Len(all) >= no + n \/ Len(all) >= Window)
      <4>1. /\ old \in Seq(Texts) /\ Len(more) <= Window /\ c + Len(more) <= Len(ids)
            /\ \A i \in 1..Len(more) : more[i] = SubSeq(ids, 1, c + i)
        <5>1. old \in Seq(Texts)
          BY <1>1, RequestTypes DEF old
        <5> QED BY <1>7, <1>8, <1>9, <2>1, <5>1
      <4>2. /\ all \in Seq(Texts) /\ Len(all) \in Nat /\ EndsAt(all, ids, c + Len(more))
            /\ Len(all) >= Len(more) /\ (Len(all) >= Len(old) + Len(more) \/ Len(all) >= Window)
        BY <1>7, <2>2, <4>1, EndsAtReplayed
      <4> QED BY <1>7, <1>9, <4>2
    <3> HIDE DEF all
    <3>3. PICK na \in Nat : na = Len(all)
      BY <3>2
    <3>4. na >= 1 /\ na >= MinOf(Window, c + n) /\ na >= MinOf(Window - 1, c + n)
      <4>1. na >= n /\ (na >= no + n \/ na >= Window)
        BY <3>2, <3>3
      <4>2. /\ na \in Nat /\ n \in Nat /\ no \in Nat /\ c \in Nat /\ Window \in Nat
            /\ n >= 1 /\ n <= Window /\ no >= MinOf(Window, c)
        BY <1>8, <1>9, <2>1, <3>3
      <4> QED BY <4>1, <4>2, WindowFills
    <3>5. /\ d.rows # <<>> /\ Len(d.rows) >= MinOf(Window, d.context)
          /\ Len(d.rows) >= MinOf(Window - 1, d.context)
          /\ EndsAt(d.rows, ids, d.context)
      BY <3>1, <3>2, <3>3, <3>4
    <3> QED BY <1>2, <1>3, <1>5, <1>6, <3>5 DEF DraftExact
  <2>5. g + n = Len(ids) - Len(seq[r].prompt) /\ bu = seq[r].budget
    BY <1>7, <1>9
  <2> QED BY <1>4, <2>3, <2>4, <2>5
<1> QED BY <1>2, <1>11, <1>12

(* The tail that a finished sequence leaves is that of the published text. *)
LEMMA FinishExact ==
  ASSUME TInv, NEW r \in Request, Ends(r)
  PROVE  SoundTails(tails')
<1>1. /\ EInv /\ SoundTails(tails) /\ tails \in Seq(TailEntry) /\ DraftExact(r)
  BY DEF TInv, FInv, EInv, OwnInv, ExecTypeOK
<1>2. /\ seq[r].stage \in {"ready", "failed", "spent"}
      /\ tails' = IF Retains(r) THEN TailInsert(tails, LastTail(r)) ELSE tails
  BY DEF Ends, Finish
<1>3. CASE ~Retains(r)
  BY <1>1, <1>2, <1>3
<1>4. CASE Retains(r)
  <2> DEFINE d == draft[r]
             key == SubSeq(seq[r].done, 1, d.context)
             e == LastTail(r)
  <2>1. e.key = key /\ e.rows = d.rows /\ d.rows # <<>> /\ seq[r].stage \in Passing
    BY <1>2, <1>4 DEF Retains, LastTail, Resident, Passing
  <2>2. /\ seq[r].text \in Texts /\ seq[r].done \in Texts /\ d.rows \in Seq(Texts)
        /\ d.context \in 0..Len(seq[r].done) /\ d.context \in Nat
        /\ seq[r].done \sqsubseteq seq[r].text
    <3>1. d.context <= Len(seq[r].done) /\ seq[r].done \sqsubseteq seq[r].text
      BY <1>1, <1>4, <2>1 DEF EInv, OwnInv, Sound, Retains, Passing
    <3> QED BY <1>1, <3>1, RequestTypes
  <2>3. /\ key \in Texts /\ key \in Seq(Token) /\ Len(key) = d.context /\ key \sqsubseteq seq[r].text
    <3>1. key \in Texts /\ key \in Seq(Token) /\ seq[r].text \in Seq(Token) /\ seq[r].done \in Seq(Token)
      BY <2>2, TextsType
    <3>2. Len(key) = d.context /\ key \sqsubseteq seq[r].done
      BY <2>2, <3>1, SubSeqPrefix
    <3> QED BY <2>2, <3>1, <3>2, PrefixTransitive
  <2>4. EndsAt(d.rows, seq[r].text, d.context) /\ Len(d.rows) >= MinOf(Window - 1, d.context)
    BY <1>1, <1>4, <2>1 DEF DraftExact, Retains
  <2>5. e \in TailEntry
    <3>1. e = [key |-> key, rows |-> d.rows]
      BY DEF LastTail
    <3> QED BY <2>2, <2>3, <3>1 DEF TailEntry
  <2> HIDE DEF key, e
  <2>6. EndsAt(d.rows, key, d.context)
    <3>1. d.context <= Len(key)
      BY <2>2, <2>3
    <3> QED BY <2>2, <2>3, <2>4, <3>1, EndsAtOther
  <2>7. TailExact(e)
    BY <2>1, <2>3, <2>4, <2>6 DEF TailExact
  <2> QED BY <1>1, <1>2, <1>4, <2>5, <2>7, InsertKeepsTails DEF e
<1> QED BY <1>3, <1>4

(* Every step keeps tails and draft rows exact. *)
LEMMA TInvStep == PromptTails /\ TInv /\ [ExecNext]_execVars => TInv'
<1> SUFFICES ASSUME PromptTails, TInv, [ExecNext]_execVars
             PROVE  SoundTails(tails)' /\ \A q \in Request : DraftExact(q)'
  BY FInvStep, AInvStep DEF TInv, FInv, AInv
<1>1. /\ EInv /\ FInv /\ SoundTails(tails) /\ \A q \in Request : DraftExact(q)
  BY DEF TInv, FInv
<1>2. ASSUME NEW r \in Request, Alone(r), DraftExact(r)' PROVE \A q \in Request : DraftExact(q)'
  BY <1>1, <1>2, DraftKept DEF Alone
<1>3. ASSUME NEW r \in Request, Opens(r) \/ (GoesOn(r) /\ ~Prepare(r)) \/ PassBreaks(r) \/ Ends(r)
      PROVE  \A q \in Request : DraftExact(q)'
  <2>1. Alone(r) /\ seq'[r].stage \notin Passing
    BY <1>1, <1>3, OutOfPass DEF Opens, GoesOn, Ends
  <2> QED BY <1>2, <2>1, DraftUnused
<1>4. ASSUME NEW r \in Request, Opens(r) \/ (GoesOn(r) /\ ~Prepare(r)) \/ PassFails(r)
      PROVE  SoundTails(tails)'
  <2>1. tails' = tails
    BY <1>4 DEF Opens, Probe, TakeLanePlain, GoesOn, Realign, RealignRefused, DropMatch,
                TakeLane, NoLane, NoDraftSlot, PassFails
  <2> QED BY <1>1, <2>1
<1>5. ASSUME NEW r \in Request, PassBreaks(r) PROVE SoundTails(tails)'
  <2>1. tails' = tails \/ (seq[r].stage = "primed" /\ tails' = TailsAfterFirst(r))
    BY <1>5 DEF PassBreaks
  <2> QED BY <1>1, <2>1, PromptTailExact
<1>6. ASSUME NEW r \in Request, Prepare(r) \/ \E t \in Token : FirstPass(r, t)
      PROVE  SoundTails(tails)' /\ \A q \in Request : DraftExact(q)'
  <2>1. Alone(r) /\ DraftExact(r)' /\ SoundTails(tails')
    BY <1>6, PrepareExact, FirstPassExact
  <2> QED BY <1>2, <2>1
<1>7. ASSUME NEW r \in Request, NEW ids \in Texts, NextPass(r, ids)
      PROVE  SoundTails(tails)' /\ \A q \in Request : DraftExact(q)'
  <2>1. Alone(r) /\ DraftExact(r)' /\ tails' = tails
    BY <1>7, NextPassExact
  <2> QED BY <1>1, <1>2, <2>1
<1>8. ASSUME NEW r \in Request, PassFails(r)
      PROVE  \A q \in Request : DraftExact(q)'
  BY <1>2, <1>8, PassFailsExact
<1>9. CASE Quiet
  <2>1. UNCHANGED <<seq, draft, tails, matched>>
    BY <1>9 DEF Quiet, CopyBoundary, Extend, ProbeRefused, execVars, own, vars, TakeBoundaryCopy,
                EnsureMaterialized, ReserveRefused, TakePage, EvictOneLeaf
  <2> QED BY <1>1, <2>1, DraftKept
<1>10. ASSUME NEW r \in Request, Opens(r) \/ GoesOn(r) \/ Passes(r) \/ Ends(r)
       PROVE  SoundTails(tails)' /\ \A q \in Request : DraftExact(q)'
  BY <1>3, <1>4, <1>5, <1>6, <1>7, <1>8, <1>10, FinishExact DEF Passes
<1> QED BY <1>9, <1>10, ExecCases

(* Tails and draft rows are those of their texts, in the prompt-swa mode.   *)
THEOREM TailInvariance == PromptTails /\ ExecSpec => []TInv
<1>1. ExecInit => TInv
  <2> SUFFICES ASSUME ExecInit PROVE TInv
    OBVIOUS
  <2>1. FInv
    BY ExecInitInv DEF FInv, AllFollow, Follows, ExecInit, Idle, Passing
  <2>2. \A r \in Request : AlignedOK(r) /\ DraftExact(r)
    BY DEF AlignedOK, DraftExact, ExecInit, Idle, Passing
  <2>3. Elems(tails) = {} /\ DOMAIN tails = {} /\ tails = <<>> /\ Len(tails) = 0
    BY DEF Elems, ExecInit
  <2>4. Bulk(tails, 1) <= TailRows
    <3>1. tails \in Seq(TailEntry) /\ 1 = Len(tails) + 1
      BY <2>3
    <3>2. 1 \in 1..(Len(tails) + 1)
      BY <2>3
    <3>3. Bulk(tails, 1) = 0
      BY <3>1, <3>2, BulkType
    <3> QED BY <3>3, ExecutorAssumption DEF ExecutorAssumption
  <2> QED BY <2>1, <2>2, <2>3, <2>4 DEF TInv, SoundTails, DistinctKeys
<1>2. PromptTails /\ TInv /\ [ExecNext]_execVars => TInv'
  BY TInvStep
<1>3. CASE PromptTails
  BY <1>1, <1>2, <1>3, PTL DEF ExecSpec
<1> QED BY <1>3

(* An entry of the tail cache holds the rows of the prefix it is filed      *)
(* under, there is one for each prefix, and they fit the capacity.          *)
THEOREM TailsHoldTheirPrefix == PromptTails /\ ExecSpec => []TailsAreExact
<1>1. TInv => TailsAreExact
  <2> SUFFICES ASSUME TInv PROVE TailsAreExact
    OBVIOUS
  <2>1. SoundTails(tails) /\ tails \in Seq(TailEntry)
    BY DEF TInv, FInv, EInv, OwnInv, ExecTypeOK
  <2>2. ASSUME NEW e \in Elems(tails)
        PROVE  /\ Len(e.rows) \in 1..Len(e.key)
               /\ e.rows = RowsOf(e.key, Len(e.key) - Len(e.rows), Len(e.key))
    <3>1. e \in TailEntry
      BY <2>1 DEF Elems
    <3>2. /\ e.key \in Texts /\ e.rows \in Seq(Texts) /\ Len(e.rows) \in Nat /\ Len(e.key) \in Nat
      BY <3>1, TextsType DEF TailEntry
    <3>3. e.rows # <<>> /\ EndsAt(e.rows, e.key, Len(e.key))
      BY <2>1 DEF SoundTails, TailExact
    <3>4. Len(e.rows) # 0 /\ Len(e.rows) <= Len(e.key)
      BY <3>2, <3>3 DEF EndsAt
    <3>5. e.rows = RowsOf(e.key, Len(e.key) - Len(e.rows), Len(e.key))
      BY <3>2, <3>3, EndsAtRows
    <3>6. Len(e.rows) \in 1..Len(e.key)
      BY <3>2, <3>4
    <3> QED BY <3>5, <3>6
  <2> QED BY <2>1, <2>2 DEF TailsAreExact, SoundTails, DistinctKeys
<1> QED BY <1>1, TailInvariance, PTL

(* The draft model continues the text the target model is at, with a full   *)
(* window after every replay, and it is ahead only after a failed pass.     *)
THEOREM DraftContinuesTarget == PromptTails /\ ExecSpec => []DraftMeetsTarget
<1>1. TInv => DraftMeetsTarget
  <2> SUFFICES ASSUME TInv, NEW r \in Request, seq[r].stage \in Passing, draft[r].rows # <<>>
               PROVE  /\ draft[r].context <= Len(seq[r].done) \/ seq[r].stage = "failed"
                      /\ draft[r].context <= Len(seq[r].done) =>
                           /\ Len(draft[r].rows) <= draft[r].context
                           /\ draft[r].rows = RowsOf(seq[r].text,
                                                     draft[r].context - Len(draft[r].rows),
                                                     draft[r].context)
                      /\ seq[r].stage = "primed" => draft[r].context = Len(matched[r])
                      /\ seq[r].stage = "ready" /\ Drafting(r) =>
                           /\ draft[r].context = Len(seq[r].done)
                           /\ Len(draft[r].rows) >= MinOf(Window, draft[r].context)
    BY DEF DraftMeetsTarget, Passing
  <2>1. EInv /\ Follows(r) /\ DraftExact(r)
    BY DEF TInv, FInv, AllFollow
  <2>2. /\ seq[r].text \in Texts /\ draft[r].rows \in Seq(Texts) /\ draft[r].context \in Nat
        /\ seq[r].budget \in Nat /\ Generated(r) \in Int
    BY <2>1, RequestTypes DEF Generated
  <2>3. draft[r].context <= Len(seq[r].done) \/ seq[r].stage = "failed"
    BY <2>1 DEF EInv, OwnInv, Sound, Resident, Passing
  <2>4. draft[r].context <= Len(seq[r].done) =>
          /\ Len(draft[r].rows) <= draft[r].context
          /\ draft[r].rows = RowsOf(seq[r].text, draft[r].context - Len(draft[r].rows),
                                    draft[r].context)
    <3> SUFFICES ASSUME draft[r].context <= Len(seq[r].done)
                 PROVE  /\ Len(draft[r].rows) <= draft[r].context
                        /\ draft[r].rows = RowsOf(seq[r].text,
                                                  draft[r].context - Len(draft[r].rows),
                                                  draft[r].context)
      OBVIOUS
    <3>1. EndsAt(draft[r].rows, seq[r].text, draft[r].context)
      BY <2>1 DEF DraftExact
    <3>2. Len(draft[r].rows) <= draft[r].context
      BY <3>1 DEF EndsAt
    <3> QED BY <2>2, <3>1, <3>2, EndsAtRows
  <2>5. seq[r].stage = "primed" => draft[r].context = Len(matched[r])
    BY <2>1, <2>3 DEF DraftExact, Passing
  <2>6. Drafting(r) => seq[r].drafting /\ Generated(r) < seq[r].budget
    BY <2>2 DEF Drafting
  <2>7. seq[r].stage = "ready" /\ Drafting(r) =>
          /\ draft[r].context = Len(seq[r].done)
          /\ Len(draft[r].rows) >= MinOf(Window, draft[r].context)
    BY <2>1, <2>6 DEF DraftExact, Follows, Passing
  <2> QED BY <2>3, <2>4, <2>5, <2>7
<1> QED BY <1>1, TailInvariance, PTL

=============================================================================
