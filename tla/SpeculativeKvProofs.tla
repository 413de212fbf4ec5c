-------------------------- MODULE SpeculativeKvProofs --------------------------
(***************************************************************************)
(* Proofs about decoding with drafts, for every prompt, budget, context and *)
(* draft width: first what each operation of the ledger does to its         *)
(* indexes, then the numbers of a cycle, then one lemma per action, and the *)
(* theorems; then the frontiers, with an invariant and a theorem of theirs. *)
(***************************************************************************)
EXTENDS SpeculativeKv, QueueLemmas, WellFoundedInduction, NaturalsInduction

-----------------------------------------------------------------------------
(* The ledger.                                                              *)

Open(W)    == {i \in DOMAIN W : W[i].state = "tentative"}
Backed(W)  == {i \in DOMAIN W : W[i].state # "discarded"}
Visible(W) == UNION {Positions(W[i]) : i \in {j \in DOMAIN W : Shows(W[j])}}

Sound(L) == L \in Ledger /\ IndexesAgree(L)

(* IndexesAgree without an order to be constructed.                         *)
LEMMA Indexed ==
  ASSUME NEW L \in Ledger
  PROVE  IndexesAgree(L) <=> /\ Sorted(L.tentative)
                             /\ ToSet(L.tentative) = Open(L.writes)
                             /\ L.blocks = Backed(L.writes)
                             /\ L.covered = Visible(L.writes)
<1>1. /\ L.tentative \in Seq(Nat)
      /\ L.writes \in Seq(Write)
  BY DEF Ledger
<1>2. DOMAIN L.writes = 1..Len(L.writes) /\ Len(L.writes) \in Nat
  BY <1>1, LenProperties
<1>3. Open(L.writes) \subseteq Nat /\ IsFiniteSet(Open(L.writes))
  <2>1. Open(L.writes) \in SUBSET (1..Len(L.writes)) /\ 1..Len(L.writes) \subseteq Nat
    BY <1>2 DEF Open
  <2>2. IsFiniteSet(1..Len(L.writes))
    BY <1>2, FS_Interval
  <2> QED BY <2>1, <2>2, FS_Subset
<1>4. L.tentative = Ascending(Open(L.writes))
        => Sorted(L.tentative) /\ ToSet(L.tentative) = Open(L.writes)
  BY <1>3, AscendingIsSorted
<1>5. Sorted(L.tentative) => L.tentative = Ascending(ToSet(L.tentative))
  BY <1>1, SortedIsAscending
<1> QED BY <1>4, <1>5 DEF IndexesAgree, Open, Backed, Visible

(* The positions of writes, one by one.                                     *)
LEMMA Seen ==
  ASSUME NEW W, NEW p
  PROVE  p \in Visible(W) <=> \E i \in DOMAIN W : Shows(W[i]) /\ p \in Positions(W[i])
BY DEF Visible

LEMMA SoundLedger ==
  ASSUME NEW L, Sound(L)
  PROVE  /\ L \in Ledger
         /\ L.writes \in Seq(Write) /\ L.tentative \in Seq(Nat)
         /\ L.blocks \in SUBSET Nat /\ L.covered \in SUBSET Nat
         /\ Sorted(L.tentative) /\ ToSet(L.tentative) = Open(L.writes)
         /\ L.blocks = Backed(L.writes)
         /\ L.covered = Visible(L.writes)
<1>1. L \in Ledger
  BY DEF Sound
<1> QED BY <1>1, Indexed DEF Ledger, Sound

LEMMA EmptyIsSound == Sound(EmptyLedger) /\ EmptyLedger.covered = {} /\ EmptyLedger.writes = <<>>
<1>1. EmptyLedger \in Ledger
  BY EmptySeq DEF EmptyLedger, Ledger
<1>2. Sorted(EmptyLedger.tentative)
  BY DEF Sorted, EmptyLedger
<1>3. ToSet(EmptyLedger.tentative) = {} /\ Open(EmptyLedger.writes) = {}
  BY DEF ToSet, EmptyLedger, Open
<1>4. Backed(EmptyLedger.writes) = {} /\ Visible(EmptyLedger.writes) = {}
  BY Seen DEF EmptyLedger, Backed
<1> QED BY <1>1, <1>2, <1>3, <1>4, Indexed DEF Sound, EmptyLedger

(* M is L with the visible writes W, which have the positions C and the     *)
(* numbers B.                                                               *)
Extends(L, W, B, C, M) ==
  /\ Sound(L) /\ W \in Seq(Write)
  /\ \A i \in DOMAIN W : W[i].state = "written"
  /\ \A p : p \in C <=> \E i \in DOMAIN W : p \in Positions(W[i])
  /\ \A b : b \in B <=> \E i \in DOMAIN W : b = Len(L.writes) + i
  /\ M \in Ledger /\ M.writes = L.writes \o W /\ M.tentative = L.tentative
  /\ M.blocks = L.blocks \union B /\ M.covered = L.covered \union C

LEMMA Recorded ==
  ASSUME NEW L, NEW W, NEW B, NEW C, NEW M, Extends(L, W, B, C, M)
  PROVE  Sound(M) /\ Open(M.writes) = Open(L.writes)
<1>0. /\ Sound(L) /\ W \in Seq(Write)
      /\ \A i \in DOMAIN W : W[i].state = "written"
      /\ \A p : p \in C <=> \E i \in DOMAIN W : p \in Positions(W[i])
      /\ \A b : b \in B <=> \E i \in DOMAIN W : b = Len(L.writes) + i
      /\ M \in Ledger /\ M.writes = L.writes \o W /\ M.tentative = L.tentative
      /\ M.blocks = L.blocks \union B /\ M.covered = L.covered \union C
  BY DEF Extends
<1> DEFINE V == L.writes \o W
           m == Len(L.writes)
<1>1. L \in Ledger /\ L.writes \in Seq(Write) /\ W \in Seq(Write)
  BY <1>0, SoundLedger
<1>2. /\ V \in Seq(Write) /\ m \in Nat
      /\ \A i \in DOMAIN V : \/ i \in DOMAIN L.writes /\ V[i] = L.writes[i]
                             \/ i - m \in DOMAIN W /\ V[i] = W[i - m]
      /\ \A i \in DOMAIN L.writes : i \in DOMAIN V /\ V[i] = L.writes[i]
      /\ \A i \in DOMAIN W : m + i \in DOMAIN V /\ V[m + i] = W[i]
      /\ DOMAIN V \subseteq Nat
  <2>1. DOMAIN V \subseteq Nat
    <3>1. V \in Seq(Write)
      BY <1>1, Concatenated
    <3> HIDE DEF V
    <3>2. DOMAIN V = 1..Len(V) /\ Len(V) \in Nat
      BY <3>1, LenProperties
    <3> QED BY <3>2
  <2>2. /\ V \in Seq(Write) /\ m \in Nat
    BY <1>1, Concatenated
  <2>3. \A i \in DOMAIN V : \/ i \in DOMAIN L.writes /\ V[i] = L.writes[i]
                            \/ i - m \in DOMAIN W /\ V[i] = W[i - m]
    BY <1>1, Concatenated
  <2>4. \A i \in DOMAIN L.writes : i \in DOMAIN V /\ V[i] = L.writes[i]
    BY <1>1, Concatenated
  <2>5. \A i \in DOMAIN W : m + i \in DOMAIN V /\ V[m + i] = W[i]
    BY <1>1, Concatenated
  <2> HIDE DEF V, m
  <2> QED BY <2>1, <2>2, <2>3, <2>4, <2>5
<1>3. M.writes = V
  BY <1>0
<1> HIDE DEF V, m
<1>4. \A i \in Nat : m + (i - m) = i
  BY <1>2
<1>5. \A i \in DOMAIN W : W[i].state = "written" /\ Shows(W[i])
  BY <1>0 DEF Shows
<1>6. Open(V) = Open(L.writes)
  BY <1>2, <1>5 DEF Open
<1>7. Backed(V) = Backed(L.writes) \union B
  BY <1>0, <1>2, <1>4, <1>5 DEF Backed, m
<1>8. Visible(V) = Visible(L.writes) \union C
  <2>1. ASSUME NEW p PROVE p \in Visible(V) <=> p \in Visible(L.writes) \/ p \in C
    <3>1. p \in Visible(V) <=> \E i \in DOMAIN V : Shows(V[i]) /\ p \in Positions(V[i])
      BY Seen
    <3>2. p \in Visible(L.writes)
            <=> \E i \in DOMAIN L.writes : Shows(L.writes[i]) /\ p \in Positions(L.writes[i])
      BY Seen
    <3> QED BY <1>0, <1>2, <1>5, <3>1, <3>2
  <2> QED BY <2>1
<1> QED BY <1>0, <1>3, <1>6, <1>7, <1>8, SoundLedger, Indexed DEF Sound, V

(* One write of n positions.                                                *)
LEMMA BlockRecorded ==
  ASSUME NEW L, Sound(L), NEW start \in Nat, NEW n \in Nat \ {0}
  PROVE  LET M == RecordBlock(L, start, n)
             w == [start |-> start, count |-> n, state |-> "written"]
         IN  /\ Sound(M) /\ M.writes = L.writes \o <<w>>
             /\ Open(M.writes) = Open(L.writes)
             /\ M.covered = L.covered \union start .. start + n - 1
<1> DEFINE M == RecordBlock(L, start, n)
           w == [start |-> start, count |-> n, state |-> "written"]
           W == <<w>>
           m == Len(L.writes)
<1>1. L \in Ledger /\ L.writes \in Seq(Write) /\ m \in Nat
  BY SoundLedger, LenProperties
<1>2. w \in Write
  BY DEF Write, State
<1>3. W \in Seq(Write) /\ DOMAIN W = {1} /\ W[1] = w
  BY <1>2
<1>4. Positions(w) = start .. start + n - 1 /\ Positions(w) \in SUBSET Nat
  BY DEF Positions, End
<1> DEFINE C == Positions(w)
           B == {m + 1}
<1>5. L.writes \o W \in Seq(Write) /\ Append(L.writes, w) = L.writes \o W
  BY <1>1, <1>2, <1>3, AppendIsConcat, Concatenated
<1>6. B \in SUBSET Nat
  BY <1>1
<1>7. /\ \A b : b \in B <=> \E i \in DOMAIN W : b = m + i
      /\ \A p : p \in C <=> \E i \in DOMAIN W : p \in Positions(W[i])
      /\ \A i \in DOMAIN W : W[i].state = "written"
  BY <1>3
<1> HIDE DEF W, w, B, C
<1>8. /\ M \in Ledger /\ M.writes = L.writes \o W /\ M.tentative = L.tentative
      /\ M.blocks = L.blocks \union B /\ M.covered = L.covered \union C
  <2>1. M = [L EXCEPT !.writes  = Append(@, w),
                      !.blocks  = @ \union B,
                      !.covered = @ \union C]
    BY DEF RecordBlock, w, B, C, m
  <2> HIDE DEF M
  <2> QED BY <1>1, <1>4, <1>5, <1>6, <2>1 DEF Ledger, C
<1> HIDE DEF M, m
<1>9. Sound(M) /\ Open(M.writes) = Open(L.writes)
  <2>1. Extends(L, W, B, C, M)
    BY <1>3, <1>7, <1>8 DEF Extends, m
  <2> QED BY <2>1, Recorded
<1> QED BY <1>4, <1>8, <1>9 DEF M, W, w, C

LEMMA BlockCovers ==
  ASSUME NEW L, Sound(L), NEW start \in Nat, NEW n \in Nat \ {0}, NEW end \in Int,
         end = start + n - 1
  PROVE  RecordBlock(L, start, n).covered = L.covered \union start .. end
<1>1. L \in Ledger
  BY SoundLedger
<1> QED BY <1>1 DEF RecordBlock, Ledger, Positions, End

Rows(start, n, state) ==
  [i \in 1 .. n |-> [start |-> start + i - 1, count |-> 1, state |-> state]]

LEMMA RowsAreWrites ==
  ASSUME NEW start \in Nat, NEW n \in Nat, NEW state \in State
  PROVE  LET W == Rows(start, n, state)
         IN  /\ W \in Seq(Write) /\ DOMAIN W = 1..n /\ Len(W) = n
             /\ \A i \in 1..n : /\ W[i].start = start + i - 1 /\ W[i].count = 1
                                /\ W[i].state = state
                                /\ Positions(W[i]) = {start + i - 1}
             /\ \A p : p \in start .. start + n - 1 <=> \E i \in 1..n : p = start + i - 1
             /\ start .. start + n - 1 \in SUBSET Nat
<1> DEFINE W == Rows(start, n, state)
           w(i) == [start |-> start + i - 1, count |-> 1, state |-> state]
<1>1. \A i \in 1..n : w(i) \in Write
  BY DEF Write
<1>2. W = [i \in 1..n |-> w(i)]
  BY DEF Rows
<1>3. W \in Seq(Write) /\ DOMAIN W = 1..n
  <2> HIDE DEF w
  <2> QED BY <1>1, <1>2
<1>4. Len(W) = n
  BY <1>3, LenProperties
<1>5. \A i \in 1..n : /\ W[i].start = start + i - 1 /\ W[i].count = 1
                      /\ W[i].state = state
  BY <1>2
<1>6. ASSUME NEW i \in 1..n PROVE Positions(W[i]) = {start + i - 1}
  BY <1>5 DEF Positions, End
<1>7. ASSUME NEW p PROVE p \in start .. start + n - 1 <=> \E i \in 1..n : p = start + i - 1
  <2>1. ASSUME p \in start .. start + n - 1 PROVE \E i \in 1..n : p = start + i - 1
    <3>1. p - start + 1 \in 1..n /\ p = start + (p - start + 1) - 1
      BY <2>1
    <3> QED BY <3>1
  <2>2. ASSUME NEW i \in 1..n, p = start + i - 1 PROVE p \in start .. start + n - 1
    BY <2>2
  <2> QED BY <2>1, <2>2
<1>8. start .. start + n - 1 \in SUBSET Nat
  OBVIOUS
<1> HIDE DEF W
<1> QED BY <1>3, <1>4, <1>5, <1>6, <1>7, <1>8 DEF W

(* Visible rows, one position each.                                         *)
LEMMA RowsRecorded ==
  ASSUME NEW L, Sound(L), NEW start \in Nat, NEW n \in Nat
  PROVE  LET M == RecordRows(L, start, n)
         IN  /\ Sound(M) /\ M.writes = L.writes \o Rows(start, n, "written")
             /\ Open(M.writes) = Open(L.writes)
             /\ M.covered = L.covered \union start .. start + n - 1
<1> DEFINE M == RecordRows(L, start, n)
           W == Rows(start, n, "written")
           m == Len(L.writes)
           B == m + 1 .. m + 1 + n - 1
<1>1. L \in Ledger /\ L.writes \in Seq(Write) /\ m \in Nat
  BY SoundLedger, LenProperties
<1>2. /\ W \in Seq(Write) /\ DOMAIN W = 1..n
      /\ \A i \in 1..n : W[i].state = "written" /\ Positions(W[i]) = {start + i - 1}
      /\ \A p : p \in start .. start + n - 1 <=> \E i \in 1..n : p = start + i - 1
      /\ start .. start + n - 1 \in SUBSET Nat
  <2>1. "written" \in State
    BY DEF State
  <2>2. /\ W \in Seq(Write) /\ DOMAIN W = 1..n /\ Len(W) = n
        /\ \A i \in 1..n : /\ W[i].start = start + i - 1 /\ W[i].count = 1
                           /\ W[i].state = "written"
                           /\ Positions(W[i]) = {start + i - 1}
        /\ \A p : p \in start .. start + n - 1 <=> \E i \in 1..n : p = start + i - 1
        /\ start .. start + n - 1 \in SUBSET Nat
    BY <2>1, RowsAreWrites
  <2> HIDE DEF W
  <2> QED BY <2>2
<1>3. B \in SUBSET Nat
  BY <1>1
<1>4. ASSUME NEW b PROVE b \in B <=> \E i \in 1..n : b = m + i
  <2>1. ASSUME b \in B PROVE \E i \in 1..n : b = m + i
    <3>1. b - m \in 1..n /\ b = m + (b - m)
      BY <1>1, <2>1
    <3> QED BY <3>1
  <2>2. ASSUME NEW i \in 1..n, b = m + i PROVE b \in B
    BY <1>1, <2>2
  <2> QED BY <2>1, <2>2
<1> DEFINE C == start .. start + n - 1
<1>5. L.writes \o W \in Seq(Write)
  BY <1>1, <1>2, Concatenated
<1>6. /\ M.writes = L.writes \o W /\ M.tentative = L.tentative
      /\ M.blocks = L.blocks \union B /\ M.covered = L.covered \union C
      /\ M \in Ledger
  <2> HIDE DEF W, B, C
  <2>1. M = [L EXCEPT !.writes  = @ \o W,
                      !.blocks  = @ \union B,
                      !.covered = @ \union C]
    BY DEF RecordRows, Rows, W, B, C, m
  <2> HIDE DEF M
  <2> QED BY <1>1, <1>2, <1>3, <1>5, <2>1 DEF Ledger, C
<1> HIDE DEF M, W, m, B, C
<1>7. \A p : p \in C <=> \E i \in DOMAIN W : p \in Positions(W[i])
  <2>1. \A p : p \in C <=> \E i \in 1..n : p = start + i - 1
    BY <1>2 DEF C
  <2>2. DOMAIN W = 1..n /\ \A i \in 1..n : Positions(W[i]) = {start + i - 1}
    BY <1>2
  <2> QED BY <2>1, <2>2
<1>8. \A b : b \in B <=> \E i \in DOMAIN W : b = Len(L.writes) + i
  BY <1>2, <1>4 DEF m
<1>9. (\A i \in DOMAIN W : W[i].state = "written") /\ W \in Seq(Write)
  BY <1>2
<1>10. Sound(M) /\ Open(M.writes) = Open(L.writes)
  <2>1. Extends(L, W, B, C, M)
    BY <1>6, <1>7, <1>8, <1>9 DEF Extends
  <2> QED BY <2>1, Recorded
<1> QED BY <1>6, <1>10 DEF M, W, C

(* The open writes are one for each of the n positions from start on.       *)
OpenRows(L, start, n) ==
  /\ \A i \in Open(L.writes) : /\ L.writes[i].count = 1
                               /\ L.writes[i].start \in start .. start + n - 1
  /\ \A p \in start .. start + n - 1 : \E i \in Open(L.writes) : L.writes[i].start = p

(* Drafts and padding: nothing becomes visible, each row is open.           *)
LEMMA TentativeRecorded ==
  ASSUME NEW L, Sound(L), NEW start \in Nat, NEW n \in Nat, Open(L.writes) = {}
  PROVE  LET M == RecordTentative(L, start, n)
         IN  Sound(M) /\ M.covered = L.covered /\ OpenRows(M, start, n)
<1> DEFINE M == RecordTentative(L, start, n)
           W == Rows(start, n, "tentative")
           V == L.writes \o W
           m == Len(L.writes)
           ids == [i \in 1 .. n |-> m + i]
<1>1. /\ L \in Ledger /\ L.writes \in Seq(Write) /\ L.tentative \in Seq(Nat)
      /\ Sorted(L.tentative) /\ ToSet(L.tentative) = {}
      /\ L.blocks \in SUBSET Nat /\ L.covered \in SUBSET Nat
      /\ L.blocks = Backed(L.writes) /\ L.covered = Visible(L.writes)
  BY SoundLedger
<1>2. /\ W \in Seq(Write) /\ DOMAIN W = 1..n /\ Len(W) = n
      /\ \A i \in 1..n : /\ W[i].start = start + i - 1 /\ W[i].count = 1
                         /\ W[i].state = "tentative"
                         /\ Positions(W[i]) = {start + i - 1}
      /\ \A p : p \in start .. start + n - 1 <=> \E i \in 1..n : p = start + i - 1
      /\ start .. start + n - 1 \in SUBSET Nat
  <2>1. "tentative" \in State
    BY DEF State
  <2> HIDE DEF W
  <2> QED BY <2>1, RowsAreWrites DEF W
<1>3. /\ m \in Nat /\ DOMAIN L.writes = 1..m
      /\ V \in Seq(Write) /\ DOMAIN V = 1..m + n
  <2>1. m \in Nat /\ DOMAIN L.writes = 1..m
    BY <1>1, LenProperties
  <2>2. V \in Seq(Write)
    BY <1>1, <1>2, Concatenated
  <2>3. DOMAIN V = 1..m + Len(W)
    BY <1>1, <1>2, Concatenated
  <2> QED BY <1>2, <2>1, <2>2, <2>3
<1>4. \A i \in DOMAIN V : \/ i \in DOMAIN L.writes /\ V[i] = L.writes[i]
                          \/ i - m \in DOMAIN W /\ V[i] = W[i - m]
  <2> HIDE DEF W
  <2> QED BY <1>1, <1>2, Concatenated
<1>5. \A i \in DOMAIN L.writes : i \in DOMAIN V /\ V[i] = L.writes[i]
  <2> HIDE DEF W
  <2> QED BY <1>1, <1>2, Concatenated
<1>6. \A i \in DOMAIN W : m + i \in DOMAIN V /\ V[m + i] = W[i]
  <2> HIDE DEF W
  <2> QED BY <1>1, <1>2, Concatenated
<1>7. ids \in Seq(Nat) /\ Sorted(ids) /\ Range(ids) = ToSet(ids)
  <2>1. ids \in [1..n -> Nat] /\ DOMAIN ids = 1..n
    BY <1>3
  <2>2. Sorted(ids)
    BY <1>3 DEF Sorted
  <2> QED BY <2>1, <2>2 DEF Range, ToSet
<1>8. Range(ids) = {m + i : i \in 1..n}
  BY DEF Range
<1>9. L.tentative \o ids \in Seq(Nat) /\ Sorted(L.tentative \o ids)
      /\ ToSet(L.tentative \o ids) = ToSet(ids)
  <2> HIDE DEF ids
  <2>1. \A x \in ToSet(L.tentative), y \in ToSet(ids) : x < y
    BY <1>1
  <2>2. /\ L.tentative \o ids \in Seq(Nat) /\ Sorted(L.tentative \o ids)
        /\ ToSet(L.tentative \o ids) = ToSet(L.tentative) \union ToSet(ids)
    BY <1>1, <1>7, <2>1, JoinedIsSorted
  <2> QED BY <1>1, <2>2
<1>10. Range(ids) \in SUBSET Nat
  BY <1>3, <1>8
<1>11. /\ M \in Ledger /\ M.writes = V /\ M.tentative = L.tentative \o ids
       /\ M.blocks = L.blocks \union Range(ids) /\ M.covered = L.covered
  <2>1. M = [L EXCEPT !.writes    = @ \o W,
                      !.tentative = @ \o ids,
                      !.blocks    = @ \union Range(ids)]
    BY DEF RecordTentative, Rows
  <2> HIDE DEF ids, W, M
  <2> QED BY <1>1, <1>3, <1>9, <1>10, <2>1 DEF Ledger
<1> HIDE DEF M, W, V, m, ids
<1>12. Open(V) = {m + i : i \in 1..n}
  <2>1. \A i \in DOMAIN L.writes : V[i].state # "tentative"
    BY <1>5 DEF Open
  <2>2. \A i \in 1..n : V[m + i].state = "tentative" /\ m + i \in DOMAIN V
    BY <1>2, <1>6
  <2>3. \A i \in DOMAIN V : i \in DOMAIN L.writes \/ (i - m \in 1..n /\ i = m + (i - m))
    BY <1>2, <1>3, <1>4
  <2> QED BY <2>1, <2>2, <2>3 DEF Open
<1>13. Backed(V) = Backed(L.writes) \union {m + i : i \in 1..n}
  <2>1. \A i \in 1..n : V[m + i].state # "discarded" /\ m + i \in DOMAIN V
    BY <1>2, <1>6
  <2>2. \A i \in DOMAIN V : i \in DOMAIN L.writes \/ (i - m \in 1..n /\ i = m + (i - m))
    BY <1>2, <1>3, <1>4
  <2> QED BY <1>5, <2>1, <2>2 DEF Backed
<1>14. Visible(V) = Visible(L.writes)
  <2>1. \A i \in DOMAIN W : ~Shows(W[i])
    BY <1>2 DEF Shows
  <2>2. ASSUME NEW p PROVE p \in Visible(V) <=> p \in Visible(L.writes)
    <3>1. p \in Visible(V) <=> \E i \in DOMAIN V : Shows(V[i]) /\ p \in Positions(V[i])
      BY Seen
    <3>2. p \in Visible(L.writes)
            <=> \E i \in DOMAIN L.writes : Shows(L.writes[i]) /\ p \in Positions(L.writes[i])
      BY Seen
    <3> QED BY <1>4, <1>5, <2>1, <3>1, <3>2
  <2> QED BY <2>2
<1>15. Sound(M)
  <2>1. /\ Sorted(M.tentative) /\ ToSet(M.tentative) = Open(M.writes)
        /\ M.blocks = Backed(M.writes) /\ M.covered = Visible(M.writes)
    BY <1>1, <1>7, <1>8, <1>9, <1>11, <1>12, <1>13, <1>14
  <2> QED BY <1>11, <2>1, Indexed DEF Sound
<1>16. OpenRows(M, start, n)
  <2>1. \A i \in 1..n : V[m + i].count = 1 /\ V[m + i].start = start + i - 1
    BY <1>2, <1>6
  <2>2. \A i \in 1..n : start + i - 1 \in start .. start + n - 1
    OBVIOUS
  <2>3. ASSUME NEW p \in start .. start + n - 1
        PROVE  \E i \in 1..n : V[m + i].start = p
    <3>1. \E i \in 1..n : p = start + i - 1
      BY <1>2
    <3> QED BY <2>1, <3>1
  <2>4. \A i \in Open(V) : V[i].count = 1 /\ V[i].start \in start .. start + n - 1
    BY <1>12, <2>1, <2>2
  <2>5. \A p \in start .. start + n - 1 : \E i \in Open(V) : V[i].start = p
    BY <1>12, <2>3
  <2> QED BY <1>11, <2>4, <2>5 DEF OpenRows
<1> QED BY <1>11, <1>15, <1>16 DEF M

LEMMA NothingListed ==
  ASSUME NEW q \in Seq(Nat), ToSet(q) = {}
  PROVE  q = <<>>
<1>1. DOMAIN q = 1..Len(q) /\ Len(q) \in Nat
  BY LenProperties
<1>2. \A i \in 1..Len(q) : q[i] \in ToSet(q)
  BY <1>1 DEF ToSet
<1>3. Len(q) = 0
  BY <1>1, <1>2
<1> QED BY <1>3, EmptySeq

(* The accepted ones of the open rows become visible, and no row is left    *)
(* open.                                                                    *)
LEMMA DraftsResolved ==
  ASSUME NEW L, Sound(L), NEW start \in Nat, NEW drafts \in Nat, NEW accepted \in 0..drafts,
         OpenRows(L, start, drafts)
  PROVE  LET M == Resolve(L, start, drafts, accepted)
         IN  /\ Sound(M) /\ Open(M.writes) = {} /\ M.tentative = <<>>
             /\ M.covered = L.covered \union start .. start + accepted - 1
<1> DEFINE M == Resolve(L, start, drafts, accepted)
           W == L.writes
           O == Open(W)
           K == {i \in O : W[i].start < start + accepted}
           V == [i \in DOMAIN W |->
                   IF i \in O
                   THEN [W[i] EXCEPT !.state = IF i \in K THEN "committed" ELSE "discarded"]
                   ELSE W[i]]
           C == UNION {Positions(W[i]) : i \in K}
<1>1. /\ L \in Ledger /\ W \in Seq(Write) /\ L.tentative \in Seq(Nat)
      /\ Sorted(L.tentative) /\ ToSet(L.tentative) = O
      /\ L.blocks \in SUBSET Nat /\ L.covered \in SUBSET Nat
      /\ L.blocks = Backed(W) /\ L.covered = Visible(W)
  BY SoundLedger
<1>2. DOMAIN W = 1..Len(W) /\ Len(W) \in Nat /\ \A i \in DOMAIN W : W[i] \in Write
  <2>1. DOMAIN W = 1..Len(W) /\ Len(W) \in Nat /\ W \in [1..Len(W) -> Write]
    BY <1>1, LenProperties
  <2> QED BY <2>1
<1>3. \A i \in O : /\ i \in DOMAIN W /\ W[i].state = "tentative"
                   /\ W[i].count = 1 /\ W[i].start \in start .. start + drafts - 1
                   /\ End(W[i]) = W[i].start + 1
                   /\ Positions(W[i]) = {W[i].start}
  <2> SUFFICES ASSUME NEW i \in O
               PROVE  /\ i \in DOMAIN W /\ W[i].state = "tentative"
                      /\ W[i].count = 1 /\ W[i].start \in start .. start + drafts - 1
                      /\ End(W[i]) = W[i].start + 1
                      /\ Positions(W[i]) = {W[i].start}
    OBVIOUS
  <2>1. i \in DOMAIN W /\ W[i].state = "tentative"
    BY DEF Open
  <2>2. W[i].count = 1 /\ W[i].start \in start .. start + drafts - 1
    BY DEF OpenRows
  <2>3. End(W[i]) = W[i].start + 1
    BY <2>2 DEF End
  <2>4. Positions(W[i]) = {W[i].start}
    BY <2>2, <2>3 DEF Positions
  <2> QED BY <2>1, <2>2, <2>3, <2>4
<1>4. {i \in Range(L.tentative) : /\ W[i].state = "tentative" /\ W[i].start >= start
                                  /\ End(W[i]) <= start + drafts} = O
  <2>1. Range(L.tentative) = O
    BY <1>1 DEF Range, ToSet
  <2>2. \A i \in O : W[i].start >= start /\ End(W[i]) <= start + drafts
    BY <1>3
  <2> QED BY <1>3, <2>1, <2>2
<1>5. {i \in O : Accepts(W[i], start + accepted)} = K
  <2>1. \A i \in O : Accepts(W[i], start + accepted) <=> W[i].start < start + accepted
    BY <1>3 DEF Accepts
  <2> QED BY <2>1
<1> HIDE DEF O, K
<1>6. M = [writes    |-> V,
           tentative |-> Keep(L.tentative, Nat \ O),
           blocks    |-> L.blocks \ (O \ K),
           covered   |-> L.covered \union C]
  BY <1>4, <1>5 DEF Resolve, Unresolved, Shown
<1>7. /\ Keep(L.tentative, Nat \ O) \in Seq(Nat) /\ Sorted(Keep(L.tentative, Nat \ O))
      /\ ToSet(Keep(L.tentative, Nat \ O)) = {}
  <2>1. /\ Keep(L.tentative, Nat \ O) \in Seq(Nat) /\ Sorted(Keep(L.tentative, Nat \ O))
        /\ ToSet(Keep(L.tentative, Nat \ O)) = ToSet(L.tentative) \cap (Nat \ O)
    BY <1>1, KeptIsSorted
  <2>2. ToSet(L.tentative) \cap (Nat \ O) = {}
    BY <1>1
  <2> QED BY <2>1, <2>2
<1>8. K \subseteq O
  BY DEF K
<1>9. /\ DOMAIN V = DOMAIN W
      /\ \A i \in DOMAIN W : V[i] \in Write /\ Positions(V[i]) = Positions(W[i])
      /\ \A i \in K : i \in DOMAIN W /\ V[i].state = "committed"
      /\ \A i \in O \ K : V[i].state = "discarded"
      /\ \A i \in DOMAIN W \ O : V[i] = W[i]
  <2>1. \A i \in DOMAIN W : V[i] \in Write /\ V[i].start = W[i].start /\ V[i].count = W[i].count
    BY <1>2 DEF Write, State
  <2>2. \A i \in DOMAIN W : Positions(V[i]) = Positions(W[i])
    BY <2>1 DEF Positions, End
  <2>3. \A i \in K : V[i].state = "committed"
    BY <1>2, <1>3, <1>8 DEF Write
  <2>4. \A i \in O \ K : V[i].state = "discarded"
    BY <1>2, <1>3, <1>8 DEF Write
  <2> QED BY <1>3, <1>8, <2>1, <2>2, <2>3, <2>4
<1> HIDE DEF V
<1>10. V \in Seq(Write)
  <2>1. V \in [1..Len(W) -> Write]
    BY <1>2, <1>9 DEF V
  <2> QED BY <1>2, <2>1
<1>11. C = start .. start + accepted - 1
  <2>1. ASSUME NEW p \in C PROVE p \in start .. start + accepted - 1
    <3>1. PICK i \in K : p \in Positions(W[i])
      OBVIOUS
    <3>2. /\ p = W[i].start /\ W[i].start < start + accepted
          /\ W[i].start \in start .. start + drafts - 1
      BY <1>3, <1>8, <3>1 DEF K
    <3> QED BY <3>2
  <2>2. ASSUME NEW p \in start .. start + accepted - 1 PROVE p \in C
    <3>1. p \in start .. start + drafts - 1 /\ p < start + accepted
      OBVIOUS
    <3>2. PICK i \in O : W[i].start = p
      BY <3>1 DEF OpenRows, O
    <3>3. i \in K /\ p \in Positions(W[i])
      BY <1>3, <3>1, <3>2 DEF K
    <3> QED BY <3>3
  <2> QED BY <2>1, <2>2
<1> HIDE DEF C
<1>12. M \in Ledger
  <2>1. C \in SUBSET Nat
    BY <1>11
  <2> HIDE DEF M
  <2> QED BY <1>1, <1>6, <1>7, <1>10, <2>1 DEF Ledger
<1>13. M.writes = V /\ M.tentative = Keep(L.tentative, Nat \ O)
       /\ M.blocks = L.blocks \ (O \ K) /\ M.covered = L.covered \union C
  <2> HIDE DEF M
  <2> QED BY <1>6
<1> HIDE DEF M
<1>14. \A i \in DOMAIN W : i \in O <=> W[i].state = "tentative"
  BY DEF O, Open
<1>15. Open(V) = {}
  BY <1>9, <1>14 DEF Open
<1>16. Backed(V) = L.blocks \ (O \ K)
  BY <1>1, <1>9, <1>14 DEF Backed
<1>17. Visible(V) = L.covered \union C
  <2>1. \A i \in DOMAIN W : Shows(V[i]) <=> Shows(W[i]) \/ i \in K
    BY <1>8, <1>9, <1>14 DEF Shows
  <2>2. ASSUME NEW p PROVE p \in Visible(V) <=> p \in Visible(W) \/ p \in C
    <3>1. p \in Visible(V) <=> \E i \in DOMAIN V : Shows(V[i]) /\ p \in Positions(V[i])
      BY Seen
    <3>2. p \in Visible(W) <=> \E i \in DOMAIN W : Shows(W[i]) /\ p \in Positions(W[i])
      BY Seen
    <3>3. p \in C <=> \E i \in K : p \in Positions(W[i])
      BY DEF C
    <3> QED BY <1>9, <2>1, <3>1, <3>2, <3>3
  <2> QED BY <1>1, <2>2
<1>18. Sound(M)
  <2>1. /\ Sorted(M.tentative) /\ ToSet(M.tentative) = Open(M.writes)
        /\ M.blocks = Backed(M.writes) /\ M.covered = Visible(M.writes)
    BY <1>7, <1>13, <1>15, <1>16, <1>17
  <2> QED BY <1>12, <2>1, Indexed DEF Sound
<1>19. M.tentative = <<>>
  BY <1>7, <1>13, NothingListed
<1> QED BY <1>11, <1>13, <1>15, <1>18, <1>19 DEF M

LEMMA ResolvedCovers ==
  ASSUME NEW L, Sound(L), NEW start \in Nat, NEW drafts \in Nat, NEW accepted \in 0..drafts,
         OpenRows(L, start, drafts), NEW end \in Int, end = start + accepted - 1
  PROVE  Resolve(L, start, drafts, accepted).covered = L.covered \union start .. end
BY DraftsResolved

(* No write of several positions reaches beyond p.                          *)
Settled(L, p) == \A i \in DOMAIN L.writes : L.writes[i].count = 1 \/ End(L.writes[i]) <= p

(* Truncation cuts between writes, so that runs and records still agree.    *)
LEMMA RestDiscarded ==
  ASSUME NEW L, Sound(L), NEW start \in Nat, Settled(L, start)
  PROVE  LET M == DiscardFrom(L, start)
         IN  /\ Sound(M) /\ M.covered = {p \in L.covered : p < start}
             /\ \A p : Settled(L, p) => Settled(M, p)
<1> DEFINE M == DiscardFrom(L, start)
           W == L.writes
           G == {i \in DOMAIN W : W[i].start >= start /\ W[i].state # "discarded"}
           V == [i \in DOMAIN W |-> IF i \in G THEN [W[i] EXCEPT !.state = "discarded"] ELSE W[i]]
           T == Keep(L.tentative, Nat \ G)
           C == {p \in L.covered : p < start}
<1>1. /\ L \in Ledger /\ W \in Seq(Write) /\ L.tentative \in Seq(Nat)
      /\ Sorted(L.tentative) /\ ToSet(L.tentative) = Open(W)
      /\ L.blocks \in SUBSET Nat /\ L.covered \in SUBSET Nat
      /\ L.blocks = Backed(W) /\ L.covered = Visible(W)
  BY SoundLedger
<1>2. DOMAIN W = 1..Len(W) /\ Len(W) \in Nat /\ \A i \in DOMAIN W : W[i] \in Write
  <2>1. DOMAIN W = 1..Len(W) /\ Len(W) \in Nat /\ W \in [1..Len(W) -> Write]
    BY <1>1, LenProperties
  <2> QED BY <2>1
<1>3. M = [writes |-> V, tentative |-> T, blocks |-> L.blocks \ G, covered |-> C]
  BY DEF DiscardFrom, Unresolved, Truncated
<1>4. \A i \in DOMAIN W : i \in G <=> W[i].start >= start /\ W[i].state # "discarded"
  OBVIOUS
<1> HIDE DEF G
<1>5. T \in Seq(Nat) /\ Sorted(T) /\ ToSet(T) = Open(W) \cap (Nat \ G)
  BY <1>1, KeptIsSorted
<1>6. /\ DOMAIN V = DOMAIN W
      /\ \A i \in DOMAIN W : /\ V[i] \in Write /\ V[i].count = W[i].count
                             /\ Positions(V[i]) = Positions(W[i]) /\ End(V[i]) = End(W[i])
      /\ \A i \in DOMAIN W : i \in G => V[i].state = "discarded"
      /\ \A i \in DOMAIN W : i \notin G => V[i] = W[i]
  <2>1. \A i \in DOMAIN W : V[i] \in Write /\ V[i].start = W[i].start /\ V[i].count = W[i].count
    BY <1>2 DEF Write, State
  <2>2. \A i \in DOMAIN W : Positions(V[i]) = Positions(W[i]) /\ End(V[i]) = End(W[i])
    BY <2>1 DEF Positions, End
  <2>3. \A i \in DOMAIN W : i \in G => V[i].state = "discarded"
    BY <1>2 DEF Write
  <2> QED BY <2>1, <2>2, <2>3
<1> HIDE DEF V
<1>7. V \in Seq(Write)
  <2>1. V \in [1..Len(W) -> Write]
    BY <1>2, <1>6 DEF V
  <2> QED BY <1>2, <2>1
<1> HIDE DEF T, C, M
<1>8. M \in Ledger
  <2>1. C \in SUBSET Nat
    BY <1>1 DEF C
  <2> QED BY <1>1, <1>3, <1>5, <1>7, <2>1 DEF Ledger
<1>9. M.writes = V /\ M.tentative = T /\ M.blocks = L.blocks \ G /\ M.covered = C
  BY <1>3
<1>10. Open(V) = Open(W) \cap (Nat \ G)
  BY <1>2, <1>4, <1>6 DEF Open
<1>11. Backed(V) = L.blocks \ G
  BY <1>1, <1>4, <1>6 DEF Backed
<1>12. Visible(V) = C
  <2>1. ASSUME NEW p PROVE p \in Visible(V) <=> p \in Visible(W) /\ p < start
    <3>1. p \in Visible(V) <=> \E i \in DOMAIN V : Shows(V[i]) /\ p \in Positions(V[i])
      BY Seen
    <3>2. p \in Visible(W) <=> \E i \in DOMAIN W : Shows(W[i]) /\ p \in Positions(W[i])
      BY Seen
    <3>3. ASSUME NEW i \in DOMAIN W, Shows(W[i]), p \in Positions(W[i])
          PROVE  i \notin G <=> p < start
      <4>1. W[i].start \in Nat /\ W[i].count \in Nat \ {0}
        BY <1>2 DEF Write
      <4>2. W[i].start <= p /\ p < End(W[i]) /\ p \in Int /\ End(W[i]) = W[i].start + W[i].count
        BY <3>3, <4>1 DEF Positions, End
      <4>3. W[i].count = 1 \/ End(W[i]) <= start
        BY DEF Settled
      <4>4. i \in G <=> W[i].start >= start
        BY <1>4, <3>3 DEF Shows
      <4> QED BY <4>1, <4>2, <4>3, <4>4
    <3>4. \A i \in DOMAIN W : Shows(V[i]) <=> Shows(W[i]) /\ i \notin G
      BY <1>4, <1>6 DEF Shows
    <3> QED BY <1>6, <3>1, <3>2, <3>3, <3>4
  <2> QED BY <1>1, <2>1 DEF C
<1>13. Sound(M)
  <2>1. /\ Sorted(M.tentative) /\ ToSet(M.tentative) = Open(M.writes)
        /\ M.blocks = Backed(M.writes) /\ M.covered = Visible(M.writes)
    BY <1>5, <1>9, <1>10, <1>11, <1>12
  <2> QED BY <1>8, <2>1, Indexed DEF Sound
<1>14. ASSUME NEW p, Settled(L, p) PROVE Settled(M, p)
  BY <1>6, <1>9, <1>14 DEF Settled
<1> QED BY <1>9, <1>13, <1>14 DEF M, C

LEMMA SettledGrows ==
  ASSUME NEW L, Sound(L), NEW p \in Int, NEW q \in Int, p <= q, Settled(L, p)
  PROVE  Settled(L, q)
<1>1. L.writes \in Seq(Write)
  BY SoundLedger
<1>2. \A i \in DOMAIN L.writes : L.writes[i] \in Write
  <2>1. L.writes \in [1..Len(L.writes) -> Write] /\ DOMAIN L.writes = 1..Len(L.writes)
    BY <1>1, LenProperties
  <2> QED BY <2>1
<1>3. \A i \in DOMAIN L.writes : End(L.writes[i]) \in Int
  BY <1>2 DEF End, Write
<1> QED BY <1>3 DEF Settled

LEMMA SettledWithMore ==
  ASSUME NEW L, Sound(L), NEW W \in Seq(Write), NEW p, Settled(L, p),
         \A i \in DOMAIN W : W[i].count = 1 \/ End(W[i]) <= p,
         NEW M, M.writes = L.writes \o W
  PROVE  Settled(M, p)
<1>1. L.writes \in Seq(Write)
  BY SoundLedger
<1>2. \A i \in DOMAIN M.writes :
        \/ i \in DOMAIN L.writes /\ M.writes[i] = L.writes[i]
        \/ i - Len(L.writes) \in DOMAIN W /\ M.writes[i] = W[i - Len(L.writes)]
  <2>1. \A i \in DOMAIN (L.writes \o W) :
        \/ i \in DOMAIN L.writes /\ (L.writes \o W)[i] = L.writes[i]
        \/ i - Len(L.writes) \in DOMAIN W /\ (L.writes \o W)[i] = W[i - Len(L.writes)]
    BY <1>1, Concatenated
  <2> QED BY <2>1
<1> QED BY <1>2 DEF Settled

LEMMA BlockSettled ==
  ASSUME NEW L, Sound(L), NEW start \in Nat, NEW n \in Nat \ {0}, NEW p \in Int,
         Settled(L, p), start + n <= p
  PROVE  Settled(RecordBlock(L, start, n), p)
<1> DEFINE w == [start |-> start, count |-> n, state |-> "written"]
           M == RecordBlock(L, start, n)
<1>1. w \in Write /\ End(w) <= p
  BY DEF Write, State, End
<1>2. M.writes = L.writes \o <<w>>
  BY BlockRecorded
<1>3. <<w>> \in Seq(Write) /\ \A i \in DOMAIN <<w>> : End(<<w>>[i]) <= p
  <2> HIDE DEF w
  <2> QED BY <1>1
<1> HIDE DEF M, w
<1>4. Settled(M, p)
  BY <1>2, <1>3, SettledWithMore
<1> QED BY <1>4 DEF M

LEMMA RowsSettled ==
  ASSUME NEW L, Sound(L), NEW start \in Nat, NEW n \in Nat, NEW p, Settled(L, p)
  PROVE  Settled(RecordRows(L, start, n), p)
<1> DEFINE W == Rows(start, n, "written")
           M == RecordRows(L, start, n)
<1>1. W \in Seq(Write) /\ DOMAIN W = 1..n /\ \A i \in 1..n : W[i].count = 1
  <2>1. "written" \in State
    BY DEF State
  <2> HIDE DEF W
  <2>2. /\ W \in Seq(Write) /\ DOMAIN W = 1..n /\ Len(W) = n
        /\ \A i \in 1..n : /\ W[i].start = start + i - 1 /\ W[i].count = 1
                           /\ W[i].state = "written"
                           /\ Positions(W[i]) = {start + i - 1}
        /\ \A p_1 : p_1 \in start .. start + n - 1 <=> \E i \in 1..n : p_1 = start + i - 1
        /\ start .. start + n - 1 \in SUBSET Nat
    BY <2>1, RowsAreWrites DEF W
  <2> QED BY <2>2
<1>2. M.writes = L.writes \o W
  BY RowsRecorded
<1> HIDE DEF M, W
<1>3. \A i \in DOMAIN W : W[i].count = 1 \/ End(W[i]) <= p
  BY <1>1
<1>4. Settled(M, p)
  BY <1>1, <1>2, <1>3, SettledWithMore
<1> QED BY <1>4 DEF M

-----------------------------------------------------------------------------
(* The width of the drafts.                                                 *)

LEMMA MinOfTwo ==
  ASSUME NEW a \in Int, NEW b \in Int
  PROVE  Min({a, b}) = IF a <= b THEN a ELSE b
BY DEF Min

LEMMA MaxOfTwo ==
  ASSUME NEW a \in Int, NEW b \in Int
  PROVE  Max({a, b}) = IF a >= b THEN a ELSE b
BY DEF Max

LEMMA MinOfThree ==
  ASSUME NEW a \in Int, NEW b \in Int, NEW c \in Int
  PROVE  /\ Min({a, b, c}) \in {a, b, c}
         /\ Min({a, b, c}) <= a /\ Min({a, b, c}) <= b /\ Min({a, b, c}) <= c
<1>1. \E x \in {a, b, c} : \A y \in {a, b, c} : x <= y
  <2>1. CASE a <= b /\ a <= c
    BY <2>1
  <2>2. CASE b <= a /\ b <= c
    BY <2>2
  <2>3. CASE c <= a /\ c <= b
    BY <2>3
  <2> QED BY <2>1, <2>2, <2>3
<1> QED BY <1>1 DEF Min

Observation == [proposed : Nat, accepted : Nat]

Widths == [current : 0 .. MaxDrafts, history : Seq(Observation), decisions : Nat, probing : BOOLEAN,
           successes : Nat, interval : Nat, misses : Nat]

LEMMA Constants ==
  /\ MinDrafts \in Nat \ {0} /\ MaxDrafts \in Nat \ {0} /\ MinDrafts <= MaxDrafts
  /\ ProbeInterval \in Nat /\ ProbeMaxInterval \in Nat /\ ProbeSuccesses \in Nat
  /\ MinPrompt \in Nat \ {0} /\ MaxPrompt \in Nat \ {0} /\ MaxBudget \in Nat \ {0}
  /\ MaxContext \in Nat \ {0} /\ Headroom \in Nat \ {0} /\ ChunkTokens \in Nat \ {0}
  /\ MaxDrafts <= MinPrompt + 2 /\ MaxDrafts <= Headroom + 2
<1>1. /\ MinPrompt \in Nat \ {0} /\ MaxPrompt \in Nat \ {0} /\ MaxBudget \in Nat \ {0}
      /\ MaxContext \in Nat \ {0} /\ Headroom \in Nat \ {0} /\ ChunkTokens \in Nat \ {0}
      /\ MaxDrafts <= Min({MinPrompt, Headroom}) + 2
  BY SpeculativeAssumption
<1>2. /\ MinDrafts \in Nat \ {0} /\ MaxDrafts \in Nat \ {0} /\ MinDrafts <= MaxDrafts
      /\ ProbeInterval \in Nat /\ ProbeMaxInterval \in Nat /\ ProbeSuccesses \in Nat
  BY WidthAssumption
<1>3. Min({MinPrompt, Headroom}) = IF MinPrompt <= Headroom THEN MinPrompt ELSE Headroom
  BY <1>1, MinOfTwo
<1> QED BY <1>1, <1>2, <1>3

LEMMA FreshIsWidth == FreshWidth \in Widths
<1>1. StartDrafts \in 0 .. MaxDrafts
  BY Constants DEF StartDrafts
<1>2. <<>> \in Seq(Observation)
  OBVIOUS
<1> QED BY <1>1, <1>2, Constants DEF FreshWidth, Widths

LEMMA AskedIsWidth ==
  ASSUME NEW a \in Widths
  PROVE  Asked(a) \in Widths /\ Answer(a) \in 0 .. MaxDrafts
<1>1. Asked(a) \in Widths
  <2>1. [a EXCEPT !.decisions = 0, !.probing = TRUE] \in Widths
    BY DEF Widths
  <2>2. [a EXCEPT !.decisions = @ + 1] \in Widths
    BY DEF Widths
  <2> QED BY <2>1, <2>2 DEF Asked
<1>2. Answer(a) \in 0 .. MaxDrafts
  BY Constants DEF Answer, Widths
<1> QED BY <1>1, <1>2

LEMMA AdjustedInBounds ==
  ASSUME NEW a \in Widths, NEW h, NEW o, NEW m2
  PROVE  Adjusted(a, h, o, m2) \in 0 .. MaxDrafts
<1>1. /\ MinDrafts \in Nat \ {0} /\ MaxDrafts \in Nat \ {0} /\ MinDrafts <= MaxDrafts
  BY Constants
<1>2. a.current \in 0 .. MaxDrafts
  BY DEF Widths
<1>3. Max({a.current - 1, MinDrafts}) \in 0 .. MaxDrafts
  <2>1. a.current - 1 \in Int /\ MinDrafts \in Int
    BY <1>1, <1>2
  <2>2. Max({a.current - 1, MinDrafts}) = IF a.current - 1 >= MinDrafts THEN a.current - 1
                                                                        ELSE MinDrafts
    BY <2>1, MaxOfTwo
  <2> QED BY <1>1, <1>2, <2>2
<1>4. Min({a.current + 1, MaxDrafts}) \in 0 .. MaxDrafts
  <2>1. a.current + 1 \in Int /\ MaxDrafts \in Int
    BY <1>1, <1>2
  <2>2. Min({a.current + 1, MaxDrafts}) = IF a.current + 1 <= MaxDrafts THEN a.current + 1
                                                                        ELSE MaxDrafts
    BY <2>1, MinOfTwo
  <2> QED BY <1>1, <1>2, <2>2
<1>5. 0 \in 0 .. MaxDrafts /\ 1 \in 0 .. MaxDrafts
  BY <1>1
<1> DEFINE B == 0 .. MaxDrafts
<1> HIDE DEF B
<1>6. /\ a.current \in B /\ Max({a.current - 1, MinDrafts}) \in B
      /\ Min({a.current + 1, MaxDrafts}) \in B /\ 0 \in B /\ 1 \in B
  BY <1>2, <1>3, <1>4, <1>5 DEF B
<1>7. Adjusted(a, h, o, m2) \in B
  BY <1>6 DEF Adjusted
<1> QED BY <1>7 DEF B

LEMMA ScalarIsWidth ==
  ASSUME NEW a \in Widths
  PROVE  Scalar(a) \in Widths
<1>1. 0 \in 0 .. MaxDrafts /\ 0 \in Nat /\ FALSE \in BOOLEAN
  BY Constants
<1> QED BY <1>1 DEF Scalar, Widths

LEMMA ProbedIsWidth ==
  ASSUME NEW a \in Widths, NEW o, NEW m2
  PROVE  Probed(a, o, m2) \in Widths
<1>1. [Resumed(a, MinDrafts) EXCEPT !.interval = ProbeInterval] \in Widths
  <2>1. MinDrafts \in 0 .. MaxDrafts /\ ProbeInterval \in Nat
    BY Constants
  <2>2. Resumed(a, MinDrafts) \in Widths
    BY <2>1 DEF Resumed, Widths
  <2> QED BY <2>1, <2>2 DEF Widths
<1>2. Resumed(a, Min({MinDrafts + 1, MaxDrafts})) \in Widths
  <2>1. MinDrafts + 1 \in Int /\ MaxDrafts \in Int
    BY Constants
  <2>2. Min({MinDrafts + 1, MaxDrafts}) = IF MinDrafts + 1 <= MaxDrafts THEN MinDrafts + 1
                                                                       ELSE MaxDrafts
    BY <2>1, MinOfTwo
  <2>3. Min({MinDrafts + 1, MaxDrafts}) \in 0 .. MaxDrafts
    BY <2>2, Constants
  <2> QED BY <2>3 DEF Resumed, Widths
<1>3. Scalar([a EXCEPT !.successes = @ + 1]) \in Widths
  <2>1. [a EXCEPT !.successes = @ + 1] \in Widths
    BY DEF Widths
  <2> QED BY <2>1, ScalarIsWidth
<1>4. Scalar([a EXCEPT !.successes = 0, !.interval = Backoff(@)]) \in Widths
  <2>1. a.interval \in Nat /\ 2 * a.interval \in Int /\ ProbeMaxInterval \in Int
    BY Constants DEF Widths
  <2>2. Backoff(a.interval) = IF 2 * a.interval <= ProbeMaxInterval THEN 2 * a.interval
                                                                   ELSE ProbeMaxInterval
    BY <2>1, MinOfTwo DEF Backoff
  <2>3. Backoff(a.interval) \in Nat
    BY <2>1, <2>2, Constants
  <2>4. [a EXCEPT !.successes = 0, !.interval = Backoff(@)] \in Widths
    BY <2>3 DEF Widths
  <2> QED BY <2>4, ScalarIsWidth
<1> QED BY <1>1, <1>2, <1>3, <1>4 DEF Probed

LEMMA JudgedIsWidth ==
  ASSUME NEW a \in Widths, NEW h, NEW o \in Observation, NEW m2
  PROVE  Judged(a, h, o, m2) \in Widths
<1> DEFINE misses == IF Pays(o, m2) THEN 0 ELSE a.misses + 1
           next   == IF misses < 2 THEN Adjusted(a, h, o, m2)
                     ELSE IF m2 /\ o.proposed > 1 /\ o.accepted > 0 THEN 1 ELSE 0
           b      == IF o.accepted = 0 /\ Adjusted(a, h, o, m2) = 0
                     THEN [a EXCEPT !.decisions = 0, !.successes = 0] ELSE a
<1>1. misses \in Nat
  BY DEF Widths
<1>2. next \in 0 .. MaxDrafts
  <2>1. 0 \in 0 .. MaxDrafts /\ 1 \in 0 .. MaxDrafts
    BY Constants
  <2> QED BY <2>1, AdjustedInBounds
<1>3. b \in Widths
  BY DEF Widths
<1>4. Judged(a, h, o, m2) = IF next = 0 THEN Scalar(b)
                                        ELSE [b EXCEPT !.current = next, !.misses = misses]
  BY DEF Judged
<1> HIDE DEF misses, next, b
<1>5. Scalar(b) \in Widths
  BY <1>3, ScalarIsWidth
<1>6. [b EXCEPT !.current = next, !.misses = misses] \in Widths
  BY <1>1, <1>2, <1>3 DEF Widths
<1> QED BY <1>4, <1>5, <1>6

(* Of the observations the last three are kept.                             *)
LEMMA HistoryKept ==
  ASSUME NEW a \in Widths, NEW o \in Observation
  PROVE  LET all == Append(a.history, o)
         IN  SubSeq(all, Max({1, Len(all) - 2}), Len(all)) \in Seq(Observation)
<1> DEFINE all == Append(a.history, o)
<1>1. all \in Seq(Observation) /\ Len(all) \in Nat /\ DOMAIN all = 1..Len(all)
      /\ all \in [1..Len(all) -> Observation]
  <2>1. a.history \in Seq(Observation)
    BY DEF Widths
  <2>2. all \in Seq(Observation)
    BY <2>1, AppendProperties
  <2> HIDE DEF all
  <2> QED BY <2>2, LenProperties
<1> HIDE DEF all
<1>2. Max({1, Len(all) - 2}) \in Nat \ {0}
  <2>1. 1 \in Int /\ Len(all) - 2 \in Int
    BY <1>1
  <2>2. Max({1, Len(all) - 2}) = IF 1 >= Len(all) - 2 THEN 1 ELSE Len(all) - 2
    BY <2>1, MaxOfTwo
  <2> QED BY <1>1, <2>2
<1>3. PICK m \in Nat \ {0} : m = Max({1, Len(all) - 2})
  BY <1>2
<1>4. \A i \in m .. Len(all) : all[i] \in Observation
  BY <1>1
<1>5. SubSeq(all, m, Len(all)) \in Seq(Observation)
  BY <1>1, <1>4, SubSeqProperties
<1> QED BY <1>3, <1>5 DEF all

LEMMA ObservedIsWidth ==
  ASSUME NEW a \in Widths, NEW o \in Observation, NEW m2
  PROVE  Observed(a, o, m2) \in Widths
<1> DEFINE all == Append(a.history, o)
           h   == SubSeq(all, Max({1, Len(all) - 2}), Len(all))
           b   == [a EXCEPT !.history = h]
           probe == a.current = 0 /\ a.probing /\ o.proposed = MinDrafts
<1>1. h \in Seq(Observation)
  BY HistoryKept
<1> HIDE DEF h
<1>2. b \in Widths
  BY <1>1 DEF Widths
<1>3. Observed(a, o, m2) = IF o.proposed # a.current /\ ~probe THEN a
                           ELSE IF probe THEN Probed(b, o, m2) ELSE Judged(b, h, o, m2)
  BY DEF Observed, h
<1> HIDE DEF b, probe
<1>4. Probed(b, o, m2) \in Widths /\ Judged(b, h, o, m2) \in Widths
  BY <1>2, ProbedIsWidth, JudgedIsWidth
<1> QED BY <1>3, <1>4

-----------------------------------------------------------------------------
(* The numbers of a cycle.                                                  *)

RequestOK ==
  /\ policy \in Policies
  /\ request \in [prompt : Nat \ {0}, cached : Nat, budget : Nat \ {0}]
  /\ request.prompt >= MinPrompt
  /\ request.cached < request.prompt
  /\ policy.native => request.cached = 0
  /\ request.prompt + request.budget <= MaxContext

(* Drafts that may stand behind n generated tokens.                         *)
Fits(n, count) ==
  count = 0 \/ (n + 2 <= request.budget /\ request.prompt + n + count <= Capacity)

(* With a fixed width nothing is drafted any more after n tokens.           *)
Exhausted(n) ==
  request.budget - n - 1 <= 0 \/ (policy.bonus /\ request.prompt + n + policy.fixed > MaxContext)

Drafted == {d \in [count : Nat, matching : Nat] : d.matching <= d.count}

LEMMA Policy ==
  ASSUME RequestOK
  PROVE  /\ policy.native \in BOOLEAN /\ policy.bonus \in BOOLEAN /\ policy.m2 \in BOOLEAN
         /\ policy.fixed \in 0 .. MaxDrafts
         /\ ~policy.native => policy.bonus
BY DEF RequestOK, Policies

LEMMA CapacityIsWide ==
  ASSUME RequestOK
  PROVE  /\ Capacity \in Nat
         /\ request.prompt + request.budget <= Capacity
         /\ \A x \in Int : x <= MaxContext /\ x <= request.prompt + request.budget + MaxDrafts - 2
                             => x <= Capacity
<1>1. /\ request.prompt \in Nat /\ request.budget \in Nat /\ request.prompt >= MinPrompt
      /\ request.prompt + request.budget <= MaxContext
  BY DEF RequestOK
<1>2. PICK m \in Nat : m = Min({request.prompt, Headroom}) /\ m >= MaxDrafts - 2
  <2>1. request.prompt \in Int /\ Headroom \in Int
    BY <1>1, Constants
  <2>2. Min({request.prompt, Headroom}) = IF request.prompt <= Headroom THEN request.prompt
                                                                        ELSE Headroom
    BY <2>1, MinOfTwo
  <2>3. MinPrompt \in Nat /\ Headroom \in Nat /\ MaxDrafts \in Nat
        /\ MaxDrafts <= MinPrompt + 2 /\ MaxDrafts <= Headroom + 2
    BY Constants
  <2> QED BY <1>1, <2>2, <2>3
<1>3. MaxContext \in Nat /\ MaxDrafts \in Nat
  BY Constants
<1>4. PICK x \in Nat : x = request.prompt + request.budget + m
  BY <1>1, <1>2
<1>5. Capacity = Min({x, MaxContext})
  BY <1>2, <1>4 DEF Capacity
<1>6. Capacity = IF x <= MaxContext THEN x ELSE MaxContext
  <2>1. x \in Int /\ MaxContext \in Int
    BY <1>3, <1>4
  <2> QED BY <1>5, <2>1, MinOfTwo
<1> QED BY <1>1, <1>2, <1>3, <1>4, <1>6

LEMMA LimitFits ==
  ASSUME RequestOK, generated \in Nat, NEW e \in Nat, NEW w \in 0 .. MaxDrafts
  PROVE  /\ DraftLimit(e, w) \in 0 .. MaxDrafts
         /\ Fits(generated + e, DraftLimit(e, w))
         /\ policy.fixed > 0 /\ w = policy.fixed
              => (DraftLimit(e, w) = 0 <=> Exhausted(generated + e))
<1>1. /\ request.prompt \in Nat /\ request.budget \in Nat
      /\ request.prompt + request.budget <= MaxContext
  BY DEF RequestOK
<1>2. MaxContext \in Nat /\ MaxDrafts \in Nat
  BY Constants
<1>3. PICK n \in Nat : n = generated + e
  OBVIOUS
<1>4. PICK left \in Int : left = request.budget - n - 1
  BY <1>1, <1>3
<1>5. PICK b \in 0 .. MaxDrafts : /\ b = Min({w, Max({0, left})}) /\ b <= w
                                  /\ b > 0 => b <= left
                                  /\ b = 0 <=> w = 0 \/ left <= 0
  <2>1. 0 \in Int /\ left \in Int /\ w \in Int
    OBVIOUS
  <2>2. Max({0, left}) = IF 0 >= left THEN 0 ELSE left
    BY <2>1, MaxOfTwo
  <2>3. PICK t \in Nat : t = Max({0, left}) /\ t = IF 0 >= left THEN 0 ELSE left
    BY <2>1, <2>2
  <2>4. t \in Int
    BY <2>3
  <2>5. Min({w, t}) = IF w <= t THEN w ELSE t
    BY <2>1, <2>4, MinOfTwo
  <2> QED BY <1>2, <2>3, <2>5
<1>6. DraftLimit(e, w) = IF b = 0 \/ ~policy.bonus THEN b
                         ELSE IF request.prompt + n + w <= MaxContext THEN w ELSE 0
  <2>1. request.budget - (generated + e) - 1 = left
    BY <1>3, <1>4
  <2>2. request.prompt + generated + e + w = request.prompt + n + w
    BY <1>1, <1>3
  <2> QED BY <1>3, <1>5, <2>1, <2>2 DEF DraftLimit
<1>7. DraftLimit(e, w) \in 0 .. MaxDrafts
  BY <1>2, <1>6
<1>8. Fits(n, DraftLimit(e, w))
  <2>1. Capacity \in Nat /\ request.prompt + request.budget <= Capacity
    BY CapacityIsWide
  <2>2. CASE b = 0
    BY <1>6, <2>2 DEF Fits
  <2>3. CASE b # 0 /\ ~policy.bonus
    <3>1. n + 2 <= request.budget /\ request.prompt + n + b <= Capacity
      BY <1>1, <1>4, <1>5, <2>1, <2>3
    <3> QED BY <1>6, <2>3, <3>1 DEF Fits
  <2>4. CASE b # 0 /\ policy.bonus
    <3>1. CASE request.prompt + n + w <= MaxContext
      <4>1. n + 2 <= request.budget
        BY <1>1, <1>4, <1>5, <2>4
      <4>2. request.prompt + n + w \in Int
            /\ request.prompt + n + w <= request.prompt + request.budget + MaxDrafts - 2
        BY <1>1, <1>2, <4>1
      <4>3. request.prompt + n + w <= Capacity
        BY <3>1, <4>2, CapacityIsWide
      <4> QED BY <1>6, <2>4, <3>1, <4>1, <4>3 DEF Fits
    <3>2. CASE ~(request.prompt + n + w <= MaxContext)
      BY <1>6, <2>4, <3>2 DEF Fits
    <3> QED BY <3>1, <3>2
  <2> QED BY <2>2, <2>3, <2>4
<1>9. ASSUME policy.fixed > 0, w = policy.fixed
      PROVE  DraftLimit(e, w) = 0 <=> Exhausted(n)
  <2>1. Exhausted(n) <=> left <= 0 \/ (policy.bonus /\ request.prompt + n + w > MaxContext)
    BY <1>4, <1>9 DEF Exhausted
  <2> QED BY <1>1, <1>2, <1>5, <1>6, <1>9, <2>1
<1> QED BY <1>3, <1>7, <1>8, <1>9

LEMMA ExhaustedStays ==
  ASSUME RequestOK, NEW n \in Nat, Exhausted(n)
  PROVE  Exhausted(n + 1)
<1>1. request.prompt \in Nat /\ request.budget \in Nat
  BY DEF RequestOK
<1>2. policy.fixed \in Nat /\ MaxContext \in Nat
  BY Policy, Constants
<1> QED BY <1>1, <1>2 DEF Exhausted

LEMMA AcceptedInBounds ==
  ASSUME RequestOK, generated \in Nat, generated < request.budget,
         NEW d \in Drafted, d.count > 0
  PROVE  /\ Accepted(d) \in Nat /\ Accepted(d) <= d.count /\ Accepted(d) <= d.matching
         /\ generated + Accepted(d) + 1 <= request.budget
         /\ FullMatch(d) => Accepted(d) = d.count /\ d.matching = d.count
         /\ ~FullMatch(d) => Accepted(d) <= d.count - 1
<1>1. d.count \in Nat \ {0} /\ d.matching \in Nat /\ d.matching <= d.count
  BY DEF Drafted
<1>2. request.budget \in Nat
  BY DEF RequestOK
<1>3. CASE FullMatch(d)
  <2>1. Accepted(d) = d.count /\ d.matching = d.count /\ d.count + 1 <= request.budget - generated
    BY <1>3 DEF Accepted, FullMatch
  <2> QED BY <1>1, <1>2, <1>3, <2>1
<1>4. CASE ~FullMatch(d)
  <2>1. PICK x \in Int, y \in Int : x = d.count - 1 /\ y = request.budget - generated - 1
    BY <1>1, <1>2
  <2>2. Accepted(d) = Min({d.matching, x, y})
    BY <1>4, <2>1 DEF Accepted
  <2>3. d.matching \in Int
    BY <1>1
  <2>4. /\ Accepted(d) \in {d.matching, x, y}
        /\ Accepted(d) <= d.matching /\ Accepted(d) <= x /\ Accepted(d) <= y
    <3>1. PICK m \in Int : m = d.matching
      BY <2>3
    <3>2. /\ Min({m, x, y}) \in {m, x, y}
          /\ Min({m, x, y}) <= m /\ Min({m, x, y}) <= x /\ Min({m, x, y}) <= y
      BY MinOfThree
    <3> QED BY <2>2, <3>1, <3>2
  <2>5. x \in Nat /\ y \in Nat
    BY <1>1, <1>2, <2>1
  <2> QED BY <1>1, <1>2, <1>4, <2>1, <2>4, <2>5
<1> QED BY <1>3, <1>4

LEMMA SpanFits ==
  ASSUME RequestOK, generated \in Nat, generated < request.budget,
         NEW count \in Nat, Fits(generated, count)
  PROVE  DecodeAt + 1 + count + Padding(count) <= Capacity /\ Padding(count) \in {0, 1}
<1>1. /\ request.prompt \in Nat /\ request.budget \in Nat
      /\ Capacity \in Nat /\ request.prompt + request.budget <= Capacity
  BY CapacityIsWide DEF RequestOK
<1>2. DecodeAt + 1 + count + Padding(count) = request.prompt + generated + count + Padding(count)
  BY <1>1 DEF DecodeAt, Padding
<1>3. Padding(count) = 0 \/ (Padding(count) = 1 /\ count = 1)
  BY DEF Padding
<1> QED BY <1>1, <1>2, <1>3 DEF Fits

-----------------------------------------------------------------------------
(* The invariant.                                                           *)

Cycles == [drafts : Drafted, padding : {0, 1}, at : Nat, accepted : Nat, emitted : Nat,
           from : Nat, draft : Nat]

Types ==
  /\ RequestOK
  /\ pc \in {"idle", "prefill", "accept", "draft", "record", "done"}
  /\ generated \in Nat /\ generated <= request.budget
  /\ processed \in Nat
  /\ pending \in Drafted
  /\ cycle \in Cycles
  /\ width \in Widths
  /\ kv \in [Layer -> Ledger]
  /\ Sound(kv["target"]) /\ Sound(kv["mtp"])
  /\ rows \in [Layer -> SUBSET Int]

(* The target layers hold the first n positions, all of the sequence's own. *)
TargetHas(n) == kv["target"].covered = 0 .. n - 1 /\ 0 .. n - 1 \subseteq rows["target"]

Closed == Open(kv["target"].writes) = {}

(* So does the MTP layer, of which no more is asked.                        *)
MtpHas(n) == 0 .. n - 1 \subseteq kv["mtp"].covered /\ 0 .. n - 1 \subseteq rows["mtp"]

(* Of the rows of a chain of drafts, those whose input was right.           *)
Usable(d) == IF d.matching < d.count THEN d.matching ELSE d.count - 1

FixedWidth == policy.native /\ policy.fixed > 0

Idle ==
  /\ generated < request.budget
  /\ processed = Prefix
  /\ TargetHas(Prefix) /\ Closed
  /\ Settled(kv["mtp"], DecodeAt)
  /\ Fits(generated, pending.count)
  /\ FixedWidth => IF pending.count = 0 THEN generated = 0 \/ Exhausted(generated)
                                        ELSE MtpHas(DecodeAt + Usable(pending))

Planned ==
  /\ generated < request.budget
  /\ processed = Prefix
  /\ pending = NoDrafts
  /\ cycle.accepted = 0
  /\ cycle.padding = Padding(cycle.drafts.count)
  /\ ~policy.native => cycle.draft = 0
  /\ Fits(generated + 1, cycle.draft)
  /\ Settled(kv["mtp"], DecodeAt)
  /\ FixedWidth =>
       IF cycle.drafts.count = 0
       THEN /\ generated = 0 \/ Exhausted(generated)
            /\ cycle.draft = 0 <=> Exhausted(generated + 1)
       ELSE MtpHas(DecodeAt + Usable(cycle.drafts))

Filling ==
  /\ Prefix <= cycle.at /\ cycle.at <= DecodeAt
  /\ TargetHas(cycle.at) /\ Closed

Verified ==
  /\ TargetHas(DecodeAt + 1)
  /\ 0 .. DecodeAt + cycle.drafts.matching \subseteq rows["target"]
  /\ OpenRows(kv["target"], DecodeAt + 1, cycle.drafts.count + cycle.padding)

Accounted ==
  /\ generated < request.budget
  /\ processed = Prefix
  /\ cycle.emitted = cycle.accepted + 1
  /\ generated + cycle.emitted <= request.budget
  /\ TargetHas(DecodeAt + 1 + cycle.accepted) /\ Closed
  /\ Settled(kv["mtp"], DecodeAt + cycle.emitted)

Chaining ==
  /\ policy.native
  /\ cycle.draft > 0
  /\ Fits(generated + cycle.emitted, cycle.draft)
  /\ cycle.from <= DecodeAt + cycle.accepted
  /\ FixedWidth => MtpHas(cycle.from)

Recording ==
  /\ Fits(generated + cycle.emitted, pending.count)
  /\ FixedWidth => IF pending.count = 0 THEN Exhausted(generated + cycle.emitted)
                   ELSE MtpHas(DecodeAt + cycle.emitted + Usable(pending))

Over == processed = DecodeAt /\ TargetHas(processed) /\ Closed

SInv ==
  /\ Types
  /\ pc = "idle" => Idle
  /\ pc \in {"prefill", "accept"} => Planned
  /\ pc = "prefill" => Filling
  /\ pc = "accept" => Verified
  /\ pc \in {"draft", "record"} => Accounted
  /\ pc = "draft" => Chaining
  /\ pc = "record" => Recording
  /\ pc = "done" => Over

LEMMA Positioned ==
  ASSUME RequestOK, generated \in Nat
  PROVE  /\ Prefix \in Nat /\ DecodeAt \in Nat /\ Prefix <= DecodeAt
         /\ policy.native => Prefix = IF generated = 0 THEN 0 ELSE DecodeAt
BY DEF RequestOK, Prefix, DecodeAt

LEMMA NoDraftsDrafted == NoDrafts \in Drafted /\ NoDrafts.count = 0 /\ NoDrafts.matching = 0
BY DEF NoDrafts, Drafted

LEMMA NoCycleIsCycle == NoCycle \in Cycles /\ NoCycle.accepted = 0
BY NoDraftsDrafted DEF NoCycle, Cycles

(* What a row is after n rows were written from start on.                   *)
LEMMA RowsComputed ==
  ASSUME rows \in [Layer -> SUBSET Int], NEW l \in Layer, NEW ledger,
         NEW start \in Nat, NEW n \in Nat, NEW good \in Int,
         0 .. start - 1 \subseteq ledger.covered, 0 .. start - 1 \subseteq rows[l]
  PROVE  /\ Computed(l, ledger, start, n, good) \in SUBSET Int
         /\ \A p \in Nat : (p < start + n /\ p <= good) \/ p < start
                             => p \in Computed(l, ledger, start, n, good)
<1>1. start + n - 1 \in Int /\ good \in Int
  OBVIOUS
<1>2. PICK m \in Int : m = Min({start + n - 1, good})
                       /\ m = IF start + n - 1 <= good THEN start + n - 1 ELSE good
  BY <1>1, MinOfTwo
<1>3. Computed(l, ledger, start, n, good)
        = (rows[l] \ (start .. start + n - 1)) \union start .. m
  BY <1>2 DEF Computed
<1>4. rows[l] \in SUBSET Int
  OBVIOUS
<1>5. ASSUME NEW p \in Nat, (p < start + n /\ p <= good) \/ p < start
      PROVE  p \in (rows[l] \ (start .. start + n - 1)) \union start .. m
  <2>1. CASE p < start
    <3>1. p \in 0 .. start - 1 /\ p \notin start .. start + n - 1
      BY <2>1
    <3> QED BY <3>1
  <2>2. CASE ~(p < start)
    <3>1. p \in start .. m
      BY <1>2, <1>5, <2>2
    <3> QED BY <3>1
  <2> QED BY <2>1, <2>2
<1> QED BY <1>3, <1>4, <1>5

-----------------------------------------------------------------------------
(* The actions, one by one.                                                 *)

LEMMA InitHolds == Init => SInv
<1> SUFFICES ASSUME Init PROVE SInv
  OBVIOUS
<1>1. RequestOK
  <2>1. request.prompt \in MinPrompt .. MaxPrompt /\ request.cached \in 0 .. MaxPrompt - 1
        /\ request.budget \in 1 .. MaxBudget
        /\ request = [prompt |-> request.prompt, cached |-> request.cached,
                      budget |-> request.budget]
    BY DEF Init
  <2>2. request.prompt \in Nat \ {0} /\ request.cached \in Nat /\ request.budget \in Nat \ {0}
        /\ request.prompt >= MinPrompt
    BY <2>1, Constants
  <2>3. request \in [prompt : Nat \ {0}, cached : Nat, budget : Nat \ {0}]
    BY <2>1, <2>2
  <2> QED BY <2>2, <2>3 DEF Init, RequestOK
<1>2. generated = 0 /\ pc = "idle" /\ processed = request.cached /\ pending = NoDrafts
      /\ cycle = NoCycle /\ width = FreshWidth
  BY DEF Init
<1>3. request.prompt \in Nat \ {0} /\ request.cached \in Nat /\ request.budget \in Nat \ {0}
  BY <1>1 DEF RequestOK
<1>4. Prefix = request.cached /\ DecodeAt \in Nat
  BY <1>2, <1>3 DEF Prefix, DecodeAt
<1>5. kv["mtp"] = EmptyLedger /\ rows["mtp"] = {} /\ rows["target"] = 0 .. request.cached - 1
      /\ rows \in [Layer -> SUBSET Int] /\ DOMAIN kv = Layer
  BY DEF Init, Layer
<1>6. kv["target"] = IF request.cached > 0 THEN RecordBlock(EmptyLedger, 0, request.cached)
                                           ELSE EmptyLedger
  BY DEF Init, Layer
<1>7. Open(EmptyLedger.writes) = {}
  BY DEF Open, EmptyLedger
<1>8. /\ Sound(kv["target"]) /\ Open(kv["target"].writes) = {}
      /\ kv["target"].covered = 0 .. request.cached - 1
  <2>1. CASE request.cached > 0
    <3>1. 0 \in Nat /\ request.cached \in Nat \ {0} /\ Sound(EmptyLedger)
      BY <1>3, <2>1, EmptyIsSound
    <3> DEFINE M == RecordBlock(EmptyLedger, 0, request.cached)
    <3>2. Sound(M) /\ Open(M.writes) = Open(EmptyLedger.writes)
          /\ M.covered = EmptyLedger.covered \union 0 .. 0 + request.cached - 1
      <4>1. Sound(M)
        BY <3>1, BlockRecorded
      <4>2. Open(M.writes) = Open(EmptyLedger.writes)
        BY <3>1, BlockRecorded
      <4>3. M.covered = EmptyLedger.covered \union 0 .. 0 + request.cached - 1
        BY <3>1 DEF RecordBlock, EmptyLedger, Positions, End
      <4> QED BY <4>1, <4>2, <4>3
    <3> HIDE DEF M
    <3>3. kv["target"] = M
      BY <1>6, <2>1 DEF M
    <3>4. 0 .. 0 + request.cached - 1 = 0 .. request.cached - 1
      BY <1>3
    <3> QED BY <1>7, <3>2, <3>3, <3>4, EmptyIsSound
  <2>2. CASE ~(request.cached > 0)
    <3>1. 0 .. request.cached - 1 = {}
      BY <1>3, <2>2
    <3> QED BY <1>6, <1>7, <2>2, <3>1, EmptyIsSound
  <2> QED BY <2>1, <2>2
<1>9. kv \in [Layer -> Ledger]
  <2>1. \A l \in Layer : kv[l] \in Ledger
    BY <1>5, <1>8, EmptyIsSound DEF Layer, Sound
  <2>2. kv = [l \in Layer |-> kv[l]]
    BY DEF Init
  <2> QED BY <2>1, <2>2
<1>10. Types
  BY <1>1, <1>2, <1>3, <1>5, <1>8, <1>9, EmptyIsSound, NoDraftsDrafted, NoCycleIsCycle,
     FreshIsWidth DEF Types
<1>11. Settled(kv["mtp"], DecodeAt)
  BY <1>5 DEF Settled, EmptyLedger
<1>12. Idle
  BY <1>2, <1>3, <1>4, <1>5, <1>8, <1>11, NoDraftsDrafted
     DEF Idle, TargetHas, Closed, Fits
<1> QED BY <1>2, <1>10, <1>12 DEF SInv

LEMMA SameRequest ==
  ASSUME UNCHANGED <<policy, request>>, RequestOK
  PROVE  RequestOK' /\ Capacity' = Capacity /\ FixedWidth' = FixedWidth
BY DEF RequestOK, Capacity, FixedWidth

LEMMA SamePlace ==
  ASSUME UNCHANGED <<request, generated>>
  PROVE  Prefix' = Prefix /\ DecodeAt' = DecodeAt
BY DEF Prefix, DecodeAt

LEMMA AnswerInBounds ==
  ASSUME RequestOK, NEW a \in Widths
  PROVE  AskWidth(a) \in Widths /\ WidthAnswer(a) \in 0 .. MaxDrafts
BY Policy, AskedIsWidth DEF AskWidth, WidthAnswer

LEMMA StartCycleKeeps ==
  ASSUME SInv, StartCycle
  PROVE  SInv'
<1>1. Types /\ Idle /\ RequestOK /\ pc = "idle"
  BY DEF SInv, StartCycle, Types
<1>2. /\ generated \in Nat /\ generated < request.budget /\ request.budget \in Nat
      /\ pending \in Drafted /\ width \in Widths /\ processed = Prefix
  BY <1>1 DEF Types, Idle, RequestOK
<1>3. Prefix \in Nat /\ DecodeAt \in Nat /\ Prefix <= DecodeAt
  BY <1>1, <1>2, Positioned
<1>4. PICK d \in Offered :
        LET scalar == policy.native /\ d.count = 0
            asked  == IF scalar THEN AskWidth(width) ELSE width
            span   == DecodeAt + 1 + d.count + Padding(d.count)
        IN  /\ width' = asked
            /\ cycle' = [NoCycle EXCEPT
                           !.drafts = d, !.padding = Padding(d.count), !.at = Prefix,
                           !.draft = IF scalar THEN DraftLimit(1, WidthAnswer(asked)) ELSE 0]
            /\ pc' = IF span <= Capacity THEN "prefill" ELSE "failed"
  BY DEF StartCycle
<1>5. pending' = NoDrafts /\ UNCHANGED <<policy, request, generated, processed, kv, rows>>
  BY DEF StartCycle
<1>6. d \in Drafted /\ Fits(generated, d.count) /\ (policy.native => d = pending)
  <2>1. CASE policy.native
    BY <1>1, <1>2, <1>4, <2>1 DEF Offered, Idle
  <2>2. CASE ~policy.native
    <3>1. PICK x \in Nat : x = request.budget - generated - 1
      BY <1>2
    <3>2. MaxDrafts \in Int /\ x \in Int /\ MaxDrafts \in Nat
      BY Constants
    <3>3. PICK most \in Nat : most = Min({MaxDrafts, x}) /\ most <= x
      <4>1. Min({MaxDrafts, x}) = IF MaxDrafts <= x THEN MaxDrafts ELSE x
        BY <3>2, MinOfTwo
      <4> QED BY <3>2, <4>1
    <3>4. d \in Proposals(most)
      BY <1>4, <2>2, <3>1, <3>3 DEF Offered
    <3>5. d \in Drafted /\ d.count <= most
      BY <3>4 DEF Proposals, Drafted
    <3>6. Capacity \in Nat /\ request.prompt + request.budget <= Capacity /\ request.prompt \in Nat
      BY <1>1, CapacityIsWide DEF RequestOK
    <3>7. d.count \in Nat
      BY <3>5 DEF Drafted
    <3>8. Fits(generated, d.count)
      BY <1>2, <3>1, <3>3, <3>5, <3>6, <3>7 DEF Fits
    <3> QED BY <2>2, <3>5, <3>8
  <2> QED BY <2>1, <2>2
<1>7. d.count \in Nat /\ d.matching \in Nat /\ d.matching <= d.count
  BY <1>6 DEF Drafted
<1>8. pc' = "prefill" /\ Padding(d.count) \in {0, 1}
  BY <1>1, <1>2, <1>4, <1>6, <1>7, SpanFits
<1>9. width' \in Widths
  BY <1>1, <1>2, <1>4, AnswerInBounds
<1> DEFINE draft == IF policy.native /\ d.count = 0 THEN DraftLimit(1, WidthAnswer(width')) ELSE 0
<1>10. /\ draft \in Nat
       /\ Fits(generated + 1, draft)
       /\ ~policy.native => draft = 0
       /\ FixedWidth /\ d.count = 0 => (draft = 0 <=> Exhausted(generated + 1))
  <2>1. CASE policy.native /\ d.count = 0
    <3>1. PICK w \in 0 .. MaxDrafts : w = WidthAnswer(width')
      BY <1>1, <1>9, AnswerInBounds
    <3>2. 1 \in Nat
      OBVIOUS
    <3>3. DraftLimit(1, w) \in 0 .. MaxDrafts
      BY <1>1, <1>2, <3>2, LimitFits
    <3>4. Fits(generated + 1, DraftLimit(1, w))
      BY <1>1, <1>2, <3>2, LimitFits
    <3>5. policy.fixed > 0 /\ w = policy.fixed
             => (DraftLimit(1, w) = 0 <=> Exhausted(generated + 1))
      BY <1>1, <1>2, <3>2, LimitFits
    <3>6. policy.fixed > 0 => w = policy.fixed
      BY <3>1 DEF WidthAnswer
    <3>7. draft = DraftLimit(1, w)
      BY <2>1, <3>1
    <3> QED BY <2>1, <3>3, <3>4, <3>5, <3>6, <3>7 DEF FixedWidth
  <2>2. CASE ~(policy.native /\ d.count = 0)
    BY <2>2 DEF Fits, FixedWidth
  <2> QED BY <2>1, <2>2
<1>11. cycle' = [NoCycle EXCEPT !.drafts = d, !.padding = Padding(d.count), !.at = Prefix,
                                !.draft = draft]
  BY <1>4
<1> HIDE DEF draft
<1>12. /\ cycle' \in Cycles
       /\ cycle'.drafts = d /\ cycle'.padding = Padding(d.count) /\ cycle'.at = Prefix
       /\ cycle'.draft = draft /\ cycle'.accepted = 0
  BY <1>3, <1>6, <1>8, <1>10, <1>11, NoCycleIsCycle DEF Cycles
<1>13. RequestOK' /\ Capacity' = Capacity /\ FixedWidth' = FixedWidth
       /\ Prefix' = Prefix /\ DecodeAt' = DecodeAt
  BY <1>1, <1>5, SameRequest, SamePlace
<1>14. Types'
  BY <1>1, <1>5, <1>8, <1>9, <1>12, <1>13, NoDraftsDrafted DEF Types
<1>15. Filling'
  BY <1>1, <1>3, <1>5, <1>12, <1>13 DEF Idle, Filling, TargetHas, Closed
<1>16. Fits(generated + 1, cycle.draft)'
  BY <1>5, <1>10, <1>12, <1>13 DEF Fits
<1>17. FixedWidth =>
         IF d.count = 0
         THEN /\ generated = 0 \/ Exhausted(generated)
              /\ draft = 0 <=> Exhausted(generated + 1)
         ELSE MtpHas(DecodeAt + Usable(d))
  BY <1>1, <1>6, <1>10 DEF Idle, FixedWidth
<1>18. Planned'
  <2>1. (FixedWidth =>
           IF cycle.drafts.count = 0
           THEN /\ generated = 0 \/ Exhausted(generated)
                /\ cycle.draft = 0 <=> Exhausted(generated + 1)
           ELSE MtpHas(DecodeAt + Usable(cycle.drafts)))'
    BY <1>5, <1>12, <1>13, <1>17 DEF Exhausted, MtpHas, Usable
  <2>2. Settled(kv["mtp"], DecodeAt)'
    BY <1>1, <1>5, <1>13 DEF Idle, Settled
  <2>3. (cycle.padding = Padding(cycle.drafts.count))'
    BY <1>5, <1>12 DEF Padding
  <2> QED BY <1>2, <1>5, <1>10, <1>12, <1>13, <1>16, <2>1, <2>2, <2>3 DEF Planned
<1> QED BY <1>8, <1>14, <1>15, <1>18 DEF SInv

LEMMA PrefillChunkKeeps ==
  ASSUME SInv, PrefillChunk
  PROVE  SInv'
<1>1. Types /\ Planned /\ Filling /\ RequestOK /\ pc = "prefill" /\ cycle.at < DecodeAt
  BY DEF SInv, PrefillChunk, Types
<1>2. generated \in Nat /\ Sound(kv["target"]) /\ rows \in [Layer -> SUBSET Int]
      /\ kv \in [Layer -> Ledger] /\ cycle \in Cycles
  BY <1>1 DEF Types
<1>3. Prefix \in Nat /\ DecodeAt \in Nat /\ cycle.at \in Nat
  BY <1>1, <1>2, Positioned DEF Cycles
<1>4. PICK n \in Nat \ {0} : n = Min({ChunkTokens, DecodeAt - cycle.at}) /\ n <= DecodeAt - cycle.at
  <2>1. PICK x \in Nat \ {0} : x = DecodeAt - cycle.at
    BY <1>1, <1>3
  <2>2. ChunkTokens \in Int /\ x \in Int /\ ChunkTokens \in Nat \ {0}
    BY Constants
  <2>3. Min({ChunkTokens, x}) = IF ChunkTokens <= x THEN ChunkTokens ELSE x
    BY <2>2, MinOfTwo
  <2> QED BY <2>1, <2>2, <2>3
<1> DEFINE L == kv["target"]
           M == RecordBlock(L, cycle.at, n)
           R == Computed("target", L, cycle.at, n, DecodeAt)
<1>5. /\ rows' = [rows EXCEPT !["target"] = R]
      /\ kv' = [kv EXCEPT !["target"] = M]
      /\ cycle' = [cycle EXCEPT !.at = @ + n]
  BY <1>4 DEF PrefillChunk
<1>6. UNCHANGED <<policy, request, pc, generated, processed, pending, width>>
  BY DEF PrefillChunk
<1>7. L.covered = 0 .. cycle.at - 1 /\ 0 .. cycle.at - 1 \subseteq rows["target"]
      /\ Open(L.writes) = {}
  BY <1>1 DEF Filling, TargetHas, Closed
<1>8. /\ R \in SUBSET Int
      /\ \A p \in Nat :
           (p < cycle.at + n /\ p <= DecodeAt) \/ p < cycle.at => p \in R
  <2>1. "target" \in Layer /\ DecodeAt \in Int
    BY <1>3 DEF Layer
  <2> HIDE DEF L
  <2>2. 0 .. cycle.at - 1 \subseteq L.covered
    BY <1>7
  <2>3. R \in SUBSET Int
    BY <1>2, <1>3, <1>7, <2>1, <2>2, RowsComputed
  <2>4. \A p \in Nat : (p < cycle.at + n /\ p <= DecodeAt) \/ p < cycle.at => p \in R
    BY <1>2, <1>3, <1>7, <2>1, <2>2, RowsComputed
  <2> QED BY <2>3, <2>4
<1>9. Sound(M) /\ Open(M.writes) = {} /\ M.covered = 0 .. cycle.at + n - 1
  <2> HIDE DEF L
  <2>1. Sound(L)
    BY <1>2 DEF L
  <2>2. Sound(M)
    BY <1>3, <2>1, BlockRecorded
  <2>3. Open(M.writes) = Open(L.writes)
    BY <1>3, <2>1, BlockRecorded
  <2>4. M.covered = L.covered \union cycle.at .. cycle.at + n - 1
    BY <1>3, <2>1, BlockCovers
  <2> HIDE DEF M
  <2>5. 0 .. cycle.at + n - 1 = 0 .. cycle.at - 1 \union cycle.at .. cycle.at + n - 1
    BY <1>3
  <2> QED BY <1>7, <2>2, <2>3, <2>4, <2>5
<1> HIDE DEF L, M, R
<1>10. /\ cycle' \in Cycles /\ cycle'.at = cycle.at + n
       /\ cycle'.drafts = cycle.drafts /\ cycle'.padding = cycle.padding
       /\ cycle'.draft = cycle.draft /\ cycle'.accepted = cycle.accepted
  BY <1>2, <1>5 DEF Cycles
<1>11. /\ kv'["target"] = M /\ kv'["mtp"] = kv["mtp"]
       /\ rows'["target"] = R /\ rows'["mtp"] = rows["mtp"]
       /\ kv' \in [Layer -> Ledger] /\ rows' \in [Layer -> SUBSET Int]
  BY <1>2, <1>5, <1>8, <1>9 DEF Layer, Sound
<1>12. RequestOK' /\ Capacity' = Capacity /\ FixedWidth' = FixedWidth
       /\ Prefix' = Prefix /\ DecodeAt' = DecodeAt
  BY <1>1, <1>6, SameRequest, SamePlace
<1>13. Types'
  BY <1>1, <1>6, <1>9, <1>10, <1>11, <1>12 DEF Types
<1>14. Filling'
  <2>1. 0 .. cycle.at + n - 1 \subseteq R
    <3> SUFFICES ASSUME NEW p \in 0 .. cycle.at + n - 1 PROVE p \in R
      OBVIOUS
    <3>1. p \in Nat /\ p < cycle.at + n /\ p <= DecodeAt
      BY <1>3, <1>4
    <3> QED BY <1>8, <3>1
  <2>2. Prefix <= cycle.at + n /\ cycle.at + n <= DecodeAt
    BY <1>1, <1>3, <1>4 DEF Filling
  <2>3. TargetHas(cycle.at)'
    <3>0. PICK e \in Int : e = cycle.at + n - 1 /\ e = cycle'.at - 1
      BY <1>3, <1>10
    <3>1. kv'["target"].covered = 0 .. e
      BY <1>9, <1>11, <3>0
    <3>2. 0 .. e \subseteq rows'["target"]
      BY <1>11, <2>1, <3>0
    <3> QED BY <3>0, <3>1, <3>2 DEF TargetHas
  <2> QED BY <1>9, <1>10, <1>11, <1>12, <2>2, <2>3 DEF Filling, Closed
<1>15. Planned'
  BY <1>1, <1>6, <1>10, <1>11, <1>12
     DEF Planned, Fits, Exhausted, MtpHas, Usable, Settled, Padding
<1>16. pc' = "prefill"
  BY <1>1, <1>6
<1> QED BY <1>13, <1>14, <1>15, <1>16 DEF SInv

LEMMA RunTargetKeeps ==
  ASSUME SInv, RunTarget
  PROVE  SInv'
<1>1. Types /\ Planned /\ Filling /\ RequestOK /\ pc = "prefill" /\ cycle.at = DecodeAt
  BY DEF SInv, RunTarget, Types
<1>2. generated \in Nat /\ Sound(kv["target"]) /\ rows \in [Layer -> SUBSET Int]
      /\ kv \in [Layer -> Ledger] /\ cycle \in Cycles
  BY <1>1 DEF Types
<1>3. DecodeAt \in Nat
  BY <1>1, <1>2, Positioned
<1>4. /\ cycle.drafts.count \in Nat /\ cycle.drafts.matching \in Nat
      /\ cycle.drafts.matching <= cycle.drafts.count /\ cycle.padding \in {0, 1}
  BY <1>2 DEF Cycles, Drafted
<1>5. PICK n \in Nat : n = cycle.drafts.count + cycle.padding
  BY <1>4
<1> DEFINE L == kv["target"]
           D == RecordBlock(L, DecodeAt, 1)
           M == RecordTentative(D, DecodeAt + 1, n)
           R == Computed("target", L, DecodeAt, 1 + n, DecodeAt + cycle.drafts.matching)
<1>6. /\ rows' = [rows EXCEPT !["target"] = R]
      /\ kv' = [kv EXCEPT !["target"] = M]
      /\ pc' = "accept"
  BY <1>5 DEF RunTarget
<1>7. UNCHANGED <<policy, request, cycle, generated, processed, pending, width>>
  BY DEF RunTarget
<1>8. L.covered = 0 .. DecodeAt - 1 /\ 0 .. DecodeAt - 1 \subseteq rows["target"]
      /\ Open(L.writes) = {}
  BY <1>1 DEF Filling, TargetHas, Closed
<1>9. /\ R \in SUBSET Int
      /\ \A p \in Nat :
           \/ p < DecodeAt + (1 + n) /\ p <= DecodeAt + cycle.drafts.matching
           \/ p < DecodeAt
           => p \in R
  <2>1. "target" \in Layer /\ DecodeAt + cycle.drafts.matching \in Int /\ 1 + n \in Nat
    BY <1>3, <1>4 DEF Layer
  <2> HIDE DEF L
  <2>2. 0 .. DecodeAt - 1 \subseteq L.covered
    BY <1>8
  <2>3. R \in SUBSET Int
    BY <1>2, <1>3, <1>8, <2>1, <2>2, RowsComputed
  <2>4. \A p \in Nat :
           \/ p < DecodeAt + (1 + n) /\ p <= DecodeAt + cycle.drafts.matching
           \/ p < DecodeAt
           => p \in R
    BY <1>2, <1>3, <1>8, <2>1, <2>2, RowsComputed
  <2> QED BY <2>3, <2>4
<1>10. Sound(D) /\ Open(D.writes) = {} /\ D.covered = 0 .. DecodeAt
  <2> HIDE DEF L
  <2>1. Sound(L) /\ 1 \in Nat \ {0}
    BY <1>2 DEF L
  <2>2. Sound(D)
    BY <1>3, <2>1, BlockRecorded
  <2>3. Open(D.writes) = Open(L.writes)
    BY <1>3, <2>1, BlockRecorded
  <2>4. D.covered = L.covered \union DecodeAt .. DecodeAt + 1 - 1
    BY <1>3, <2>1, BlockCovers
  <2> HIDE DEF D
  <2>5. 0 .. DecodeAt = 0 .. DecodeAt - 1 \union DecodeAt .. DecodeAt + 1 - 1
    BY <1>3
  <2> QED BY <1>8, <2>2, <2>3, <2>4, <2>5
<1> HIDE DEF D
<1>11. Sound(M) /\ M.covered = 0 .. DecodeAt /\ OpenRows(M, DecodeAt + 1, n)
  <2>1. DecodeAt + 1 \in Nat
    BY <1>3
  <2>2. Sound(M)
    BY <1>10, <2>1, TentativeRecorded
  <2>3. M.covered = D.covered
    BY <1>10, <2>1, TentativeRecorded
  <2>4. OpenRows(M, DecodeAt + 1, n)
    BY <1>10, <2>1, TentativeRecorded
  <2> HIDE DEF M
  <2> QED BY <1>10, <2>2, <2>3, <2>4
<1> HIDE DEF L, M, R
<1>12. /\ kv'["target"] = M /\ kv'["mtp"] = kv["mtp"]
       /\ rows'["target"] = R /\ rows'["mtp"] = rows["mtp"]
       /\ kv' \in [Layer -> Ledger] /\ rows' \in [Layer -> SUBSET Int]
  BY <1>2, <1>6, <1>9, <1>11 DEF Layer, Sound
<1>13. RequestOK' /\ Capacity' = Capacity /\ FixedWidth' = FixedWidth
       /\ Prefix' = Prefix /\ DecodeAt' = DecodeAt
  BY <1>1, <1>7, SameRequest, SamePlace
<1>14. Types'
  BY <1>1, <1>6, <1>7, <1>11, <1>12, <1>13 DEF Types
<1>15. Verified'
  <2>2. 0 .. DecodeAt + cycle.drafts.matching \subseteq R
    <3> SUFFICES ASSUME NEW p \in 0 .. DecodeAt + cycle.drafts.matching PROVE p \in R
      OBVIOUS
    <3>1. p \in Nat
      BY <1>3, <1>4
    <3>2. p < DecodeAt + (1 + n) /\ p <= DecodeAt + cycle.drafts.matching
      BY <1>3, <1>4, <1>5
    <3>3. (p < DecodeAt + (1 + n) /\ p <= DecodeAt + cycle.drafts.matching) \/ p < DecodeAt
            => p \in R
      BY <1>9, <3>1
    <3> QED BY <3>2, <3>3
  <2>1. 0 .. DecodeAt \subseteq R
    <3>1. 0 .. DecodeAt \subseteq 0 .. DecodeAt + cycle.drafts.matching
      BY <1>3, <1>4
    <3> QED BY <2>2, <3>1
  <2>3. 0 .. DecodeAt + 1 - 1 = 0 .. DecodeAt
    BY <1>3
  <2>4. TargetHas(DecodeAt + 1)'
    <3>1. kv'["target"].covered = 0 .. DecodeAt + 1 - 1
      BY <1>11, <1>12, <2>3
    <3>2. 0 .. DecodeAt + 1 - 1 \subseteq rows'["target"]
      BY <1>12, <2>1, <2>3
    <3> QED BY <1>3, <1>13, <3>1, <3>2 DEF TargetHas
  <2>5. OpenRows(kv["target"], DecodeAt + 1, cycle.drafts.count + cycle.padding)'
    BY <1>5, <1>7, <1>11, <1>12, <1>13 DEF OpenRows
  <2> QED BY <1>7, <1>12, <1>13, <2>2, <2>4, <2>5 DEF Verified
<1>16. Planned'
  BY <1>1, <1>7, <1>12, <1>13
     DEF Planned, Fits, Exhausted, MtpHas, Usable, Settled, Padding
<1> QED BY <1>6, <1>14, <1>15, <1>16 DEF SInv

LEMMA AcceptScalarKeeps ==
  ASSUME SInv, AcceptScalar
  PROVE  SInv'
<1>1. Types /\ Planned /\ Verified /\ RequestOK /\ pc = "accept" /\ cycle.drafts.count = 0
  BY DEF SInv, AcceptScalar, Types
<1>2. generated \in Nat /\ cycle \in Cycles
  BY <1>1 DEF Types
<1>3. Prefix \in Nat /\ DecodeAt \in Nat /\ Prefix <= DecodeAt
      /\ (policy.native => Prefix = IF generated = 0 THEN 0 ELSE DecodeAt)
  BY <1>1, <1>2, Positioned
<1>4. /\ cycle' = [cycle EXCEPT !.emitted = 1, !.from = Prefix]
      /\ pc' = IF cycle.draft > 0 THEN "draft" ELSE "record"
      /\ UNCHANGED <<policy, request, generated, processed, pending, width, kv, rows>>
  BY DEF AcceptScalar
<1>5. /\ cycle' \in Cycles /\ cycle'.emitted = 1 /\ cycle'.from = Prefix
      /\ cycle'.draft = cycle.draft /\ cycle'.accepted = 0 /\ cycle.draft \in Nat
  BY <1>1, <1>2, <1>3, <1>4 DEF Cycles, Planned
<1>6. RequestOK' /\ Capacity' = Capacity /\ FixedWidth' = FixedWidth
      /\ Prefix' = Prefix /\ DecodeAt' = DecodeAt
  BY <1>1, <1>4, SameRequest, SamePlace
<1>7. Types'
  BY <1>1, <1>4, <1>5, <1>6 DEF Types
<1>8. Open(kv["target"].writes) = {}
  <2>1. cycle.drafts.count + cycle.padding = 0
    BY <1>1 DEF Planned, Padding
  <2>2. DecodeAt + 1 .. DecodeAt + 1 + 0 - 1 = {}
    BY <1>3
  <2>3. OpenRows(kv["target"], DecodeAt + 1, 0)
    BY <1>1, <2>1 DEF Verified
  <2> QED BY <2>2, <2>3 DEF OpenRows
<1>9. Accounted'
  <2>1. TargetHas(DecodeAt + 1)
    BY <1>1 DEF Verified
  <2>2. TargetHas(DecodeAt + 1 + cycle.accepted)'
    <3>1. DecodeAt + 1 + 0 = DecodeAt + 1
      BY <1>3
    <3> QED BY <1>4, <1>5, <1>6, <2>1, <3>1 DEF TargetHas
  <2>3. Settled(kv["mtp"], DecodeAt + 1)
    <3>1. Sound(kv["mtp"]) /\ Settled(kv["mtp"], DecodeAt)
      BY <1>1 DEF Types, Planned
    <3>2. DecodeAt \in Int /\ DecodeAt + 1 \in Int /\ DecodeAt <= DecodeAt + 1
      BY <1>3
    <3> QED BY <3>1, <3>2, SettledGrows
  <2>4. Settled(kv["mtp"], DecodeAt + cycle.emitted)'
    BY <1>4, <1>5, <1>6, <2>3 DEF Settled
  <2>5. generated + 1 <= request.budget
    BY <1>1, <1>2 DEF Planned, RequestOK
  <2>6. Closed'
    BY <1>4, <1>8 DEF Closed
  <2> QED BY <1>1, <1>4, <1>5, <1>6, <2>2, <2>4, <2>5, <2>6 DEF Accounted, Planned
<1>10. CASE cycle.draft > 0
  <2>1. Chaining'
    <3>1. policy.native
      BY <1>1, <1>10 DEF Planned
    <3>2. Prefix <= DecodeAt + 0
      BY <1>3
    <3>3. FixedWidth => MtpHas(Prefix)
      <4>1. ASSUME FixedWidth PROVE generated = 0
        <5>1. generated = 0 \/ Exhausted(generated)
          BY <1>1, <4>1 DEF Planned
        <5>2. Exhausted(generated) => Exhausted(generated + 1)
          BY <1>1, <1>2, ExhaustedStays
        <5>3. ~Exhausted(generated + 1)
          BY <1>1, <1>10, <4>1 DEF Planned
        <5> QED BY <5>1, <5>2, <5>3
      <4>2. generated = 0 => 0 .. Prefix - 1 = {}
        BY <1>3, <3>1
      <4> QED BY <4>1, <4>2 DEF MtpHas
    <3> QED BY <1>1, <1>4, <1>5, <1>6, <1>10, <3>1, <3>2, <3>3 DEF Chaining, Planned, Fits, MtpHas
  <2> QED BY <1>4, <1>7, <1>9, <1>10, <2>1 DEF SInv
<1>11. CASE ~(cycle.draft > 0)
  <2>1. cycle.draft = 0 /\ pc' = "record" /\ pending'.count = 0
    BY <1>1, <1>4, <1>5, <1>11, NoDraftsDrafted DEF Planned
  <2>2. FixedWidth => Exhausted(generated + 1)
    BY <1>1, <2>1 DEF Planned
  <2>3. Recording'
    BY <1>4, <1>5, <1>6, <2>1, <2>2 DEF Recording, Fits, Exhausted
  <2> QED BY <1>7, <1>9, <2>1, <2>3 DEF SInv
<1> QED BY <1>10, <1>11

LEMMA AcceptDraftsKeeps ==
  ASSUME SInv, AcceptDrafts
  PROVE  SInv'
<1> DEFINE d        == cycle.drafts
           accepted == Accepted(d)
           emitted  == accepted + 1
           boundary == DecodeAt + IF FullMatch(d) THEN accepted - 1 ELSE accepted
           drafts   == d.count + cycle.padding
           first    == DecodeAt + 1
           resolved == Resolve(kv["target"], first, drafts, accepted)
           seen     == [proposed |-> d.count, accepted |-> accepted]
           judged   == IF policy.fixed > 0 THEN width ELSE Observed(width, seen, policy.m2)
           next     == DraftLimit(emitted, WidthAnswer(AskWidth(judged)))
<1>1. Types /\ Planned /\ Verified /\ RequestOK /\ pc = "accept" /\ d.count > 0
  BY DEF SInv, AcceptDrafts, Types
<1>2. /\ generated \in Nat /\ generated < request.budget /\ request.budget \in Nat
      /\ cycle \in Cycles /\ width \in Widths /\ d \in Drafted
      /\ Sound(kv["target"]) /\ Sound(kv["mtp"])
      /\ kv \in [Layer -> Ledger] /\ rows \in [Layer -> SUBSET Int]
  BY <1>1 DEF Types, Planned, RequestOK, Cycles
<1>3. DecodeAt \in Nat
  BY <1>1, <1>2, Positioned
<1>4. /\ d.count \in Nat \ {0} /\ d.matching \in Nat /\ d.matching <= d.count
      /\ cycle.padding \in {0, 1}
  BY <1>1, <1>2 DEF Cycles, Drafted
<1>5. /\ accepted \in Nat /\ accepted <= d.count /\ accepted <= d.matching
      /\ generated + accepted + 1 <= request.budget
      /\ FullMatch(d) => accepted = d.count /\ d.matching = d.count
      /\ ~FullMatch(d) => accepted <= d.count - 1
  <2> HIDE DEF d
  <2> QED BY <1>1, <1>2, AcceptedInBounds
<1>6. /\ boundary \in Nat /\ DecodeAt <= boundary /\ boundary <= DecodeAt + accepted
      /\ boundary <= DecodeAt + Usable(d)
  <2> HIDE DEF d, accepted
  <2>1. CASE FullMatch(d)
    BY <1>3, <1>4, <1>5, <2>1 DEF Usable
  <2>2. CASE ~FullMatch(d)
    BY <1>3, <1>4, <1>5, <2>2 DEF Usable
  <2> QED BY <2>1, <2>2
<1>7. /\ UNCHANGED <<policy, request, generated, processed, pending, rows>>
      /\ IF policy.native
         THEN /\ kv' = [target |-> resolved, mtp |-> DiscardFrom(kv["mtp"], boundary)]
              /\ width' = AskWidth(judged)
              /\ cycle' = [cycle EXCEPT !.accepted = accepted, !.emitted = emitted,
                                        !.from = boundary, !.draft = next]
              /\ pc' = IF next > 0 THEN "draft" ELSE "record"
         ELSE /\ kv' = [kv EXCEPT !["target"] = resolved]
              /\ cycle' = [cycle EXCEPT !.accepted = accepted, !.emitted = emitted]
              /\ pc' = "record"
              /\ UNCHANGED width
  BY DEF AcceptDrafts
<1>8. /\ Sound(resolved) /\ Open(resolved.writes) = {}
      /\ resolved.covered = 0 .. DecodeAt + accepted
  <2> DEFINE L == kv["target"]
  <2> HIDE DEF accepted, d
  <2>1. /\ Sound(L) /\ first \in Nat /\ drafts \in Nat /\ accepted \in 0 .. drafts
        /\ OpenRows(L, first, drafts)
    BY <1>1, <1>2, <1>3, <1>4, <1>5 DEF Verified, d
  <2> HIDE DEF L, first, drafts
  <2>2. Sound(Resolve(L, first, drafts, accepted))
    BY <2>1, DraftsResolved
  <2>3. Open(Resolve(L, first, drafts, accepted).writes) = {}
    BY <2>1, DraftsResolved
  <2>4. PICK e \in Int : e = first + accepted - 1
    BY <2>1
  <2>5. Resolve(L, first, drafts, accepted).covered = L.covered \union first .. e
    BY <2>1, <2>4, ResolvedCovers
  <2>6. L.covered = 0 .. DecodeAt
    <3>1. 0 .. (DecodeAt + 1) - 1 = 0 .. DecodeAt
      BY <1>3
    <3>2. TargetHas(DecodeAt + 1)
      BY <1>1 DEF Verified
    <3>3. L.covered = 0 .. (DecodeAt + 1) - 1
      BY <3>2 DEF TargetHas, L
    <3> QED BY <3>1, <3>3
  <2>7. 0 .. DecodeAt \union first .. e = 0 .. DecodeAt + accepted
    BY <1>3, <1>5, <2>4 DEF first
  <2> QED BY <2>2, <2>3, <2>5, <2>6, <2>7 DEF L
<1> HIDE DEF resolved
<1>9. seen \in Observation
  BY <1>4, <1>5 DEF Observation
<1>10. judged \in Widths
  <2> HIDE DEF seen
  <2> QED BY <1>2, <1>9, ObservedIsWidth
<1> HIDE DEF judged
<1>11. /\ AskWidth(judged) \in Widths
       /\ next \in Nat
       /\ Fits(generated + emitted, next)
       /\ policy.fixed > 0 => (next = 0 <=> Exhausted(generated + emitted))
  <2>1. AskWidth(judged) \in Widths
    BY <1>1, <1>10, AnswerInBounds
  <2>2. PICK w \in 0 .. MaxDrafts : w = WidthAnswer(AskWidth(judged))
    BY <1>1, <2>1, AnswerInBounds
  <2>3. emitted \in Nat
    BY <1>5
  <2> HIDE DEF emitted
  <2>4. DraftLimit(emitted, w) \in 0 .. MaxDrafts
    BY <1>1, <1>2, <2>3, LimitFits
  <2>5. Fits(generated + emitted, DraftLimit(emitted, w))
    BY <1>1, <1>2, <2>3, LimitFits
  <2>6. policy.fixed > 0 /\ w = policy.fixed
           => (DraftLimit(emitted, w) = 0 <=> Exhausted(generated + emitted))
    BY <1>1, <1>2, <2>3, LimitFits
  <2>7. policy.fixed > 0 => w = policy.fixed
    BY <2>2 DEF WidthAnswer
  <2>8. next = DraftLimit(emitted, w)
    BY <2>2
  <2> HIDE DEF next
  <2> QED BY <2>1, <2>4, <2>5, <2>6, <2>7, <2>8
<1> HIDE DEF next
<1> DEFINE M == DiscardFrom(kv["mtp"], boundary)
<1>12. /\ Sound(M) /\ M.covered = {p \in kv["mtp"].covered : p < boundary}
       /\ Settled(M, DecodeAt + emitted)
  <2> DEFINE L == kv["mtp"]
  <2>1. Sound(L) /\ Settled(L, DecodeAt)
    BY <1>1, <1>2 DEF Planned
  <2> HIDE DEF L, boundary
  <2>2. Settled(L, boundary)
    <3>1. DecodeAt \in Int /\ boundary \in Int
      BY <1>3, <1>6
    <3> QED BY <1>6, <2>1, <3>1, SettledGrows
  <2>3. Settled(L, DecodeAt + emitted)
    <3>1. DecodeAt \in Int /\ DecodeAt + emitted \in Int /\ DecodeAt <= DecodeAt + emitted
      BY <1>3, <1>5
    <3> QED BY <2>1, <3>1, SettledGrows
  <2>4. Sound(DiscardFrom(L, boundary))
    BY <1>6, <2>1, <2>2, RestDiscarded
  <2>5. DiscardFrom(L, boundary).covered = {p \in L.covered : p < boundary}
    BY DEF DiscardFrom, Truncated
  <2>6. \A p : Settled(L, p) => Settled(DiscardFrom(L, boundary), p)
    BY <1>6, <2>1, <2>2, RestDiscarded
  <2> QED BY <2>3, <2>4, <2>5, <2>6 DEF L
<1> HIDE DEF M
<1>13. /\ kv'["target"] = resolved /\ kv' \in [Layer -> Ledger]
       /\ policy.native => kv'["mtp"] = M
       /\ ~policy.native => kv'["mtp"] = kv["mtp"]
  <2>1. CASE policy.native
    <3>1. kv' = [target |-> resolved, mtp |-> M]
      BY <1>7, <2>1 DEF M
    <3>2. resolved \in Ledger /\ M \in Ledger
      BY <1>8, <1>12 DEF Sound
    <3>3. DOMAIN kv' = Layer /\ kv'["target"] = resolved /\ kv'["mtp"] = M
      BY <3>1 DEF Layer
    <3>4. kv' = [l \in Layer |-> kv'[l]]
      BY <3>1, <3>3
    <3>5. \A l \in Layer : kv'[l] \in Ledger
      BY <3>2, <3>3 DEF Layer
    <3>6. kv' \in [Layer -> Ledger]
      BY <3>4, <3>5
    <3> QED BY <2>1, <3>3, <3>6
  <2>2. CASE ~policy.native
    BY <1>2, <1>7, <1>8, <2>2 DEF Layer, Sound
  <2> QED BY <2>1, <2>2
<1>14. /\ cycle' \in Cycles /\ cycle'.accepted = accepted /\ cycle'.emitted = emitted
       /\ policy.native => cycle'.from = boundary /\ cycle'.draft = next
       /\ width' \in Widths
       /\ pc' \in {"draft", "record"}
       /\ pc' = "draft" => policy.native /\ next > 0
       /\ pc' = "record" /\ policy.native => next = 0
  <2> HIDE DEF d, accepted, boundary
  <2>1. accepted \in Nat /\ emitted \in Nat /\ boundary \in Nat /\ next \in Nat
    BY <1>5, <1>6, <1>11
  <2>2. CASE policy.native
    <3>1. /\ cycle' \in Cycles /\ cycle'.accepted = accepted /\ cycle'.emitted = emitted
          /\ cycle'.from = boundary /\ cycle'.draft = next
      BY <1>2, <1>7, <2>1, <2>2 DEF Cycles
    <3>2. width' \in Widths
      BY <1>7, <1>11, <2>2
    <3>3. pc' = IF next > 0 THEN "draft" ELSE "record"
      BY <1>7, <2>2
    <3> QED BY <2>1, <2>2, <3>1, <3>2, <3>3
  <2>3. CASE ~policy.native
    <3>1. /\ cycle' \in Cycles /\ cycle'.accepted = accepted /\ cycle'.emitted = emitted
      BY <1>2, <1>7, <2>1, <2>3 DEF Cycles
    <3>2. width' \in Widths /\ pc' = "record"
      BY <1>2, <1>7, <2>3
    <3> QED BY <2>3, <3>1, <3>2
  <2> QED BY <2>2, <2>3
<1>15. RequestOK' /\ Capacity' = Capacity /\ FixedWidth' = FixedWidth
       /\ Prefix' = Prefix /\ DecodeAt' = DecodeAt
  BY <1>1, <1>7, SameRequest, SamePlace
<1>16. Types'
  BY <1>1, <1>2, <1>7, <1>8, <1>12, <1>13, <1>14, <1>15 DEF Types
<1> HIDE DEF d, accepted, boundary
<1>17. Accounted'
  <2>1. TargetHas(DecodeAt + 1 + cycle.accepted)'
    <3>1. PICK e \in Int : e = DecodeAt + accepted /\ e = (DecodeAt + 1 + accepted) - 1
      BY <1>3, <1>5
    <3>2. 0 .. e \subseteq rows["target"]
      <4>1. 0 .. e \subseteq 0 .. DecodeAt + d.matching
        BY <1>3, <1>4, <1>5, <3>1
      <4> QED BY <1>1, <4>1 DEF Verified, d
    <3>3. kv'["target"].covered = 0 .. e
      BY <1>8, <1>13, <3>1
    <3>4. (DecodeAt' + 1 + cycle'.accepted) - 1 = e
      BY <1>14, <1>15, <3>1
    <3>5. kv'["target"].covered = 0 .. (DecodeAt' + 1 + cycle'.accepted) - 1
      BY <3>3, <3>4
    <3>6. 0 .. (DecodeAt' + 1 + cycle'.accepted) - 1 \subseteq rows'["target"]
      BY <1>7, <3>2, <3>4
    <3> QED BY <3>5, <3>6 DEF TargetHas
  <2>2. Closed'
    BY <1>8, <1>13 DEF Closed
  <2>3. Settled(kv["mtp"], DecodeAt + cycle.emitted)'
    <3>1. CASE policy.native
      BY <1>12, <1>13, <1>14, <1>15, <3>1 DEF Settled
    <3>2. CASE ~policy.native
      <4>1. DecodeAt \in Int /\ DecodeAt + emitted \in Int /\ DecodeAt <= DecodeAt + emitted
        BY <1>3, <1>5
      <4>2. Settled(kv["mtp"], DecodeAt)
        BY <1>1 DEF Planned
      <4>3. Settled(kv["mtp"], DecodeAt + emitted)
        BY <1>2, <4>1, <4>2, SettledGrows
      <4> QED BY <1>13, <1>14, <1>15, <3>2, <4>3 DEF Settled
    <3> QED BY <3>1, <3>2
  <2>4. generated + emitted <= request.budget
    BY <1>2, <1>5
  <2> QED BY <1>1, <1>7, <1>14, <1>15, <2>1, <2>2, <2>3, <2>4 DEF Accounted, Planned
<1>18. FixedWidth => MtpHas(DecodeAt + Usable(d))
  BY <1>1 DEF Planned, d
<1>19. CASE pc' = "draft"
  <2>1. policy.native /\ next > 0 /\ policy'.native
    BY <1>7, <1>14, <1>19
  <2>2. FixedWidth => MtpHas(cycle.from)'
    <3> SUFFICES ASSUME FixedWidth PROVE MtpHas(cycle.from)'
      OBVIOUS
    <3>1. \A p \in 0 .. boundary - 1 : p \in 0 .. (DecodeAt + Usable(d)) - 1 /\ p < boundary
      BY <1>3, <1>4, <1>6 DEF Usable
    <3>3. \A p \in 0 .. boundary - 1 : p \in kv["mtp"].covered /\ p \in rows["mtp"]
      BY <1>18, <3>1 DEF MtpHas
    <3>2. 0 .. boundary - 1 \subseteq M.covered /\ 0 .. boundary - 1 \subseteq rows["mtp"]
      BY <1>12, <3>1, <3>3
    <3> QED BY <1>7, <1>13, <1>14, <2>1, <3>2 DEF MtpHas
  <2>3. Chaining'
    BY <1>6, <1>7, <1>11, <1>14, <1>15, <2>1, <2>2 DEF Chaining, Fits
  <2> QED BY <1>16, <1>17, <1>19, <2>3 DEF SInv
<1>20. CASE pc' = "record"
  <2>1. pending'.count = 0
    BY <1>1, <1>7, NoDraftsDrafted DEF Planned
  <2>2. FixedWidth => Exhausted(generated + emitted)
    BY <1>11, <1>14, <1>20 DEF FixedWidth
  <2>3. Recording'
    BY <1>7, <1>14, <1>15, <2>1, <2>2 DEF Recording, Fits, Exhausted
  <2> QED BY <1>16, <1>17, <1>20, <2>3 DEF SInv
<1> QED BY <1>14, <1>19, <1>20

LEMMA DraftKeeps ==
  ASSUME SInv, Draft
  PROVE  SInv'
<1>1. Types /\ Accounted /\ Chaining /\ RequestOK /\ pc = "draft"
  BY DEF SInv, Draft, Types
<1>2. /\ generated \in Nat /\ cycle \in Cycles
      /\ Sound(kv["target"]) /\ Sound(kv["mtp"])
      /\ kv \in [Layer -> Ledger] /\ rows \in [Layer -> SUBSET Int]
  BY <1>1 DEF Types
<1>3. DecodeAt \in Nat
  BY <1>1, <1>2, Positioned
<1>4. /\ cycle.draft \in Nat /\ cycle.draft > 0 /\ cycle.from \in Nat
      /\ cycle.accepted \in Nat /\ cycle.emitted = cycle.accepted + 1
      /\ cycle.from <= DecodeAt + cycle.accepted
  BY <1>1, <1>2 DEF Cycles, Chaining, Accounted
<1>5. PICK d \in Proposals(cycle.draft) :
        LET from  == ChainStart
            last  == DecodeAt + cycle.emitted - 1
            known == RecordBlock(kv["mtp"], from, last - from)
            base  == IF from < last THEN known ELSE kv["mtp"]
        IN  /\ d.count = cycle.draft
            /\ rows' = [rows EXCEPT !["mtp"] =
                          Computed("mtp", kv["mtp"], from, last - from + d.count,
                                   last + d.matching)]
            /\ kv' = [kv EXCEPT !["mtp"] = RecordRows(base, last, d.count)]
            /\ pending' = d
            /\ pc' = IF last + d.count <= Capacity THEN "record" ELSE "failed"
  BY DEF Draft
<1>6. UNCHANGED <<policy, request, cycle, generated, processed, width>>
  BY DEF Draft
<1>7. PICK last \in Nat : last = DecodeAt + cycle.emitted - 1 /\ last = DecodeAt + cycle.accepted
                          /\ cycle.from <= last
  BY <1>3, <1>4
<1>8. PICK from \in Nat : from = ChainStart /\ from = cycle.from /\ from <= last
  BY <1>4, <1>7 DEF ChainStart
<1>9. d \in Drafted /\ d.count = cycle.draft /\ d.count \in Nat \ {0} /\ d.matching \in Nat
      /\ d.matching <= d.count
  BY <1>4, <1>5 DEF Proposals, Drafted
<1> DEFINE L    == kv["mtp"]
           base == IF from < last THEN RecordBlock(L, from, last - from) ELSE L
           M    == RecordRows(base, last, d.count)
           R    == Computed("mtp", L, from, last - from + d.count, last + d.matching)
<1>10. /\ rows' = [rows EXCEPT !["mtp"] = R]
       /\ kv' = [kv EXCEPT !["mtp"] = M]
       /\ pending' = d
       /\ pc' = IF last + d.count <= Capacity THEN "record" ELSE "failed"
  BY <1>5, <1>7, <1>8
<1>11. /\ Sound(base) /\ Settled(base, DecodeAt + cycle.emitted)
       /\ L.covered \subseteq base.covered
       /\ \A p \in Nat : from <= p /\ p < last => p \in base.covered
  <2>1. Sound(L) /\ Settled(L, DecodeAt + cycle.emitted)
    BY <1>1, <1>2 DEF Accounted
  <2>2. CASE from < last
    <3>1. PICK n \in Nat \ {0} : n = last - from /\ from + n <= DecodeAt + cycle.emitted
      BY <1>3, <1>4, <1>7, <2>2
    <3>2. base = RecordBlock(L, from, n)
      BY <2>2, <3>1
    <3> HIDE DEF L, base
    <3>3. Sound(RecordBlock(L, from, n))
      BY <2>1, BlockRecorded
    <3>4. DecodeAt + cycle.emitted \in Int
      BY <1>3, <1>4
    <3>5. Settled(RecordBlock(L, from, n), DecodeAt + cycle.emitted)
      BY <2>1, <3>1, <3>4, BlockSettled
    <3>6. PICK e \in Int : e = from + n - 1 /\ e = last - 1
      BY <3>1
    <3>7. RecordBlock(L, from, n).covered = L.covered \union from .. e
      BY <2>1, <3>6, BlockCovers
    <3>8. \A p \in Nat : from <= p /\ p < last => p \in from .. e
      BY <3>6
    <3> QED BY <3>2, <3>3, <3>5, <3>7, <3>8
  <2>3. CASE ~(from < last)
    <3>1. base = L
      BY <2>3
    <3>2. \A p \in Nat : ~(from <= p /\ p < last)
      BY <2>3
    <3> HIDE DEF L, base
    <3> QED BY <2>1, <3>1, <3>2
  <2> QED BY <2>2, <2>3
<1> HIDE DEF base
<1>12. /\ Sound(M) /\ Settled(M, DecodeAt + cycle.emitted)
       /\ M.covered = base.covered \union last .. last + d.count - 1
  <2>1. d.count \in Nat
    BY <1>9
  <2>2. Sound(M)
    BY <1>11, <2>1, RowsRecorded
  <2>3. M.covered = base.covered \union last .. last + d.count - 1
    <3>1. base \in Ledger
      BY <1>11, SoundLedger
    <3> QED BY <3>1 DEF RecordRows, Ledger
  <2>4. Settled(M, DecodeAt + cycle.emitted)
    BY <1>11, <2>1, RowsSettled
  <2> QED BY <2>2, <2>3, <2>4
<1> HIDE DEF M
<1>13. R \in SUBSET Int
  BY <1>2 DEF Computed, Layer
<1>14. ASSUME FixedWidth, NEW p \in Nat, p < last + d.count, p <= last + d.matching
       PROVE  p \in R /\ p \in M.covered
  <2>1. 0 .. from - 1 \subseteq L.covered /\ 0 .. from - 1 \subseteq rows["mtp"]
    BY <1>1, <1>8, <1>14 DEF Chaining, MtpHas
  <2>2. PICK n \in Nat : n = last - from + d.count /\ from + n = last + d.count
    BY <1>8, <1>9
  <2>3. "mtp" \in Layer /\ last + d.matching \in Int
    BY <1>9 DEF Layer
  <2> HIDE DEF L
  <2>4. \A q \in Nat : (q < from + n /\ q <= last + d.matching) \/ q < from
                         => q \in Computed("mtp", L, from, n, last + d.matching)
    BY <1>2, <2>1, <2>3, RowsComputed
  <2>5. R = Computed("mtp", L, from, n, last + d.matching)
    BY <2>2
  <2>6. p \in R
    BY <1>14, <2>2, <2>4, <2>5
  <2>7. CASE p < from
    <3>1. p \in 0 .. from - 1
      BY <2>7
    <3> QED BY <1>11, <1>12, <2>1, <2>6, <3>1
  <2>8. CASE from <= p /\ p < last
    BY <1>11, <1>12, <2>6, <2>8
  <2>9. CASE last <= p
    <3>1. p \in last .. last + d.count - 1
      BY <1>9, <1>14, <2>9
    <3> QED BY <1>12, <2>6, <3>1
  <2> QED BY <2>7, <2>8, <2>9
<1> HIDE DEF R, L
<1>15. /\ kv'["mtp"] = M /\ kv'["target"] = kv["target"]
       /\ rows'["mtp"] = R /\ rows'["target"] = rows["target"]
       /\ kv' \in [Layer -> Ledger] /\ rows' \in [Layer -> SUBSET Int]
  BY <1>2, <1>10, <1>12, <1>13 DEF Layer, Sound
<1>16. RequestOK' /\ Capacity' = Capacity /\ FixedWidth' = FixedWidth
       /\ Prefix' = Prefix /\ DecodeAt' = DecodeAt
  BY <1>1, <1>6, SameRequest, SamePlace
<1>17. pc' = "record"
  <2>1. request.prompt \in Nat /\ Capacity \in Nat
    BY <1>1, CapacityIsWide DEF RequestOK
  <2>2. DecodeAt = request.prompt + generated - 1
    BY DEF DecodeAt
  <2>3. request.prompt + (generated + cycle.emitted) + d.count <= Capacity
    BY <1>1, <1>9 DEF Chaining, Fits
  <2>4. last + d.count <= Capacity
    BY <1>2, <1>4, <1>7, <1>9, <2>1, <2>2, <2>3
  <2> QED BY <1>10, <2>4
<1>18. Types'
  BY <1>1, <1>2, <1>6, <1>9, <1>10, <1>12, <1>15, <1>16, <1>17 DEF Types
<1>19. Accounted'
  BY <1>1, <1>6, <1>12, <1>15, <1>16 DEF Accounted, TargetHas, Closed, Settled
<1>20. Recording'
  <2>1. FixedWidth => MtpHas(DecodeAt + cycle.emitted + Usable(d))'
    <3> SUFFICES ASSUME FixedWidth PROVE MtpHas(DecodeAt + cycle.emitted + Usable(d))'
      OBVIOUS
    <3>1. PICK e \in Int : /\ e = (DecodeAt + cycle.emitted + Usable(d)) - 1
                           /\ e < last + d.count /\ e <= last + d.matching
      BY <1>3, <1>4, <1>7, <1>9 DEF Usable
    <3>2. \A p \in 0 .. e : p \in Nat /\ p < last + d.count /\ p <= last + d.matching
      BY <1>7, <1>9, <3>1
    <3>3. 0 .. e \subseteq R /\ 0 .. e \subseteq M.covered
      BY <1>14, <3>2
    <3>4. (DecodeAt' + cycle'.emitted + Usable(d)) - 1 = e
      BY <1>6, <1>16, <3>1
    <3>5. (0 .. (DecodeAt' + cycle'.emitted + Usable(d)) - 1) = 0 .. e
      BY <3>4
    <3> QED BY <1>15, <3>3, <3>5 DEF MtpHas, Usable
  <2>2. pending' = d /\ d.count # 0
    BY <1>9, <1>10
  <2>3. Fits(generated + cycle.emitted, d.count)
    BY <1>1, <1>9 DEF Chaining
  <2> QED BY <1>6, <1>16, <2>1, <2>2, <2>3 DEF Recording, Fits, Usable
<1> QED BY <1>17, <1>18, <1>19, <1>20 DEF SInv

LEMMA RecordKeeps ==
  ASSUME SInv, Record
  PROVE  SInv'
<1>1. Types /\ Accounted /\ Recording /\ RequestOK /\ pc = "record"
  BY DEF SInv, Record, Types
<1>2. /\ generated \in Nat /\ cycle \in Cycles /\ pending \in Drafted
      /\ request.prompt \in Nat \ {0} /\ request.budget \in Nat
      /\ processed = Prefix
      /\ cycle.emitted = cycle.accepted + 1
      /\ generated + cycle.emitted <= request.budget
  BY <1>1 DEF Types, RequestOK, Accounted
<1>3. cycle.accepted \in Nat /\ cycle.emitted \in Nat /\ pending.count \in Nat
  BY <1>2 DEF Cycles, Drafted
<1>4. DecodeAt \in Nat /\ DecodeAt = request.prompt + generated - 1
  BY <1>1, <1>2, Positioned DEF DecodeAt
<1>5. /\ processed' = Processed
      /\ generated' = generated + cycle.emitted
      /\ pc' = IF processed # Prefix \/ processed' > Capacity THEN "failed"
               ELSE IF generated' >= request.budget THEN "done" ELSE "idle"
      /\ cycle' = NoCycle
      /\ UNCHANGED <<policy, request, pending, width, kv, rows>>
  BY DEF Record
<1>6. generated' \in Nat /\ generated' # 0 /\ generated' <= request.budget
  BY <1>2, <1>3, <1>5
<1>7. RequestOK' /\ Capacity' = Capacity /\ FixedWidth' = FixedWidth
  BY <1>1, <1>5, SameRequest
<1>8. processed' = DecodeAt + 1 + cycle.accepted /\ processed' \in Nat
      /\ processed' = DecodeAt + cycle.emitted
  BY <1>2, <1>3, <1>4, <1>5 DEF Processed
<1>9. DecodeAt' = processed' /\ Prefix' = processed'
  <2>1. DecodeAt' = request.prompt + generated' - 1 /\ Prefix' = request.prompt + generated' - 1
    BY <1>5, <1>6 DEF DecodeAt, Prefix
  <2> QED BY <1>2, <1>3, <1>4, <1>5, <1>8, <2>1
<1>10. pc' = IF generated' >= request.budget THEN "done" ELSE "idle"
  <2>1. Capacity \in Nat /\ request.prompt + request.budget <= Capacity
    BY <1>1, CapacityIsWide
  <2>2. ~(processed' > Capacity)
    BY <1>2, <1>3, <1>4, <1>8, <2>1
  <2> QED BY <1>2, <1>5, <2>2
<1>11. TargetHas(processed)' /\ Closed'
  BY <1>1, <1>5, <1>8 DEF Accounted, TargetHas, Closed
<1>12. Types'
  BY <1>1, <1>5, <1>6, <1>7, <1>8, <1>10, NoCycleIsCycle DEF Types
<1>13. CASE pc' = "done"
  <2>1. Over'
    BY <1>9, <1>11 DEF Over
  <2> QED BY <1>12, <1>13, <2>1 DEF SInv
<1>14. CASE pc' = "idle"
  <2>1. generated' < request.budget
    BY <1>2, <1>6, <1>10, <1>14
  <2>2. TargetHas(Prefix)'
    BY <1>9, <1>11 DEF TargetHas
  <2>3. Settled(kv["mtp"], DecodeAt)'
    BY <1>1, <1>5, <1>8, <1>9 DEF Accounted, Settled
  <2>4. Fits(generated, pending.count)'
    BY <1>1, <1>5, <1>7 DEF Recording, Fits
  <2>5. FixedWidth' =>
          (IF pending.count = 0 THEN generated = 0 \/ Exhausted(generated)
                                ELSE MtpHas(DecodeAt + Usable(pending)))'
    BY <1>1, <1>5, <1>7, <1>8, <1>9 DEF Recording, Exhausted, MtpHas, Usable
  <2>6. Idle'
    BY <1>5, <1>9, <1>11, <2>1, <2>2, <2>3, <2>4, <2>5 DEF Idle
  <2> QED BY <1>12, <1>14, <2>6 DEF SInv
<1> QED BY <1>10, <1>13, <1>14

LEMMA StutterKeeps ==
  ASSUME SInv, UNCHANGED vars
  PROVE  SInv'
<1> USE DEF vars
<1>1. Types' /\ (pc \in {"idle", "prefill", "accept", "draft", "record", "done"})'
  BY DEF SInv, Types, RequestOK
<1> QED BY <1>1 DEF SInv, Types, Idle, Planned, Filling, Verified, Accounted, Chaining,
          Recording, Over, TargetHas, MtpHas, Closed, Settled, OpenRows, Fits, Exhausted,
          Usable, FixedWidth, Capacity, Prefix, DecodeAt, Padding

-----------------------------------------------------------------------------

(* What decoding with drafts keeps up, for every prompt, budget, context    *)
(* and policy, from any number of cached tokens on.                         *)
THEOREM SpeculativeInvariance == Spec => []SInv
<1>1. SInv /\ [Next]_vars => SInv'
  <2> SUFFICES ASSUME SInv, [Next]_vars PROVE SInv'
    OBVIOUS
  <2>1. CASE StartCycle
    BY <2>1, StartCycleKeeps
  <2>2. CASE PrefillChunk
    BY <2>2, PrefillChunkKeeps
  <2>3. CASE RunTarget
    BY <2>3, RunTargetKeeps
  <2>4. CASE AcceptScalar
    BY <2>4, AcceptScalarKeeps
  <2>5. CASE AcceptDrafts
    BY <2>5, AcceptDraftsKeeps
  <2>6. CASE Draft
    BY <2>6, DraftKeeps
  <2>7. CASE Record
    BY <2>7, RecordKeeps
  <2>8. CASE UNCHANGED vars
    BY <2>8, StutterKeeps
  <2> QED BY <2>1, <2>2, <2>3, <2>4, <2>5, <2>6, <2>7, <2>8 DEF Next
<1> QED BY InitHolds, <1>1, PTL DEF Spec

(* The open writes, backed blocks and attention runs that each ledger keeps *)
(* beside its records are always those of the records, through the writes,  *)
(* resolutions and rewinds of every cycle (backing_store.rs).               *)
THEOREM LedgersStayConsistent == Spec => []LedgersAgree
<1>1. SInv => LedgersAgree
  BY DEF SInv, Types, LedgersAgree, Sound, Layer
<1> QED BY SpeculativeInvariance, <1>1, PTL

(* No write is refused for want of capacity, and the token frontiers of the *)
(* cycles meet, however far drafts and padding reach past the budget        *)
(* (validate_shape and record_processed_token_ids, execution.rs).           *)
THEOREM RequestsAreNeverRefused == Spec => []NeverRefused
<1>1. SInv => NeverRefused
  BY DEF SInv, Types, NeverRefused
<1> QED BY SpeculativeInvariance, <1>1, PTL

(* The target layers show rows of the sequence's own tokens only, at every  *)
(* step of a cycle: resolve_mtp_tentative_writes leaves no rejected row.    *)
THEOREM RejectedRowsStayHidden == Spec => []OnlyOwnRowsVisible
<1>1. SInv => OnlyOwnRowsVisible
  <2> SUFFICES ASSUME SInv PROVE OnlyOwnRowsVisible
    OBVIOUS
  <2>1. pc \in {"idle", "prefill", "accept", "draft", "record", "done"}
    BY DEF SInv, Types
  <2>2. \E n \in {Prefix, cycle.at, DecodeAt + 1, DecodeAt + 1 + cycle.accepted, processed} :
          TargetHas(n)
    BY <2>1 DEF SInv, Idle, Filling, Verified, Accounted, Over
  <2> QED BY <2>2 DEF TargetHas, OnlyOwnRowsVisible
<1> QED BY SpeculativeInvariance, <1>1, PTL

(* Between cycles processed_token_ids is as long as the committed rows of   *)
(* the target, and no write is open.                                        *)
THEOREM CommittedIsProcessed == Spec => []ProcessedIsCommitted
<1>1. SInv => ProcessedIsCommitted
  <2> SUFFICES ASSUME SInv, pc \in {"idle", "done"}
               PROVE  /\ kv["target"].covered = 0 .. processed - 1
                      /\ kv["target"].covered \subseteq rows["target"]
                      /\ kv["target"].tentative = <<>>
    BY DEF ProcessedIsCommitted
  <2>1. TargetHas(processed) /\ Closed
    BY DEF SInv, Idle, Over
  <2>2. Sound(kv["target"])
    BY DEF SInv, Types
  <2>3. kv["target"].tentative \in Seq(Nat) /\ ToSet(kv["target"].tentative) = {}
    BY <2>1, <2>2, SoundLedger DEF Closed
  <2>4. kv["target"].tentative = <<>>
    BY <2>3, NothingListed
  <2> QED BY <2>1, <2>4 DEF TargetHas
<1> QED BY SpeculativeInvariance, <1>1, PTL

(* With a fixed width every chain of drafts has the whole prefix before it, *)
(* in the cache of layer 78, from accepted tokens only: what bridges and    *)
(* rewinds between two chains are for (execute_mtp_bridge_chain).           *)
THEOREM ChainsFollowThePrefix == Spec => []DraftsSeeWholePrefix
<1>1. SInv => DraftsSeeWholePrefix
  BY DEF SInv, Chaining, FixedWidth, MtpHas, DraftsSeeWholePrefix
<1> QED BY SpeculativeInvariance, <1>1, PTL

-----------------------------------------------------------------------------
(* The width of the drafts again, now with the ranges of its counters.      *)

(* A probe begins with no scalar cycle counted, and only a single draft     *)
(* can have missed twice.                                                   *)
Steady(a) ==
  /\ a \in Widths /\ WidthOK(a)
  /\ a.probing => a.decisions = 0
  /\ a.misses = 2 => a.current = 1

LEMMA Intervals ==
  /\ ProbeInterval \in Nat \ {0} /\ ProbeMaxInterval \in Nat \ {0} /\ ProbeSuccesses \in Nat \ {0}
  /\ ProbeInterval <= ProbeMaxInterval
BY WidthAssumption

LEMMA SteadyFields ==
  ASSUME NEW a \in Widths, NEW i \in ProbeInterval .. ProbeMaxInterval,
         NEW s \in 0 .. ProbeSuccesses - 1, NEW m \in 0 .. 2, NEW k \in 0 .. i - 1,
         a.interval = i, a.successes = s, a.misses = m, a.decisions = k,
         a.probing => k = 0, m = 2 => a.current = 1
  PROVE  Steady(a)
<1>1. a.current \in 0 .. MaxDrafts /\ a.probing \in BOOLEAN
  BY DEF Widths
<1>2. a.misses \in 0 .. 2 /\ a.decisions \in 0 .. a.interval - 1
      /\ a.interval \in ProbeInterval .. ProbeMaxInterval /\ a.successes \in 0 .. ProbeSuccesses - 1
  OBVIOUS
<1> QED BY <1>1, <1>2 DEF Steady, WidthOK

LEMMA FreshIsSteady == Steady(FreshWidth)
<1>1. FreshWidth \in Widths
  BY FreshIsWidth
<1>2. /\ FreshWidth.probing = FALSE /\ FreshWidth.decisions = 0 /\ FreshWidth.misses = 0
      /\ FreshWidth.interval = ProbeInterval /\ FreshWidth.successes = 0
  BY DEF FreshWidth
<1>3. /\ ProbeInterval \in ProbeInterval .. ProbeMaxInterval /\ 0 \in 0 .. 2
      /\ 0 \in 0 .. ProbeSuccesses - 1 /\ 0 \in 0 .. ProbeInterval - 1
  BY Intervals
<1> QED BY <1>1, <1>2, <1>3, SteadyFields

LEMMA AskedIsSteady ==
  ASSUME NEW a, Steady(a)
  PROVE  Steady(Asked(a))
<1>1. a \in Widths /\ WidthOK(a) /\ Asked(a) \in Widths
  BY AskedIsWidth DEF Steady
<1>2. CASE a.current > 0 \/ a.probing
  BY <1>2 DEF Asked
<1>3. CASE ~(a.current > 0 \/ a.probing) /\ a.decisions + 1 >= a.interval
  <2>1. Asked(a) = [a EXCEPT !.decisions = 0, !.probing = TRUE]
    BY <1>3 DEF Asked
  <2>2. /\ Asked(a).current = a.current /\ Asked(a).probing = TRUE /\ Asked(a).decisions = 0
        /\ Asked(a).misses = a.misses /\ Asked(a).interval = a.interval
        /\ Asked(a).successes = a.successes
    BY <1>1, <2>1 DEF Widths
  <2>3. /\ a.interval \in ProbeInterval .. ProbeMaxInterval /\ a.misses \in 0 .. 2
        /\ a.successes \in 0 .. ProbeSuccesses - 1
        /\ a.misses = 2 => a.current = 1
    BY <1>1 DEF WidthOK, Steady
  <2>4. 0 \in 0 .. a.interval - 1
    BY <2>3, Intervals
  <2> QED BY <1>1, <2>2, <2>3, <2>4, SteadyFields
<1>4. CASE ~(a.current > 0 \/ a.probing) /\ ~(a.decisions + 1 >= a.interval)
  <2>1. Asked(a) = [a EXCEPT !.decisions = @ + 1]
    BY <1>4 DEF Asked
  <2>2. /\ Asked(a).current = a.current /\ Asked(a).probing = a.probing
        /\ Asked(a).decisions = a.decisions + 1
        /\ Asked(a).misses = a.misses /\ Asked(a).interval = a.interval
        /\ Asked(a).successes = a.successes
    BY <1>1, <2>1 DEF Widths
  <2>3. a.decisions + 1 \in 0 .. a.interval - 1
    <3>1. a.decisions \in Nat /\ a.interval \in Nat
      BY <1>1 DEF Widths
    <3> QED BY <1>4, <3>1
  <2> QED BY <1>1, <1>4, <2>2, <2>3 DEF Steady, WidthOK
<1> QED BY <1>2, <1>3, <1>4

LEMMA ScalarIsSteady ==
  ASSUME NEW a \in Widths, a.interval \in ProbeInterval .. ProbeMaxInterval,
         a.successes \in 0 .. ProbeSuccesses - 1
  PROVE  Steady(Scalar(a))
<1>1. Scalar(a) \in Widths
  BY ScalarIsWidth
<1>2. /\ Scalar(a).current = 0 /\ Scalar(a).probing = FALSE /\ Scalar(a).decisions = 0
      /\ Scalar(a).misses = 0 /\ Scalar(a).interval = a.interval
      /\ Scalar(a).successes = a.successes
  BY DEF Scalar, Widths
<1>3. 0 \in 0 .. 2 /\ 0 \in 0 .. a.interval - 1
  BY Intervals
<1> QED BY <1>1, <1>2, <1>3, SteadyFields

LEMMA ProbedIsSteady ==
  ASSUME NEW a, Steady(a), a.current = 0, a.probing, NEW o, NEW m2
  PROVE  Steady(Probed(a, o, m2))
<1>1. a \in Widths /\ WidthOK(a) /\ a.decisions = 0 /\ a.misses \in 0 .. 1
  BY DEF Steady, WidthOK
<1>2. ASSUME NEW w \in 0 .. MaxDrafts, NEW i \in ProbeInterval .. ProbeMaxInterval
      PROVE  Steady([Resumed(a, w) EXCEPT !.interval = i])
  <2> DEFINE b == [Resumed(a, w) EXCEPT !.interval = i]
  <2>1. /\ b.current = w /\ b.probing = FALSE /\ b.decisions = 0 /\ b.misses = a.misses
        /\ b.interval = i /\ b.successes = 0
    BY <1>1 DEF Resumed, Widths
  <2>2. b \in Widths
    <3>1. i \in Nat
      BY Intervals
    <3> QED BY <1>1, <3>1 DEF Resumed, Widths
  <2>3. 0 \in 0 .. i - 1 /\ 0 \in 0 .. ProbeSuccesses - 1 /\ a.misses \in 0 .. 2 /\ a.misses # 2
    BY <1>1, Intervals
  <2> HIDE DEF b
  <2>4. Steady(b)
    BY <2>1, <2>2, <2>3, SteadyFields
  <2> QED BY <2>4 DEF b
<1>3. Steady([Resumed(a, MinDrafts) EXCEPT !.interval = ProbeInterval])
  <2>1. MinDrafts \in 0 .. MaxDrafts /\ ProbeInterval \in ProbeInterval .. ProbeMaxInterval
    BY Constants, Intervals
  <2> QED BY <1>2, <2>1
<1>4. Steady(Resumed(a, Min({MinDrafts + 1, MaxDrafts})))
  <2>1. MinDrafts + 1 \in Int /\ MaxDrafts \in Int
    BY Constants
  <2>2. Min({MinDrafts + 1, MaxDrafts}) = IF MinDrafts + 1 <= MaxDrafts THEN MinDrafts + 1
                                                                       ELSE MaxDrafts
    BY <2>1, MinOfTwo
  <2>3. PICK w \in 0 .. MaxDrafts : w = Min({MinDrafts + 1, MaxDrafts})
    BY <2>2, Constants
  <2>4. a.interval \in ProbeInterval .. ProbeMaxInterval
    BY <1>1 DEF WidthOK
  <2>5. [Resumed(a, w) EXCEPT !.interval = a.interval] = Resumed(a, w)
    BY <1>1 DEF Resumed, Widths
  <2>6. Steady([Resumed(a, w) EXCEPT !.interval = a.interval])
    BY <1>2, <2>4
  <2> QED BY <2>3, <2>5, <2>6
<1>5. a.successes + 1 < ProbeSuccesses => Steady(Scalar([a EXCEPT !.successes = @ + 1]))
  <2> DEFINE b == [a EXCEPT !.successes = @ + 1]
  <2> SUFFICES ASSUME a.successes + 1 < ProbeSuccesses PROVE Steady(Scalar(b))
    OBVIOUS
  <2>1. b \in Widths /\ b.interval = a.interval /\ b.successes = a.successes + 1
    BY <1>1 DEF Widths
  <2>2. b.successes \in 0 .. ProbeSuccesses - 1
    <3>1. a.successes \in Nat
      BY <1>1 DEF Widths
    <3> QED BY <2>1, <3>1, Intervals
  <2>3. b.interval \in ProbeInterval .. ProbeMaxInterval
    BY <1>1, <2>1 DEF WidthOK
  <2> HIDE DEF b
  <2> QED BY <2>1, <2>2, <2>3, ScalarIsSteady
<1>6. Steady(Scalar([a EXCEPT !.successes = 0, !.interval = Backoff(@)]))
  <2> DEFINE b == [a EXCEPT !.successes = 0, !.interval = Backoff(@)]
  <2>1. a.interval \in ProbeInterval .. ProbeMaxInterval /\ a.interval \in Nat
    BY <1>1 DEF WidthOK, Widths
  <2>2. 2 * a.interval \in Int /\ ProbeMaxInterval \in Int
    BY <2>1, Intervals
  <2>3. Backoff(a.interval) = IF 2 * a.interval <= ProbeMaxInterval THEN 2 * a.interval
                                                                   ELSE ProbeMaxInterval
    BY <2>2, MinOfTwo DEF Backoff
  <2>4. Backoff(a.interval) \in ProbeInterval .. ProbeMaxInterval /\ Backoff(a.interval) \in Nat
    BY <2>1, <2>3, Intervals
  <2>5. b \in Widths /\ b.interval = Backoff(a.interval) /\ b.successes = 0
    BY <1>1, <2>4 DEF Widths
  <2>6. 0 \in 0 .. ProbeSuccesses - 1
    BY Intervals
  <2> HIDE DEF b
  <2>7. b.interval \in ProbeInterval .. ProbeMaxInterval /\ b.successes \in 0 .. ProbeSuccesses - 1
    BY <2>4, <2>5, <2>6
  <2>8. Steady(Scalar(b))
    BY <2>5, <2>7, ScalarIsSteady
  <2> QED BY <2>8 DEF b
<1>7. a.successes \in Nat /\ ProbeSuccesses \in Nat
  BY <1>1, Intervals DEF Widths
<1>8. ~(a.successes + 1 >= ProbeSuccesses) => a.successes + 1 < ProbeSuccesses
  BY <1>7
<1> QED BY <1>3, <1>4, <1>5, <1>6, <1>8 DEF Probed

LEMMA JudgedIsSteady ==
  ASSUME NEW a, Steady(a), NEW h, NEW o \in Observation, o.proposed = a.current,
         o.proposed > 0, NEW m2
  PROVE  Steady(Judged(a, h, o, m2))
<1> DEFINE misses == IF Pays(o, m2) THEN 0 ELSE a.misses + 1
           next   == IF misses < 2 THEN Adjusted(a, h, o, m2)
                     ELSE IF m2 /\ o.proposed > 1 /\ o.accepted > 0 THEN 1 ELSE 0
           b      == IF o.accepted = 0 /\ Adjusted(a, h, o, m2) = 0
                     THEN [a EXCEPT !.decisions = 0, !.successes = 0] ELSE a
           c      == [b EXCEPT !.current = next, !.misses = misses]
<1>1. a \in Widths /\ WidthOK(a) /\ a.misses \in 0 .. 2 /\ (a.misses = 2 => a.current = 1)
  BY DEF Steady, WidthOK
<1>2. misses \in 0 .. 3 /\ (misses = 3 => a.current = 1) /\ misses \in Nat
  BY <1>1
<1>3. Judged(a, h, o, m2) = IF next = 0 THEN Scalar(b) ELSE c
  BY DEF Judged
<1>4. /\ b \in Widths /\ b.interval = a.interval /\ b.successes \in {0, a.successes}
      /\ b.decisions \in {0, a.decisions} /\ b.probing = a.probing
  BY <1>1 DEF Widths
<1>5. next \in 0 .. MaxDrafts
  <2>1. 0 \in 0 .. MaxDrafts /\ 1 \in 0 .. MaxDrafts
    BY Constants
  <2> QED BY <1>1, <2>1, AdjustedInBounds
<1>6. next # 0 => misses <= 2 /\ (misses = 2 => next = 1)
  <2> SUFFICES ASSUME next # 0, misses >= 2 PROVE misses = 2 /\ next = 1
    BY <1>2
  <2>1. o.proposed > 1 /\ next = 1
    BY <1>2
  <2>2. a.current # 1
    BY <2>1
  <2> QED BY <1>2, <2>1, <2>2
<1> HIDE DEF misses, next, b
<1>7. b.interval \in ProbeInterval .. ProbeMaxInterval /\ b.successes \in 0 .. ProbeSuccesses - 1
      /\ b.decisions \in 0 .. b.interval - 1
      /\ (b.probing => b.decisions = 0)
  BY <1>1, <1>4, Intervals DEF WidthOK, Steady
<1>8. Steady(Scalar(b))
  BY <1>4, <1>7, ScalarIsSteady
<1>9. next # 0 => Steady(c)
  <2> SUFFICES ASSUME next # 0 PROVE Steady(c)
    OBVIOUS
  <2>1. /\ c \in Widths /\ c.current = next /\ c.misses = misses /\ c.interval = b.interval
        /\ c.successes = b.successes /\ c.decisions = b.decisions /\ c.probing = b.probing
    BY <1>2, <1>4, <1>5 DEF Widths
  <2>2. misses \in 0 .. 2 /\ (misses = 2 => next = 1)
    BY <1>2, <1>6
  <2>3. b.probing \in BOOLEAN
    BY <1>4 DEF Widths
  <2> HIDE DEF c
  <2> QED BY <1>5, <1>7, <2>1, <2>2, <2>3 DEF Steady, WidthOK
<1> QED BY <1>3, <1>8, <1>9

LEMMA ObservedIsSteady ==
  ASSUME NEW a, Steady(a), NEW o \in Observation, o.proposed > 0, NEW m2
  PROVE  Steady(Observed(a, o, m2))
<1> DEFINE all == Append(a.history, o)
           h   == SubSeq(all, Max({1, Len(all) - 2}), Len(all))
           b   == [a EXCEPT !.history = h]
           probe == a.current = 0 /\ a.probing /\ o.proposed = MinDrafts
<1>1. a \in Widths /\ WidthOK(a)
  BY DEF Steady
<1>2. h \in Seq(Observation)
  BY <1>1, HistoryKept
<1> HIDE DEF h
<1>3. /\ b \in Widths /\ b.current = a.current /\ b.probing = a.probing
      /\ b.decisions = a.decisions /\ b.successes = a.successes
      /\ b.interval = a.interval /\ b.misses = a.misses
  BY <1>1, <1>2 DEF Widths
<1>4. Observed(a, o, m2) = IF o.proposed # a.current /\ ~probe THEN a
                           ELSE IF probe THEN Probed(b, o, m2) ELSE Judged(b, h, o, m2)
  BY DEF Observed, h
<1> HIDE DEF b
<1>5. Steady(b)
  BY <1>3 DEF Steady, WidthOK
<1>6. probe => Steady(Probed(b, o, m2))
  BY <1>3, <1>5, ProbedIsSteady
<1>7. o.proposed = a.current => Steady(Judged(b, h, o, m2))
  BY <1>3, <1>5, JudgedIsSteady
<1> QED BY <1>4, <1>6, <1>7

-----------------------------------------------------------------------------
(* Frontiers.                                                               *)

Frontiers == [start : Nat, rows : 1 .. FrontierTokens]

Framed(f) == f # None => f \in Frontiers

Within(f, C) == f # None => f.start .. FrontierEnd(f) - 1 \subseteq C

EndsAt(f, end) == f # None => FrontierEnd(f) = end

LEMMA FrontierAppended ==
  ASSUME NEW f, Framed(f), NEW start \in Nat, NEW n \in Nat \ {0}
  PROVE  LET r == FrontierAppend(f, start, n)
         IN  /\ Framed(r) /\ EndsAt(r, start + n)
             /\ \A C : Within(f, C) /\ start .. start + n - 1 \subseteq C => Within(r, C)
<1> DEFINE r == FrontierAppend(f, start, n)
           x == Extended(f, start, n)
<1>1. r = IF x.rows > FrontierTokens THEN None ELSE x
  BY DEF FrontierAppend
<1>2. FrontierTokens \in Nat
  BY SpeculativeAssumption
<1>3. CASE f # None /\ FrontierEnd(f) = start
  <2>1. /\ f.start \in Nat /\ f.rows \in Nat /\ f.rows > 0 /\ f \in Frontiers
        /\ f.start + f.rows = start
    BY <1>2, <1>3 DEF Framed, Frontiers, FrontierEnd
  <2>2. x = [f EXCEPT !.rows = @ + n]
    BY <1>3 DEF Extended
  <2>3. x = [start |-> f.start, rows |-> f.rows + n]
    BY <2>1, <2>2 DEF Frontiers
  <2> HIDE DEF x
  <2>4. x.start = f.start /\ x.rows = f.rows + n /\ x.rows \in Nat \ {0}
    BY <2>1, <2>3
  <2>5. FrontierEnd(x) = start + n
    BY <2>1, <2>4 DEF FrontierEnd
  <2>6. x.rows <= FrontierTokens => x \in Frontiers
    BY <1>2, <2>1, <2>3, <2>4 DEF Frontiers
  <2>7. ASSUME NEW C, Within(f, C), start .. start + n - 1 \subseteq C, NEW p \in x.start .. FrontierEnd(x) - 1
        PROVE  p \in C
    <3>1. p \in f.start .. FrontierEnd(f) - 1 \/ p \in start .. start + n - 1
      BY <2>1, <2>4, <2>5, <2>7, <1>3
    <3> QED BY <1>3, <2>7, <3>1 DEF Within
  <2> QED BY <1>1, <1>2, <2>4, <2>5, <2>6, <2>7 DEF Framed, EndsAt, Within
<1>4. CASE ~(f # None /\ FrontierEnd(f) = start)
  <2>1. x = [start |-> start, rows |-> n]
    BY <1>4 DEF Extended
  <2> HIDE DEF x
  <2>2. x.start = start /\ x.rows = n /\ FrontierEnd(x) = start + n
    BY <2>1 DEF FrontierEnd
  <2>3. x.rows <= FrontierTokens => x \in Frontiers
    BY <1>2, <2>1, <2>2 DEF Frontiers
  <2>4. \A C : start .. start + n - 1 \subseteq C => Within(x, C)
    BY <2>2 DEF Within
  <2> QED BY <1>1, <1>2, <2>2, <2>3, <2>4 DEF Framed, EndsAt, Within
<1> QED BY <1>3, <1>4

LEMMA Least ==
  ASSUME NEW S \in SUBSET Nat, S # {}
  PROVE  \E m \in S : \A k \in S : m <= k
<1>1. IsWellFoundedOn(OpToRel(<, Nat), Nat)
  BY NatLessThanWellFounded
<1>2. PICK m \in S : \A k \in S : ~ (<<k, m>> \in OpToRel(<, Nat))
  BY <1>1, WFMin
<1>3. \A k \in S : ~ (k < m)
  BY <1>2 DEF OpToRel
<1> QED BY <1>3

(* g is the frontier after each of the n rows.                              *)
Appends(g, f, start, n) ==
  /\ g[0] = f
  /\ \A i \in 1 .. n : g[i] = FrontierAppend(g[i - 1], start + i - 1, 1)

(* The recursive function of AppendEach has a value at every place: were    *)
(* there a least place without one, the place before it would give it one.  *)
LEMMA AppendEachSteps ==
  ASSUME NEW f, NEW start \in Nat, NEW n \in Nat
  PROVE  \E g : Appends(g, f, start, n) /\ AppendEach(f, start, n) = g[n]
<1> DEFINE Runs(g, k) ==
      g = [i \in 0 .. k |-> IF i = 0 THEN f ELSE FrontierAppend(g[i - 1], start + i - 1, 1)]
<1>1. ASSUME NEW k \in Nat PROVE \E g : Runs(g, k)
  <2> DEFINE Bad == {j \in Nat : ~ \E g : Runs(g, j)}
  <2>1. SUFFICES ASSUME Bad # {} PROVE FALSE
    OBVIOUS
  <2>2. PICK m \in Bad : \A j \in Bad : m <= j
    <3> HIDE DEF Bad, Runs
    <3>1. Bad \in SUBSET Nat
      BY DEF Bad
    <3> QED BY <2>1, <3>1, Least
  <2>3. m # 0
    <3> SUFFICES ASSUME m = 0 PROVE FALSE
      OBVIOUS
    <3>1. Runs([i \in 0 .. 0 |-> f], 0)
      OBVIOUS
    <3> QED BY <3>1
  <2>4. m - 1 \in Nat /\ m - 1 \notin Bad
    <3>1. m \in Nat
      OBVIOUS
    <3> HIDE DEF Bad
    <3> QED BY <2>2, <2>3, <3>1
  <2>5. PICK g : Runs(g, m - 1)
    BY <2>4
  <2> DEFINE h == [i \in 0 .. m |-> IF i = m THEN FrontierAppend(g[m - 1], start + m - 1, 1)
                                             ELSE g[i]]
  <2>6. Runs(h, m)
    <3>1. m \in Nat /\ m # 0
      BY <2>3
    <3>2. ASSUME NEW i \in 0 .. m
          PROVE  h[i] = IF i = 0 THEN f ELSE FrontierAppend(h[i - 1], start + i - 1, 1)
      <4>1. CASE i = m
        BY <3>1, <4>1
      <4>2. CASE i # m
        <5>1. i \in 0 .. m - 1
          BY <3>1, <4>2
        <5>2. i # 0 => i - 1 \in 0 .. m - 1
          BY <5>1
        <5>3. g[i] = IF i = 0 THEN f ELSE FrontierAppend(g[i - 1], start + i - 1, 1)
          BY <2>5, <5>1
        <5>4. h[i] = g[i] /\ (i # 0 => h[i - 1] = g[i - 1])
          BY <3>1, <4>2, <5>1, <5>2
        <5> QED BY <5>3, <5>4
      <4> QED BY <4>1, <4>2
    <3> QED BY <3>2
  <2> QED BY <2>6
<1>2. \E g : Runs(g, n)
  BY <1>1
<1> DEFINE u == CHOOSE g : Runs(g, n)
<1>3. Runs(u, n)
  BY <1>2
<1>4. AppendEach(f, start, n) = u[n]
  BY DEF AppendEach
<1> HIDE DEF u
<1>5. Appends(u, f, start, n)
  BY <1>3 DEF Appends
<1> QED BY <1>4, <1>5

LEMMA EachAppended ==
  ASSUME NEW f, Framed(f), NEW start \in Nat, NEW n \in Nat \ {0}
  PROVE  LET r == AppendEach(f, start, n)
         IN  /\ Framed(r) /\ EndsAt(r, start + n)
             /\ \A C : Within(f, C) /\ start .. start + n - 1 \subseteq C => Within(r, C)
<1>1. PICK g : Appends(g, f, start, n) /\ AppendEach(f, start, n) = g[n]
  <2>1. n \in Nat
    OBVIOUS
  <2> QED BY <2>1, AppendEachSteps
<1>2. g[0] = f /\ \A i \in 1 .. n : g[i] = FrontierAppend(g[i - 1], start + i - 1, 1)
  BY <1>1 DEF Appends
<1> DEFINE Good(i) == /\ Framed(g[i]) /\ EndsAt(g[i], start + i)
                      /\ \A C : Within(f, C) /\ start .. start + n - 1 \subseteq C => Within(g[i], C)
           Bad == {i \in 1 .. n : ~Good(i)}
<1>3. SUFFICES Bad = {}
  BY <1>1
<1>4. SUFFICES ASSUME Bad # {} PROVE FALSE
  OBVIOUS
<1>5. PICK m \in Bad : \A j \in Bad : m <= j
  <2> HIDE DEF Good
  <2>1. Bad \in SUBSET Nat
    OBVIOUS
  <2> HIDE DEF Bad
  <2> QED BY <1>4, <2>1, Least
<1>6. m \in 1 .. n /\ start + m - 1 \in Nat /\ start + m - 1 + 1 = start + m
  OBVIOUS
<1>7. Framed(g[m - 1]) /\ \A C : Within(f, C) /\ start .. start + n - 1 \subseteq C => Within(g[m - 1], C)
  <2>1. CASE m = 1
    BY <1>2, <2>1
  <2>2. CASE m # 1
    <3>1. m - 1 \in 1 .. n /\ ~(m <= m - 1)
      BY <1>6, <2>2
    <3>2. m - 1 \notin Bad
      BY <1>5, <3>1
    <3> QED BY <3>1, <3>2
  <2> QED BY <2>1, <2>2
<1>8. PICK s \in Nat : s = start + m - 1 /\ s + 1 = start + m
  BY <1>6
<1>9. g[m] = FrontierAppend(g[m - 1], s, 1)
  BY <1>2, <1>6, <1>8
<1>10. /\ Framed(g[m]) /\ EndsAt(g[m], s + 1)
      /\ \A C : Within(g[m - 1], C) /\ s .. s + 1 - 1 \subseteq C => Within(g[m], C)
  <2> HIDE DEF Good, Bad
  <2>1. PICK e : e = g[m - 1] /\ Framed(e)
    BY <1>7
  <2>2. 1 \in Nat \ {0}
    OBVIOUS
  <2>3. LET r == FrontierAppend(e, s, 1)
        IN  /\ Framed(r) /\ EndsAt(r, s + 1)
            /\ \A C : Within(e, C) /\ s .. s + 1 - 1 \subseteq C => Within(r, C)
    BY ONLY <2>1, <2>2, s \in Nat, FrontierAppended
  <2> QED BY <1>9, <2>1, <2>3
<1>11. s .. s + 1 - 1 \subseteq start .. start + n - 1
  BY <1>6, <1>8
<1>12. Good(m)
  BY <1>7, <1>8, <1>10, <1>11
<1> QED BY <1>12

LEMMA FrontierShortened ==
  ASSUME NEW f, Framed(f), NEW end \in Nat
  PROVE  LET r == Shortened(f, end)
         IN  /\ Framed(r)
             /\ r # None => /\ f # None /\ r.start = f.start
                            /\ FrontierEnd(r) = IF FrontierEnd(f) <= end THEN FrontierEnd(f) ELSE end
<1> DEFINE r == Shortened(f, end)
<1>1. FrontierTokens \in Nat
  BY SpeculativeAssumption
<1>2. CASE f = None \/ end <= f.start
  BY <1>2 DEF Shortened, Framed
<1>3. CASE ~(f = None \/ end <= f.start)
  <2>1. f \in Frontiers /\ f.start \in Nat /\ f.rows \in 1 .. FrontierTokens /\ end - f.start \in Int
        /\ f.rows \in Int
    BY <1>1, <1>3 DEF Framed, Frontiers
  <2>2. PICK k \in Int : k = end - f.start
    BY <2>1
  <2>3. Min({f.rows, k}) = IF f.rows <= k THEN f.rows ELSE k
    BY <2>1, MinOfTwo
  <2>4. PICK m \in 1 .. FrontierTokens : m = Min({f.rows, k}) /\ m = IF f.rows <= k THEN f.rows ELSE k
    <3>1. k > 0
      BY <1>3, <2>1, <2>2
    <3> QED BY <1>1, <2>1, <2>3, <3>1
  <2>5. r = [f EXCEPT !.rows = m]
    BY <1>3, <2>2, <2>4 DEF Shortened
  <2> HIDE DEF r
  <2>6. r \in Frontiers /\ r.start = f.start /\ r.rows = m
    BY <2>1, <2>5 DEF Frontiers
  <2>7. FrontierEnd(r) = IF FrontierEnd(f) <= end THEN FrontierEnd(f) ELSE end
    BY <2>1, <2>2, <2>4, <2>6 DEF FrontierEnd
  <2> QED BY <1>3, <2>6, <2>7 DEF Framed, r
<1> QED BY <1>2, <1>3

(* The target's frontier ends with the drafts, hence is cut at the accepted *)
(* ones.                                                                    *)
LEMMA TargetTrimmed ==
  ASSUME NEW f, Framed(f), NEW start \in Nat, NEW drafts \in Nat \ {0}, NEW accepted \in 0 .. drafts,
         EndsAt(f, start + drafts)
  PROVE  LET r == Trim(f, start, drafts, accepted)
         IN  Framed(r) /\ EndsAt(r, start + accepted)
<1>1. FrontierTokens \in Nat
  BY SpeculativeAssumption
<1>2. PICK end \in Nat : end = start + accepted
  OBVIOUS
<1>3. CASE accepted = drafts
  <2>1. Trim(f, start, drafts, accepted) = f
    BY <1>3 DEF Trim
  <2> QED BY <1>3, <2>1
<1>4. CASE accepted # drafts /\ f = None
  BY <1>4 DEF Trim, EndsAt
<1>5. CASE accepted # drafts /\ f # None
  <2>1. f.start \in Nat /\ f.rows \in 1 .. FrontierTokens /\ f.start + f.rows = start + drafts
    BY <1>5 DEF Framed, Frontiers, EndsAt, FrontierEnd
  <2>2. /\ accepted < drafts /\ FrontierEnd(f) > start /\ f.start < start + drafts
        /\ ~(FrontierEnd(f) <= end)
    BY <1>1, <1>2, <1>5, <2>1 DEF FrontierEnd
  <2>3. Trim(f, start, drafts, accepted) = Shortened(f, end)
    BY <1>2, <1>5, <2>2 DEF Trim
  <2>4. Framed(Shortened(f, end))
        /\ (Shortened(f, end) # None => FrontierEnd(Shortened(f, end)) = end)
    BY <2>2, FrontierShortened
  <2> QED BY <1>2, <2>3, <2>4 DEF EndsAt
<1> QED BY <1>3, <1>4, <1>5

(* Shortening twice is shortening to the nearer end.                        *)
LEMMA MtpShortened ==
  ASSUME NEW f, Framed(f), NEW start \in Nat, NEW drafts \in Nat, NEW accepted \in Nat,
         NEW end \in Nat, end <= start + accepted
  PROVE  LET r == Shortened(Trim(f, start, drafts, accepted), end)
         IN  /\ Framed(r)
             /\ r # None => /\ f # None /\ r.start = f.start
                            /\ FrontierEnd(r) = IF FrontierEnd(f) <= end THEN FrontierEnd(f) ELSE end
<1> DEFINE t == Trim(f, start, drafts, accepted)
           r == Shortened(t, end)
<1>1. PICK far \in Nat : far = start + accepted /\ end <= far
  OBVIOUS
<1>2. t = f \/ t = Shortened(f, far)
  BY <1>1 DEF Trim
<1>3. Framed(t) /\ (t # None => /\ f # None /\ t.start = f.start
                                /\ FrontierEnd(t) = FrontierEnd(f)
                                     \/ (FrontierEnd(t) = far /\ ~(FrontierEnd(f) <= far)))
  <2> HIDE DEF t
  <2>1. CASE t = f
    BY <2>1
  <2>2. CASE t = Shortened(f, far)
    BY <2>2, FrontierShortened
  <2> QED BY <1>2, <2>1, <2>2
<1> HIDE DEF t
<1>4. Framed(r)
      /\ (r # None => /\ t # None /\ r.start = t.start
                      /\ FrontierEnd(r) = IF FrontierEnd(t) <= end THEN FrontierEnd(t) ELSE end)
  BY <1>3, FrontierShortened
<1>5. f # None => FrontierEnd(f) \in Int
  <2>1. FrontierTokens \in Nat
    BY SpeculativeAssumption
  <2> QED BY <2>1 DEF Framed, Frontiers, FrontierEnd
<1>6. r # None => FrontierEnd(r) = IF FrontierEnd(f) <= end THEN FrontierEnd(f) ELSE end
  BY <1>1, <1>3, <1>4, <1>5
<1> QED BY <1>3, <1>4, <1>6 DEF t

-----------------------------------------------------------------------------
(* The frontiers' part of the invariant.                                    *)

MtpBelow(n) == \A p \in kv["mtp"].covered : p < n

TargetUpTo(n) == EndsAt(frontier["target"], n)

Bounded ==
  /\ Steady(width)
  /\ pending \in Proposals(MaxDrafts)
  /\ cycle.drafts \in Proposals(MaxDrafts) /\ cycle.draft <= MaxDrafts
  /\ rows \in [Layer -> SUBSET Nat]

(* The MTP layer's frontier ends with what is visible, at every step.       *)
Fronts ==
  /\ DOMAIN frontier = Layer
  /\ Framed(frontier["target"]) /\ Framed(frontier["mtp"])
  /\ Within(frontier["mtp"], kv["mtp"].covered)
  /\ frontier["mtp"] # None => MtpBelow(FrontierEnd(frontier["mtp"]))
  /\ ~policy.native => frontier["mtp"] = None /\ kv["mtp"].covered = {}

(* The target's frontier ends with its latest rows, and the MTP layer has   *)
(* rows of this cycle's drafts only.                                        *)
FInv ==
  /\ Bounded /\ Fronts
  /\ pc = "idle" => TargetUpTo(Prefix) /\ MtpBelow(DecodeAt - 1 + pending.count)
  /\ pc \in {"prefill", "accept"} => MtpBelow(DecodeAt - 1 + cycle.drafts.count)
  /\ pc = "prefill" => TargetUpTo(cycle.at)
  /\ pc = "accept" => TargetUpTo(DecodeAt + 1 + cycle.drafts.count + cycle.padding)
  /\ pc \in {"draft", "record"} => TargetUpTo(DecodeAt + 1 + cycle.accepted)
  /\ pc = "draft" => MtpBelow(DecodeAt + cycle.emitted - 1)
  /\ pc = "record" => MtpBelow(DecodeAt + cycle.emitted - 1 + pending.count)
  /\ pc = "done" => TargetUpTo(processed)

LEMMA NoDraftsProposed == NoDrafts \in Proposals(MaxDrafts)
<1>1. 0 \in 0 .. MaxDrafts
  BY Constants
<1> QED BY <1>1 DEF NoDrafts, Proposals

LEMMA AskKeepsSteady ==
  ASSUME NEW a, Steady(a)
  PROVE  Steady(AskWidth(a))
BY AskedIsSteady DEF AskWidth

LEMMA RowsStayNat ==
  ASSUME rows \in [Layer -> SUBSET Nat], NEW l \in Layer, NEW ledger, NEW start \in Nat,
         NEW n \in Nat, NEW good \in Int
  PROVE  Computed(l, ledger, start, n, good) \in SUBSET Nat
<1>1. start + n - 1 \in Int /\ good \in Int
  OBVIOUS
<1>2. PICK m \in Int : m = Min({start + n - 1, good})
  BY <1>1, MinOfTwo
<1>3. start .. m \subseteq Nat
  OBVIOUS
<1> QED BY <1>2, <1>3 DEF Computed

LEMMA FrontiersBegin == Init => FInv
<1> SUFFICES ASSUME Init PROVE FInv
  OBVIOUS
<1>1. SInv
  BY InitHolds
<1>2. pc = "idle" /\ pending = NoDrafts /\ cycle = NoCycle /\ width = FreshWidth
      /\ DOMAIN frontier = Layer /\ frontier["target"] = None /\ frontier["mtp"] = None
      /\ kv["mtp"] = EmptyLedger
  BY DEF Init, Layer
<1>3. kv["mtp"].covered = {}
  BY <1>2, EmptyIsSound
<1>4. cycle.drafts = NoDrafts /\ cycle.draft = 0 /\ 0 <= MaxDrafts
  BY <1>2, Constants DEF NoCycle
<1>5. rows \in [Layer -> SUBSET Nat]
  <2>1. rows = [l \in Layer |-> IF l = "target" THEN 0 .. request.cached - 1 ELSE {}]
    BY DEF Init
  <2>2. request.cached \in Nat
    BY <1>1 DEF SInv, Types, RequestOK
  <2>3. 0 .. request.cached - 1 \in SUBSET Nat
    BY <2>2
  <2> QED BY <2>1, <2>3
<1>6. Bounded
  BY <1>2, <1>4, <1>5, NoDraftsProposed, FreshIsSteady DEF Bounded
<1>7. Fronts
  BY <1>2, <1>3 DEF Fronts, Framed, Within
<1> QED BY <1>2, <1>3, <1>6, <1>7 DEF FInv, TargetUpTo, EndsAt, MtpBelow

LEMMA StartCycleFronts ==
  ASSUME SInv, FInv, StartCycle
  PROVE  FInv'
<1>1. Types /\ Idle /\ RequestOK /\ pc = "idle" /\ Bounded /\ Fronts
  BY DEF SInv, FInv, StartCycle, Types
<1>2. /\ generated \in Nat /\ generated < request.budget /\ request.budget \in Nat
      /\ width \in Widths /\ Steady(width)
  BY <1>1 DEF Types, Idle, RequestOK, Bounded
<1>3. PICK d \in Offered :
        LET scalar == policy.native /\ d.count = 0
            asked  == IF scalar THEN AskWidth(width) ELSE width
            span   == DecodeAt + 1 + d.count + Padding(d.count)
        IN  /\ width' = asked
            /\ cycle' = [NoCycle EXCEPT
                           !.drafts = d, !.padding = Padding(d.count), !.at = Prefix,
                           !.draft = IF scalar THEN DraftLimit(1, WidthAnswer(asked)) ELSE 0]
            /\ pc' = IF span <= Capacity THEN "prefill" ELSE "failed"
  BY DEF StartCycle
<1>4. pending' = NoDrafts /\ UNCHANGED <<policy, request, generated, processed, kv, rows, frontier>>
  BY DEF StartCycle
<1>5. d \in Proposals(MaxDrafts) /\ (policy.native => d = pending)
  <2>1. CASE policy.native
    BY <1>1, <1>3, <2>1 DEF Offered, Bounded
  <2>2. CASE ~policy.native
    <3>1. PICK x \in Nat : x = request.budget - generated - 1
      BY <1>2
    <3>2. MaxDrafts \in Int /\ x \in Int /\ MaxDrafts \in Nat
      BY Constants
    <3>3. PICK most \in Nat : most = Min({MaxDrafts, x}) /\ most <= MaxDrafts
      <4>1. Min({MaxDrafts, x}) = IF MaxDrafts <= x THEN MaxDrafts ELSE x
        BY <3>2, MinOfTwo
      <4> QED BY <3>2, <4>1
    <3>4. d \in Proposals(most)
      BY <1>3, <2>2, <3>1, <3>3 DEF Offered
    <3>5. 0 .. most \subseteq 0 .. MaxDrafts
      BY <3>2, <3>3
    <3> QED BY <2>2, <3>4, <3>5 DEF Proposals
  <2> QED BY <2>1, <2>2
<1>6. Steady(width')
  BY <1>2, <1>3, AskKeepsSteady
<1> DEFINE draft == IF policy.native /\ d.count = 0 THEN DraftLimit(1, WidthAnswer(width')) ELSE 0
<1>7. draft <= MaxDrafts
  <2>1. CASE policy.native /\ d.count = 0
    <3>1. PICK w \in 0 .. MaxDrafts : w = WidthAnswer(width')
      BY <1>1, <1>6, AnswerInBounds DEF Steady
    <3>2. DraftLimit(1, w) \in 0 .. MaxDrafts
      BY <1>1, <1>2, LimitFits
    <3> QED BY <2>1, <3>1, <3>2
  <2>2. CASE ~(policy.native /\ d.count = 0)
    BY <2>2, Constants
  <2> QED BY <2>1, <2>2
<1>8. cycle' = [NoCycle EXCEPT !.drafts = d, !.padding = Padding(d.count), !.at = Prefix,
                                !.draft = draft]
  BY <1>3
<1> HIDE DEF draft
<1>9. cycle'.drafts = d /\ cycle'.at = Prefix /\ cycle'.draft = draft
  BY <1>8 DEF NoCycle
<1>10. Prefix' = Prefix /\ DecodeAt' = DecodeAt
  BY <1>4, SamePlace
<1>11. pc' \in {"prefill", "failed"}
  BY <1>3
<1>12. Bounded'
  BY <1>1, <1>4, <1>5, <1>6, <1>7, <1>9, NoDraftsProposed DEF Bounded
<1>13. Fronts'
  BY <1>1, <1>4 DEF Fronts, Framed, Within, MtpBelow
<1>14. TargetUpTo(cycle.at)'
  BY <1>1, <1>4, <1>9, <1>10 DEF FInv, TargetUpTo
<1>15. MtpBelow(DecodeAt - 1 + cycle.drafts.count)'
  <2>1. CASE policy.native
    BY <1>1, <1>4, <1>5, <1>9, <1>10, <2>1 DEF FInv, MtpBelow
  <2>2. CASE ~policy.native
    BY <1>1, <1>4, <2>2 DEF Fronts, MtpBelow
  <2> QED BY <2>1, <2>2
<1> QED BY <1>11, <1>12, <1>13, <1>14, <1>15 DEF FInv

LEMMA PrefillChunkFronts ==
  ASSUME SInv, FInv, PrefillChunk
  PROVE  FInv'
<1>1. Types /\ Planned /\ Filling /\ RequestOK /\ pc = "prefill" /\ cycle.at < DecodeAt
      /\ Bounded /\ Fronts
  BY DEF SInv, FInv, PrefillChunk, Types
<1>2. generated \in Nat /\ cycle \in Cycles
  BY <1>1 DEF Types
<1>3. DecodeAt \in Nat /\ cycle.at \in Nat
  BY <1>1, <1>2, Positioned DEF Cycles
<1>4. PICK n \in Nat \ {0} : n = Min({ChunkTokens, DecodeAt - cycle.at})
  <2>1. PICK x \in Nat \ {0} : x = DecodeAt - cycle.at
    BY <1>1, <1>3
  <2>2. ChunkTokens \in Int /\ x \in Int /\ ChunkTokens \in Nat \ {0}
    BY Constants
  <2>3. Min({ChunkTokens, x}) = IF ChunkTokens <= x THEN ChunkTokens ELSE x
    BY <2>2, MinOfTwo
  <2> QED BY <2>1, <2>2, <2>3
<1> DEFINE R == Computed("target", kv["target"], cycle.at, n, DecodeAt)
           g == FrontierAppend(frontier["target"], cycle.at, n)
<1>5. /\ rows' = [rows EXCEPT !["target"] = R]
      /\ kv' = [kv EXCEPT !["target"] = RecordBlock(@, cycle.at, n)]
      /\ frontier' = [frontier EXCEPT !["target"] = g]
      /\ cycle' = [cycle EXCEPT !.at = @ + n]
  BY <1>4 DEF PrefillChunk
<1>6. UNCHANGED <<policy, request, pc, generated, processed, pending, width>>
  BY DEF PrefillChunk
<1>7. Framed(g) /\ EndsAt(g, cycle.at + n)
  <2>1. Framed(frontier["target"])
    BY <1>1 DEF Fronts
  <2> HIDE DEF g
  <2> QED BY <1>3, <2>1, FrontierAppended DEF g
<1>8. R \in SUBSET Nat
  <2>1. "target" \in Layer /\ DecodeAt \in Int
    BY <1>3 DEF Layer
  <2> QED BY <1>1, <1>3, <2>1, RowsStayNat DEF Bounded
<1> HIDE DEF g, R
<1>9. /\ cycle'.at = cycle.at + n /\ cycle'.drafts = cycle.drafts
      /\ cycle'.draft = cycle.draft
  BY <1>2, <1>5 DEF Cycles
<1>10. kv'["mtp"] = kv["mtp"] /\ frontier'["mtp"] = frontier["mtp"]
       /\ frontier'["target"] = g /\ DOMAIN frontier' = Layer
       /\ rows' \in [Layer -> SUBSET Nat]
  <2>1. DOMAIN kv = Layer /\ DOMAIN frontier = Layer /\ rows \in [Layer -> SUBSET Nat]
    BY <1>1 DEF Types, Fronts, Bounded
  <2> QED BY <1>5, <1>8, <2>1 DEF Layer
<1>11. DecodeAt' = DecodeAt
  BY <1>6, SamePlace
<1>12. Bounded'
  BY <1>1, <1>6, <1>9, <1>10 DEF Bounded
<1>13. Fronts'
  BY <1>1, <1>6, <1>7, <1>10 DEF Fronts, Framed, Within, MtpBelow
<1>14. TargetUpTo(cycle.at)'
  BY <1>7, <1>9, <1>10 DEF TargetUpTo
<1>15. MtpBelow(DecodeAt - 1 + cycle.drafts.count)'
  BY <1>1, <1>9, <1>10, <1>11 DEF FInv, MtpBelow
<1>16. pc' = "prefill"
  BY <1>1, <1>6
<1> QED BY <1>12, <1>13, <1>14, <1>15, <1>16 DEF FInv

LEMMA RunTargetFronts ==
  ASSUME SInv, FInv, RunTarget
  PROVE  FInv'
<1>1. Types /\ Planned /\ Filling /\ RequestOK /\ pc = "prefill" /\ cycle.at = DecodeAt
      /\ Bounded /\ Fronts
  BY DEF SInv, FInv, RunTarget, Types
<1>2. generated \in Nat /\ cycle \in Cycles
  BY <1>1 DEF Types
<1>3. DecodeAt \in Nat
  BY <1>1, <1>2, Positioned
<1>4. /\ cycle.drafts.count \in Nat /\ cycle.drafts.matching \in Nat
      /\ cycle.padding \in {0, 1}
  BY <1>2 DEF Cycles, Drafted
<1>5. PICK n \in Nat : n = cycle.drafts.count + cycle.padding
  BY <1>4
<1> DEFINE R == Computed("target", kv["target"], DecodeAt, 1 + n, DecodeAt + cycle.drafts.matching)
           f == FrontierAppend(frontier["target"], DecodeAt, 1)
           g == FrontierAppend(f, DecodeAt + 1, n)
<1>6. /\ rows' = [rows EXCEPT !["target"] = R]
      /\ frontier' = [frontier EXCEPT !["target"] = g]
      /\ pc' = "accept"
  BY <1>5 DEF RunTarget
<1>7. /\ UNCHANGED <<policy, request, cycle, generated, processed, pending, width>>
      /\ kv' = [kv EXCEPT !["target"] = RecordTentative(RecordBlock(kv["target"], DecodeAt, 1),
                                                        DecodeAt + 1, n)]
  BY <1>5 DEF RunTarget
<1>8. Framed(g) /\ EndsAt(g, DecodeAt + 1 + n)
  <2>1. Framed(frontier["target"]) /\ 1 \in Nat \ {0} /\ DecodeAt + 1 \in Nat
    BY <1>1, <1>3 DEF Fronts
  <2>2. Framed(f) /\ EndsAt(f, DecodeAt + 1)
    <3> HIDE DEF f
    <3> QED BY <1>3, <2>1, FrontierAppended DEF f
  <2> HIDE DEF f
  <2>3. CASE n = 0
    BY <1>3, <2>2, <2>3 DEF FrontierAppend
  <2>4. CASE n # 0
    <3> HIDE DEF g
    <3>1. n \in Nat \ {0}
      BY <2>4
    <3> QED BY <2>1, <2>2, <3>1, FrontierAppended DEF g
  <2> QED BY <2>3, <2>4
<1>9. R \in SUBSET Nat
  <2>1. "target" \in Layer /\ DecodeAt + cycle.drafts.matching \in Int /\ 1 + n \in Nat
    BY <1>3, <1>4 DEF Layer
  <2> QED BY <1>1, <1>3, <2>1, RowsStayNat DEF Bounded
<1> HIDE DEF f, g, R
<1>10. kv'["mtp"] = kv["mtp"] /\ frontier'["mtp"] = frontier["mtp"]
       /\ frontier'["target"] = g /\ DOMAIN frontier' = Layer
       /\ rows' \in [Layer -> SUBSET Nat]
  <2>1. DOMAIN kv = Layer /\ DOMAIN frontier = Layer /\ rows \in [Layer -> SUBSET Nat]
    BY <1>1 DEF Types, Fronts, Bounded
  <2> QED BY <1>6, <1>7, <1>9, <2>1 DEF Layer
<1>11. DecodeAt' = DecodeAt
  BY <1>7, SamePlace
<1>12. Bounded'
  BY <1>1, <1>7, <1>10 DEF Bounded
<1>13. Fronts'
  BY <1>1, <1>7, <1>8, <1>10 DEF Fronts, Framed, Within, MtpBelow
<1>14. TargetUpTo(DecodeAt + 1 + cycle.drafts.count + cycle.padding)'
  <2>1. DecodeAt + 1 + cycle.drafts.count + cycle.padding = DecodeAt + 1 + n
    BY <1>3, <1>4, <1>5
  <2> QED BY <1>7, <1>8, <1>10, <1>11, <2>1 DEF TargetUpTo
<1>15. MtpBelow(DecodeAt - 1 + cycle.drafts.count)'
  BY <1>1, <1>7, <1>10, <1>11 DEF FInv, MtpBelow
<1> QED BY <1>6, <1>12, <1>13, <1>14, <1>15 DEF FInv

LEMMA AcceptScalarFronts ==
  ASSUME SInv, FInv, AcceptScalar
  PROVE  FInv'
<1>1. Types /\ Planned /\ RequestOK /\ pc = "accept" /\ cycle.drafts.count = 0
      /\ Bounded /\ Fronts
  BY DEF SInv, FInv, AcceptScalar, Types
<1>2. generated \in Nat /\ cycle \in Cycles
  BY <1>1 DEF Types
<1>3. DecodeAt \in Nat
  BY <1>1, <1>2, Positioned
<1>4. /\ cycle' = [cycle EXCEPT !.emitted = 1, !.from = Prefix]
      /\ pc' = IF cycle.draft > 0 THEN "draft" ELSE "record"
      /\ UNCHANGED <<policy, request, generated, processed, pending, width, kv, rows, frontier>>
  BY DEF AcceptScalar
<1>5. /\ cycle'.emitted = 1 /\ cycle'.draft = cycle.draft /\ cycle'.accepted = 0
      /\ cycle'.drafts = cycle.drafts
  BY <1>1, <1>2, <1>4 DEF Cycles, Planned
<1>6. DecodeAt' = DecodeAt
  BY <1>4, SamePlace
<1>7. Bounded'
  BY <1>1, <1>4, <1>5 DEF Bounded
<1>8. Fronts'
  BY <1>1, <1>4 DEF Fronts, Framed, Within, MtpBelow
<1>9. TargetUpTo(DecodeAt + 1 + cycle.accepted)'
  <2>1. cycle.padding = 0
    BY <1>1 DEF Planned, Padding
  <2>2. DecodeAt + 1 + cycle.drafts.count + cycle.padding = DecodeAt + 1 + 0
    BY <1>1, <1>3, <2>1
  <2>3. TargetUpTo(DecodeAt + 1 + 0)
    BY <1>1, <2>2 DEF FInv
  <2> QED BY <1>4, <1>5, <1>6, <2>3 DEF TargetUpTo
<1>10. ASSUME NEW p \in kv["mtp"].covered PROVE p \in Int /\ p < DecodeAt
  <2>1. p < DecodeAt - 1 + 0 /\ p \in Nat
    BY <1>1 DEF FInv, MtpBelow, Types, Ledger, Layer
  <2> QED BY <1>3, <2>1
<1>11. MtpBelow(DecodeAt + cycle.emitted - 1)'
  <2>1. DecodeAt + 1 - 1 = DecodeAt
    BY <1>3
  <2> QED BY <1>4, <1>5, <1>6, <1>10, <2>1 DEF MtpBelow
<1>12. MtpBelow(DecodeAt + cycle.emitted - 1 + pending.count)'
  <2>1. DecodeAt + 1 - 1 + pending.count = DecodeAt
    BY <1>1, <1>3, NoDraftsDrafted DEF Planned
  <2> QED BY <1>4, <1>5, <1>6, <1>10, <2>1 DEF MtpBelow
<1>13. pc' \in {"draft", "record"}
  BY <1>4
<1> QED BY <1>7, <1>8, <1>9, <1>11, <1>12, <1>13 DEF FInv

LEMMA AcceptDraftsFronts ==
  ASSUME SInv, FInv, AcceptDrafts
  PROVE  FInv'
<1> DEFINE d        == cycle.drafts
           accepted == Accepted(d)
           emitted  == accepted + 1
           boundary == DecodeAt + IF FullMatch(d) THEN accepted - 1 ELSE accepted
           drafts   == d.count + cycle.padding
           first    == DecodeAt + 1
           trimmed  == [l \in Layer |-> Trim(frontier[l], first, drafts, accepted)]
           seen     == [proposed |-> d.count, accepted |-> accepted]
           judged   == IF policy.fixed > 0 THEN width ELSE Observed(width, seen, policy.m2)
           next     == DraftLimit(emitted, WidthAnswer(AskWidth(judged)))
           rest     == DiscardFrom(kv["mtp"], boundary)
<1>1. Types /\ Planned /\ RequestOK /\ pc = "accept" /\ d.count > 0 /\ Bounded /\ Fronts
  BY DEF SInv, FInv, AcceptDrafts, Types
<1>2. /\ generated \in Nat /\ generated < request.budget /\ request.budget \in Nat
      /\ cycle \in Cycles /\ Steady(width) /\ d \in Drafted
      /\ DOMAIN kv = Layer /\ kv["mtp"] \in Ledger
  BY <1>1 DEF Types, Planned, RequestOK, Cycles, Bounded, Layer
<1>3. DecodeAt \in Nat
  BY <1>1, <1>2, Positioned
<1>4. /\ d.count \in Nat \ {0} /\ d.matching \in Nat /\ d.matching <= d.count
      /\ cycle.padding \in {0, 1}
  BY <1>1, <1>2 DEF Cycles, Drafted
<1>5. /\ accepted \in Nat /\ accepted <= d.count
      /\ FullMatch(d) => accepted = d.count
  <2> HIDE DEF d
  <2> QED BY <1>1, <1>2, AcceptedInBounds
<1>6. /\ boundary \in Nat /\ boundary <= DecodeAt + accepted /\ boundary <= first + accepted
      /\ drafts \in Nat \ {0} /\ accepted \in 0 .. drafts /\ first \in Nat
  <2> HIDE DEF d, accepted
  <2>1. CASE FullMatch(d)
    BY <1>3, <1>4, <1>5, <2>1
  <2>2. CASE ~FullMatch(d)
    BY <1>3, <1>4, <1>5, <2>2
  <2> QED BY <2>1, <2>2
<1>7. /\ UNCHANGED <<policy, request, generated, processed, pending, rows>>
      /\ IF policy.native
         THEN /\ kv'["mtp"] = rest
              /\ frontier' = [trimmed EXCEPT !["mtp"] = Shortened(@, boundary)]
              /\ width' = AskWidth(judged)
              /\ cycle' = [cycle EXCEPT !.accepted = accepted, !.emitted = emitted,
                                        !.from = boundary, !.draft = next]
              /\ pc' = IF next > 0 THEN "draft" ELSE "record"
         ELSE /\ kv'["mtp"] = kv["mtp"]
              /\ frontier' = trimmed
              /\ cycle' = [cycle EXCEPT !.accepted = accepted, !.emitted = emitted]
              /\ pc' = "record"
              /\ UNCHANGED width
  BY <1>2 DEF AcceptDrafts, Layer
<1>8. Steady(judged)
  <2>1. seen \in Observation /\ seen.proposed > 0
    BY <1>4, <1>5 DEF Observation
  <2> HIDE DEF seen
  <2> QED BY <1>2, <2>1, ObservedIsSteady
<1> HIDE DEF judged
<1>9. Steady(AskWidth(judged)) /\ next <= MaxDrafts
  <2>1. Steady(AskWidth(judged))
    BY <1>8, AskKeepsSteady
  <2>2. PICK w \in 0 .. MaxDrafts : w = WidthAnswer(AskWidth(judged))
    BY <1>1, <2>1, AnswerInBounds DEF Steady
  <2>3. emitted \in Nat
    BY <1>5
  <2> HIDE DEF emitted
  <2>4. DraftLimit(emitted, w) \in 0 .. MaxDrafts
    BY <1>1, <1>2, <2>3, LimitFits
  <2> QED BY <2>1, <2>2, <2>4
<1>10. /\ rest.covered = {p \in kv["mtp"].covered : p < boundary}
       /\ kv["mtp"].covered \in SUBSET Nat
  BY <1>2 DEF DiscardFrom, Truncated, Ledger
<1> HIDE DEF next, rest, boundary, accepted, drafts, first, d
<1>11. /\ Framed(trimmed["target"]) /\ EndsAt(trimmed["target"], first + accepted)
       /\ trimmed["mtp"] = Trim(frontier["mtp"], first, drafts, accepted)
       /\ DOMAIN trimmed = Layer
  <2>1. Framed(frontier["target"])
    BY <1>1 DEF Fronts
  <2>2. EndsAt(frontier["target"], first + drafts)
    <3>1. DecodeAt + 1 + cycle.drafts.count + cycle.padding = first + drafts
      BY <1>3, <1>4 DEF first, drafts, d
    <3> QED BY <1>1, <3>1 DEF FInv, TargetUpTo
  <2>3. trimmed["target"] = Trim(frontier["target"], first, drafts, accepted)
        /\ trimmed["mtp"] = Trim(frontier["mtp"], first, drafts, accepted)
    BY DEF Layer
  <2> QED BY <1>6, <2>1, <2>2, <2>3, TargetTrimmed
<1> HIDE DEF trimmed
<1>12. /\ DOMAIN frontier' = Layer /\ frontier'["target"] = trimmed["target"]
       /\ policy.native => frontier'["mtp"] = Shortened(Trim(frontier["mtp"], first, drafts, accepted),
                                                       boundary)
       /\ ~policy.native => frontier'["mtp"] = trimmed["mtp"]
  <2>1. CASE policy.native
    <3>1. frontier' = [trimmed EXCEPT !["mtp"] = Shortened(trimmed["mtp"], boundary)]
      BY <1>7, <2>1
    <3>2. "mtp" \in Layer /\ "target" \in Layer
      BY DEF Layer
    <3> QED BY <1>11, <2>1, <3>1, <3>2
  <2>2. CASE ~policy.native
    BY <1>7, <1>11, <2>2
  <2> QED BY <2>1, <2>2
<1>13. /\ cycle'.drafts = cycle.drafts /\ cycle'.accepted = accepted /\ cycle'.emitted = emitted
       /\ cycle'.draft <= MaxDrafts /\ Steady(width') /\ pc' \in {"draft", "record"}
       /\ pc' = "draft" => policy.native
  <2>1. CASE policy.native
    <3>1. /\ cycle'.drafts = cycle.drafts /\ cycle'.accepted = accepted
          /\ cycle'.emitted = emitted /\ cycle'.draft = next
      BY <1>2, <1>7, <2>1 DEF Cycles
    <3> QED BY <1>7, <1>9, <2>1, <3>1
  <2>2. CASE ~policy.native
    <3>1. /\ cycle'.drafts = cycle.drafts /\ cycle'.accepted = accepted
          /\ cycle'.emitted = emitted /\ cycle'.draft = cycle.draft
      BY <1>2, <1>7, <2>2 DEF Cycles
    <3> QED BY <1>1, <1>2, <1>7, <2>2, <3>1 DEF Bounded
  <2> QED BY <2>1, <2>2
<1>14. DecodeAt' = DecodeAt
  BY <1>7, SamePlace
<1>15. Bounded'
  BY <1>1, <1>7, <1>13 DEF Bounded
<1>16. /\ Framed(frontier'["mtp"])
       /\ frontier'["mtp"] # None =>
            /\ frontier'["mtp"].start .. FrontierEnd(frontier'["mtp"]) - 1 \subseteq kv'["mtp"].covered
            /\ \A p \in kv'["mtp"].covered : p < FrontierEnd(frontier'["mtp"])
       /\ ~policy.native => frontier'["mtp"] = None
  <2> DEFINE f == frontier["mtp"]
             r == Shortened(Trim(f, first, drafts, accepted), boundary)
  <2>1. CASE policy.native
    <3>1. Framed(f)
      BY <1>1 DEF Fronts
    <3>2. Framed(r)
          /\ (r # None => /\ f # None /\ r.start = f.start
                          /\ FrontierEnd(r) = IF FrontierEnd(f) <= boundary THEN FrontierEnd(f)
                                                                            ELSE boundary)
      <4> HIDE DEF f
      <4>1. drafts \in Nat /\ accepted \in Nat
        BY <1>5, <1>6
      <4> QED BY <1>6, <3>1, <4>1, MtpShortened
    <3>3. frontier'["mtp"] = r /\ kv'["mtp"] = rest
      BY <1>7, <1>12, <2>1
    <3> HIDE DEF r
    <3>4. ASSUME r # None
          PROVE  /\ r.start .. FrontierEnd(r) - 1 \subseteq rest.covered
                 /\ \A p \in rest.covered : p < FrontierEnd(r)
      <4>1. f # None /\ f.start \in Nat /\ FrontierEnd(f) \in Int /\ r.start = f.start
        <5>1. FrontierTokens \in Nat
          BY SpeculativeAssumption
        <5> QED BY <3>1, <3>2, <3>4, <5>1 DEF Framed, Frontiers, FrontierEnd
      <4>2. /\ f.start .. FrontierEnd(f) - 1 \subseteq kv["mtp"].covered
            /\ \A p \in kv["mtp"].covered : p < FrontierEnd(f)
        BY <1>1, <4>1 DEF Fronts, Within, MtpBelow
      <4> HIDE DEF f
      <4>3. \A p \in r.start .. FrontierEnd(r) - 1 : p \in f.start .. FrontierEnd(f) - 1 /\ p < boundary
        BY <1>6, <3>2, <3>4, <4>1
      <4>4. \A p \in rest.covered : p < FrontierEnd(r)
        BY <1>6, <1>10, <3>2, <3>4, <4>1, <4>2
      <4> QED BY <1>10, <4>2, <4>3, <4>4
    <3> QED BY <2>1, <3>2, <3>3, <3>4
  <2>2. CASE ~policy.native
    <3>1. f = None
      BY <1>1, <2>2 DEF Fronts
    <3>2. frontier'["mtp"] = None
      BY <1>11, <1>12, <2>2, <3>1 DEF Trim
    <3> QED BY <2>2, <3>2 DEF Framed
  <2> QED BY <2>1, <2>2
<1>17. ~policy.native => kv'["mtp"].covered = {}
  BY <1>1, <1>7 DEF Fronts
<1>18. Fronts'
  BY <1>7, <1>11, <1>12, <1>16, <1>17 DEF Fronts, Framed, Within, MtpBelow
<1>19. TargetUpTo(DecodeAt + 1 + cycle.accepted)'
  BY <1>11, <1>12, <1>13, <1>14 DEF TargetUpTo, first
<1>20. \A p \in kv'["mtp"].covered : p \in Int /\ p < DecodeAt + accepted
  <2>1. CASE policy.native
    BY <1>3, <1>5, <1>6, <1>7, <1>10, <2>1
  <2>2. CASE ~policy.native
    BY <1>17, <2>2
  <2> QED BY <2>1, <2>2
<1>21. MtpBelow(DecodeAt + cycle.emitted - 1)'
  <2>1. DecodeAt + emitted - 1 = DecodeAt + accepted
    BY <1>3, <1>5
  <2> QED BY <1>13, <1>14, <1>20, <2>1 DEF MtpBelow
<1>22. MtpBelow(DecodeAt + cycle.emitted - 1 + pending.count)'
  <2>1. DecodeAt + emitted - 1 + pending.count = DecodeAt + accepted
    BY <1>1, <1>3, <1>5, NoDraftsDrafted DEF Planned
  <2> QED BY <1>7, <1>13, <1>14, <1>20, <2>1 DEF MtpBelow
<1> QED BY <1>13, <1>15, <1>18, <1>19, <1>21, <1>22 DEF FInv

LEMMA DraftFronts ==
  ASSUME SInv, FInv, Draft
  PROVE  FInv'
<1>1. /\ Types /\ Accounted /\ Chaining /\ RequestOK /\ pc = "draft" /\ Bounded /\ Fronts
  BY DEF SInv, FInv, Draft, Types
<1>2. /\ generated \in Nat /\ cycle \in Cycles /\ DOMAIN kv = Layer
      /\ Sound(kv["mtp"]) /\ kv["mtp"].covered \in SUBSET Nat
  BY <1>1, SoundLedger DEF Types
<1>3. DecodeAt \in Nat
  BY <1>1, <1>2, Positioned
<1>4. /\ cycle.draft \in Nat /\ cycle.draft > 0 /\ cycle.draft <= MaxDrafts /\ cycle.from \in Nat
      /\ cycle.accepted \in Nat /\ cycle.emitted = cycle.accepted + 1
      /\ cycle.from <= DecodeAt + cycle.accepted /\ policy.native
  BY <1>1, <1>2 DEF Cycles, Chaining, Accounted, Bounded
<1>5. PICK d \in Proposals(cycle.draft) :
        LET from  == ChainStart
            last  == DecodeAt + cycle.emitted - 1
            known == RecordBlock(kv["mtp"], from, last - from)
            base  == IF from < last THEN known ELSE kv["mtp"]
        IN  /\ d.count = cycle.draft
            /\ rows' = [rows EXCEPT !["mtp"] =
                          Computed("mtp", kv["mtp"], from, last - from + d.count,
                                   last + d.matching)]
            /\ kv' = [kv EXCEPT !["mtp"] = RecordRows(base, last, d.count)]
            /\ frontier' = [frontier EXCEPT !["mtp"] =
                              AppendEach(FrontierAppend(@, from, last - from), last, d.count)]
            /\ pending' = d
            /\ pc' = IF last + d.count <= Capacity THEN "record" ELSE "failed"
  BY DEF Draft
<1>6. UNCHANGED <<policy, request, cycle, generated, processed, width>>
  BY DEF Draft
<1>7. PICK last \in Nat : last = DecodeAt + cycle.emitted - 1 /\ cycle.from <= last
  BY <1>3, <1>4
<1>8. PICK from \in Nat : from = ChainStart /\ from <= last
  BY <1>4, <1>7 DEF ChainStart
<1>9. PICK n \in Nat \ {0} : n = d.count /\ n <= MaxDrafts
  BY <1>4, <1>5
<1>10. PICK k \in Nat : k = last - from /\ from + k = last
  BY <1>8
<1>11. d \in Proposals(MaxDrafts) /\ d.matching \in Nat
  <2>1. 0 .. cycle.draft \subseteq 0 .. MaxDrafts /\ 0 .. cycle.draft \subseteq Nat
    BY <1>4, Constants
  <2> QED BY <1>5, <2>1 DEF Proposals
<1> DEFINE L    == kv["mtp"]
           base == IF from < last THEN RecordBlock(L, from, k) ELSE L
           M    == RecordRows(base, last, n)
           R    == Computed("mtp", L, from, k + n, last + d.matching)
           f    == frontier["mtp"]
           g    == FrontierAppend(f, from, k)
           h    == AppendEach(g, last, n)
<1>12. /\ rows' = [rows EXCEPT !["mtp"] = R]
       /\ kv' = [kv EXCEPT !["mtp"] = M]
       /\ frontier' = [frontier EXCEPT !["mtp"] = h]
       /\ pending' = d
       /\ pc' \in {"record", "failed"}
  BY <1>5, <1>7, <1>8, <1>9, <1>10
<1>13. base \in Ledger /\ base.covered = L.covered \union (from .. last - 1)
  <2>1. CASE from < last
    <3>1. k \in Nat \ {0} /\ last - 1 \in Int /\ last - 1 = from + k - 1
      BY <1>10, <2>1
    <3>2. base = RecordBlock(L, from, k)
      BY <2>1
    <3> HIDE DEF L, base
    <3>3. Sound(L)
      BY <1>2 DEF L
    <3>4. Sound(RecordBlock(L, from, k))
      BY <3>1, <3>3, BlockRecorded
    <3>5. RecordBlock(L, from, k).covered = L.covered \union (from .. last - 1)
      BY <3>1, <3>3, BlockCovers
    <3> QED BY <3>2, <3>4, <3>5 DEF Sound
  <2>2. CASE ~(from < last)
    <3>1. from .. last - 1 = {}
      BY <2>2
    <3> QED BY <1>2, <2>2, <3>1 DEF Sound
  <2> QED BY <2>1, <2>2
<1> HIDE DEF base
<1>14. M.covered = L.covered \union (from .. last - 1) \union (last .. last + n - 1)
  BY <1>13 DEF RecordRows, Ledger
<1> HIDE DEF M
<1>15. Framed(f) /\ Within(f, L.covered)
       /\ \A p \in L.covered : p \in Nat /\ p < last
  BY <1>1, <1>2, <1>7 DEF Fronts, FInv, MtpBelow
<1> HIDE DEF f, L
<1>16. Framed(g) /\ Within(g, M.covered)
  <2>1. CASE k = 0
    <3>1. g = f
      BY <2>1 DEF FrontierAppend
    <3> QED BY <1>14, <1>15, <3>1 DEF Within
  <2>2. CASE k # 0
    <3>1. k \in Nat \ {0}
      BY <2>2
    <3>2. LET r == FrontierAppend(f, from, k)
          IN  /\ Framed(r) /\ EndsAt(r, from + k)
              /\ \A C : Within(f, C) /\ from .. from + k - 1 \subseteq C => Within(r, C)
      BY ONLY <1>15, <3>1, from \in Nat, FrontierAppended
    <3>3. from .. from + k - 1 \subseteq M.covered
      <4>1. from + k - 1 = last - 1
        BY <1>10
      <4> QED BY <1>14, <4>1
    <3>4. Within(f, M.covered)
      BY <1>14, <1>15 DEF Within
    <3> QED BY <3>2, <3>3, <3>4
  <2> QED BY <2>1, <2>2
<1> HIDE DEF g
<1>17. Framed(h) /\ EndsAt(h, last + n) /\ Within(h, M.covered)
  <2>1. LET r == AppendEach(g, last, n)
        IN  /\ Framed(r) /\ EndsAt(r, last + n)
            /\ \A C : Within(g, C) /\ last .. last + n - 1 \subseteq C => Within(r, C)
    BY ONLY <1>16, last \in Nat, n \in Nat \ {0}, EachAppended
  <2>2. last .. last + n - 1 \subseteq M.covered
    BY <1>14
  <2> QED BY <1>16, <2>1, <2>2
<1>18. R \in SUBSET Nat
  <2>1. "mtp" \in Layer /\ last + d.matching \in Int /\ k + n \in Nat
    BY <1>11 DEF Layer
  <2> QED BY <1>1, <2>1, RowsStayNat DEF Bounded
<1> HIDE DEF h, R
<1>19. /\ kv'["mtp"] = M /\ frontier'["mtp"] = h /\ frontier'["target"] = frontier["target"]
       /\ DOMAIN frontier' = Layer /\ rows' \in [Layer -> SUBSET Nat]
  <2>1. DOMAIN frontier = Layer /\ rows \in [Layer -> SUBSET Nat]
    BY <1>1 DEF Fronts, Bounded
  <2> QED BY <1>2, <1>12, <1>18, <2>1 DEF Layer
<1>20. DecodeAt' = DecodeAt
  BY <1>6, SamePlace
<1>21. Bounded'
  BY <1>1, <1>6, <1>11, <1>12, <1>19 DEF Bounded
<1>22. \A p \in M.covered : p < last + n
  BY <1>14, <1>15
<1>23. Fronts'
  <2>1. frontier'["mtp"] # None => MtpBelow(FrontierEnd(frontier["mtp"]))'
    BY <1>17, <1>19, <1>22 DEF MtpBelow, EndsAt
  <2> QED BY <1>1, <1>4, <1>6, <1>17, <1>19, <2>1 DEF Fronts, Framed, Within
<1>24. TargetUpTo(DecodeAt + 1 + cycle.accepted)'
  BY <1>1, <1>6, <1>19, <1>20 DEF FInv, TargetUpTo
<1>25. MtpBelow(DecodeAt + cycle.emitted - 1 + pending.count)'
  <2>1. DecodeAt + cycle.emitted - 1 + pending'.count = last + n
    BY <1>7, <1>9, <1>12
  <2> QED BY <1>6, <1>19, <1>20, <1>22, <2>1 DEF MtpBelow
<1> QED BY <1>12, <1>21, <1>23, <1>24, <1>25 DEF FInv

LEMMA RecordFronts ==
  ASSUME SInv, FInv, Record
  PROVE  FInv'
<1>1. Types /\ Accounted /\ RequestOK /\ pc = "record" /\ Bounded /\ Fronts
  BY DEF SInv, FInv, Record, Types
<1>2. /\ generated \in Nat /\ cycle \in Cycles /\ pending \in Drafted
      /\ request.prompt \in Nat \ {0} /\ cycle.emitted = cycle.accepted + 1
      /\ DecodeAt \in Nat
  BY <1>1, Positioned DEF Types, RequestOK, Accounted
<1>3. cycle.accepted \in Nat /\ cycle.emitted \in Nat /\ pending.count \in Nat
  BY <1>2 DEF Cycles, Drafted
<1>4. /\ processed' = Processed
      /\ generated' = generated + cycle.emitted
      /\ pc' \in {"failed", "done", "idle"}
      /\ cycle' = NoCycle
      /\ UNCHANGED <<policy, request, pending, width, kv, rows, frontier>>
  BY DEF Record
<1>5. processed' = DecodeAt + 1 + cycle.accepted
  BY <1>4 DEF Processed
<1>6. DecodeAt' = DecodeAt + cycle.emitted /\ Prefix' = DecodeAt + 1 + cycle.accepted
  <2>1. DecodeAt' = request.prompt + generated' - 1
    BY <1>4 DEF DecodeAt
  <2>2. Prefix' = request.prompt + generated' - 1
    <3>1. generated' # 0
      BY <1>2, <1>3, <1>4
    <3> QED BY <1>4, <3>1 DEF Prefix
  <2>3. DecodeAt = request.prompt + generated - 1
    BY DEF DecodeAt
  <2> QED BY <1>2, <1>3, <1>4, <2>1, <2>2, <2>3
<1>7. cycle'.drafts = NoDrafts /\ cycle'.draft = 0
  BY <1>4 DEF NoCycle
<1>8. Bounded'
  BY <1>1, <1>4, <1>7, NoDraftsProposed, Constants DEF Bounded
<1>9. Fronts'
  BY <1>1, <1>4 DEF Fronts, Framed, Within, MtpBelow
<1>10. TargetUpTo(DecodeAt + 1 + cycle.accepted)
  BY <1>1 DEF FInv
<1>11. TargetUpTo(Prefix)' /\ TargetUpTo(processed)'
  BY <1>4, <1>5, <1>6, <1>10 DEF TargetUpTo
<1>12. MtpBelow(DecodeAt - 1 + pending.count)'
  <2>1. MtpBelow(DecodeAt + cycle.emitted - 1 + pending.count)
    BY <1>1 DEF FInv
  <2>2. DecodeAt' - 1 + pending'.count = DecodeAt + cycle.emitted - 1 + pending.count
    BY <1>2, <1>3, <1>4, <1>6
  <2> QED BY <1>4, <2>1, <2>2 DEF MtpBelow
<1> QED BY <1>4, <1>8, <1>9, <1>11, <1>12 DEF FInv

LEMMA StutterFronts ==
  ASSUME SInv, FInv, UNCHANGED vars
  PROVE  FInv'
<1> USE DEF vars
<1>1. Bounded' /\ Fronts'
  BY DEF FInv, Bounded, Fronts, Framed, Within, MtpBelow
<1> QED BY <1>1 DEF FInv, TargetUpTo, EndsAt, MtpBelow, Prefix, DecodeAt

LEMMA FrontiersFollow ==
  ASSUME SInv, FInv
  PROVE  FrontiersFollowLedger
<1>1. Types /\ Bounded /\ Fronts /\ RequestOK
  BY DEF SInv, FInv, Types
<1>2. FrontierTokens \in Nat
  BY SpeculativeAssumption
<1>3. TypeOK
  <2>1. policy \in Policies /\ generated \in Nat /\ processed \in Nat
        /\ pc \in {"idle", "prefill", "accept", "draft", "record", "done", "failed"}
        /\ kv \in [Layer -> Ledger]
    BY <1>1 DEF Types, RequestOK
  <2>2. /\ pending \in Proposals(MaxDrafts) /\ cycle.drafts \in Proposals(MaxDrafts)
        /\ WidthOK(width) /\ rows \in [Layer -> SUBSET Nat]
    BY <1>1 DEF Bounded, Steady
  <2>3. cycle.padding \in {0, 1}
        /\ {cycle.at, cycle.accepted, cycle.emitted, cycle.from, cycle.draft} \subseteq Nat
    BY <1>1 DEF Types, Cycles
  <2>4. \A l \in Layer : frontier[l] # None => /\ frontier[l].start \in Nat
                                               /\ frontier[l].rows \in 1 .. FrontierTokens
    BY <1>1 DEF Fronts, Framed, Frontiers, Layer
  <2> QED BY <2>1, <2>2, <2>3, <2>4 DEF TypeOK
<1>4. ASSUME NEW f \in Frontiers, NEW C \in SUBSET Nat,
             f.start .. FrontierEnd(f) - 1 \subseteq C, \A p \in C : p < FrontierEnd(f)
      PROVE  FrontierEnd(f) = Max(C) + 1
  <2>1. f.start \in Nat /\ f.rows \in 1 .. FrontierTokens /\ FrontierEnd(f) = f.start + f.rows
    BY DEF Frontiers, FrontierEnd
  <2>2. PICK e \in Nat : e = FrontierEnd(f) - 1 /\ e \in f.start .. FrontierEnd(f) - 1
                         /\ FrontierEnd(f) = e + 1
    BY <1>2, <2>1
  <2>3. e \in C /\ \A p \in C : e >= p
    BY <1>4, <2>2
  <2>4. Max(C) \in C /\ Max(C) >= e
    BY <2>3 DEF Max
  <2>5. Max(C) = e
    <3>1. PICK m \in Nat : m = Max(C) /\ m >= e /\ e >= m
      BY <2>3, <2>4
    <3> QED BY <2>2, <3>1
  <2> QED BY <2>2, <2>5
<1>5. ASSUME pc \in {"draft", "record", "idle", "done"}, frontier["target"] # None
      PROVE  LET f == frontier["target"]
             IN  /\ FrontierEnd(f) = Max(kv["target"].covered) + 1
                 /\ f.start .. FrontierEnd(f) - 1 \subseteq kv["target"].covered
  <2> DEFINE f == frontier["target"]
             C == kv["target"].covered
  <2>1. PICK n : TargetUpTo(n) /\ TargetHas(n)
    BY <1>5 DEF FInv, SInv, Idle, Accounted, Over
  <2>2. f \in Frontiers /\ FrontierEnd(f) = n /\ C = 0 .. n - 1 /\ C \in SUBSET Nat
    BY <1>1, <1>5, <2>1 DEF Fronts, Framed, TargetUpTo, EndsAt, TargetHas, Types, Ledger, Layer
  <2>3. f.start \in Nat /\ n \in Nat
    BY <1>2, <2>2 DEF Frontiers, FrontierEnd
  <2>4. f.start .. n - 1 \subseteq C /\ \A p \in C : p < n
    BY <2>2, <2>3
  <2> HIDE DEF f, C
  <2>5. FrontierEnd(f) = Max(C) + 1
    BY <1>4, <2>2, <2>4
  <2> QED BY <2>2, <2>4, <2>5 DEF f, C
<1>6. ASSUME frontier["mtp"] # None
      PROVE  LET f == frontier["mtp"]
             IN  /\ FrontierEnd(f) = Max(kv["mtp"].covered) + 1
                 /\ f.start .. FrontierEnd(f) - 1 \subseteq kv["mtp"].covered
  <2> DEFINE f == frontier["mtp"]
             C == kv["mtp"].covered
  <2>1. f \in Frontiers /\ C \in SUBSET Nat /\ f.start .. FrontierEnd(f) - 1 \subseteq C
        /\ \A p \in C : p < FrontierEnd(f)
    BY <1>1, <1>6 DEF Fronts, Framed, Within, MtpBelow, Types, Ledger, Layer
  <2> HIDE DEF f, C
  <2>2. FrontierEnd(f) = Max(C) + 1
    BY <1>4, <2>1
  <2> QED BY <2>1, <2>2 DEF f, C
<1> QED BY <1>3, <1>5, <1>6 DEF FrontiersFollowLedger

(* The copies that attention reads from follow the ledgers: in both layers  *)
(* and at every step at which one is read, a frontier ends where the        *)
(* visible rows end and holds visible rows only, whatever was rejected      *)
(* (resolve_mtp_tentative_frontiers, rewind_device_kv_attention_ready_      *)
(* frontier).                                                               *)
THEOREM FrontiersStayInStep == Spec => []FrontiersFollowLedger
<1>1. SInv /\ FInv /\ [Next]_vars => SInv' /\ FInv'
  <2> SUFFICES ASSUME SInv, FInv, [Next]_vars PROVE SInv' /\ FInv'
    OBVIOUS
  <2>1. CASE StartCycle
    BY <2>1, StartCycleKeeps, StartCycleFronts
  <2>2. CASE PrefillChunk
    BY <2>2, PrefillChunkKeeps, PrefillChunkFronts
  <2>3. CASE RunTarget
    BY <2>3, RunTargetKeeps, RunTargetFronts
  <2>4. CASE AcceptScalar
    BY <2>4, AcceptScalarKeeps, AcceptScalarFronts
  <2>5. CASE AcceptDrafts
    BY <2>5, AcceptDraftsKeeps, AcceptDraftsFronts
  <2>6. CASE Draft
    BY <2>6, DraftKeeps, DraftFronts
  <2>7. CASE Record
    BY <2>7, RecordKeeps, RecordFronts
  <2>8. CASE UNCHANGED vars
    BY <2>8, StutterKeeps, StutterFronts
  <2> QED BY <2>1, <2>2, <2>3, <2>4, <2>5, <2>6, <2>7, <2>8 DEF Next
<1>2. SInv /\ FInv => FrontiersFollowLedger
  BY FrontiersFollow
<1> QED BY InitHolds, FrontiersBegin, <1>1, <1>2, PTL DEF Spec
==============================================================================
