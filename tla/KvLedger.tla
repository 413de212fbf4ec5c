------------------------------- MODULE KvLedger -------------------------------
(***************************************************************************)
(* The ledger of one sequence's KV writes in one layer (glmrt-core/src/     *)
(* kv_cache: allocator.rs and backing_store.rs): which positions were       *)
(* written, what became of each write, and three indexes over the writes    *)
(* that are kept by hand:                                                   *)
(*   tentative   the writes still to be resolved,                           *)
(*   blocks      the writes that are backed,                                *)
(*   covered     the positions attention reads (the code keeps the maximal  *)
(*               runs of this set).                                         *)
(* Pure operators: a ledger is a value, SpeculativeKv keeps one per layer.  *)
(***************************************************************************)
EXTENDS Queues, SequencesExt, FiniteSetsExt

State == {"written", "tentative", "committed", "discarded"}

(* KvWriteRecord, without the fields that are the same throughout a ledger. *)
Write == [start : Nat, count : Nat \ {0}, state : State]

Ledger == [writes : Seq(Write), tentative : Seq(Nat),
           blocks : SUBSET Nat, covered : SUBSET Nat]

EmptyLedger == [writes |-> <<>>, tentative |-> <<>>, blocks |-> {}, covered |-> {}]

End(w) == w.start + w.count
Positions(w) == w.start .. End(w) - 1

(* is_visible_to_attention.                                                 *)
Shows(w) == w.state \in {"written", "committed"}

(* write_committed_block_metadata: one write of n positions.                *)
RecordBlock(L, start, n) ==
  LET id == Len(L.writes) + 1
      w  == [start |-> start, count |-> n, state |-> "written"]
  IN  [L EXCEPT !.writes  = Append(@, w),
                !.blocks  = @ \union {id},
                !.covered = @ \union Positions(w)]

(* One wave after the other, a position each.                               *)
RecordRows(L, start, n) ==
  LET first == Len(L.writes) + 1
  IN  [L EXCEPT !.writes  = @ \o [i \in 1 .. n |-> [start |-> start + i - 1, count |-> 1,
                                                     state |-> "written"]],
                !.blocks  = @ \union first .. first + n - 1,
                !.covered = @ \union start .. start + n - 1]

(* write_tentative_block_metadata_for_wave: n writes of one position each.  *)
RecordTentative(L, start, n) ==
  LET ids == [i \in 1 .. n |-> Len(L.writes) + i]
  IN  [L EXCEPT !.writes = @ \o [i \in 1 .. n |-> [start |-> start + i - 1, count |-> 1,
                                                   state |-> "tentative"]],
                !.tentative = @ \o ids,
                !.blocks    = @ \union Range(ids)]

(* A bug: a write that merely begins among the accepted ones counts.        *)
KeepsOneMore(w, acceptedEnd) == w.start <= acceptedEnd

Accepts(w, acceptedEnd) == End(w) <= acceptedEnd

Shown(L, ids) == L.covered \union UNION {Positions(L.writes[i]) : i \in ids}

Unresolved(L, ids) == Keep(L.tentative, Nat \ ids)

(* resolve_mtp_tentative_writes: of the open writes inside [start, start +  *)
(* drafts), those within the accepted ones are committed, the others        *)
(* discarded; open writes outside stay open.                                *)
Resolve(L, start, drafts, accepted) ==
  LET inside == {i \in Range(L.tentative) :
                   /\ L.writes[i].state = "tentative"
                   /\ L.writes[i].start >= start
                   /\ End(L.writes[i]) <= start + drafts}
      kept   == {i \in inside : Accepts(L.writes[i], start + accepted)}
      now(i) == IF i \in kept THEN "committed" ELSE "discarded"
  IN  [writes    |-> [i \in DOMAIN L.writes |->
                        IF i \in inside THEN [L.writes[i] EXCEPT !.state = now(i)]
                                        ELSE L.writes[i]],
       tentative |-> Unresolved(L, inside),
       blocks    |-> L.blocks \ (inside \ kept),
       covered   |-> Shown(L, kept)]

(* A bug: the runs are left as they were.                                   *)
NotTruncated(L, start) == L.covered

(* truncate_attention_metadata_runs.                                        *)
Truncated(L, start) == {p \in L.covered : p < start}

(* discard_writes_from: every write that begins at start or later.          *)
DiscardFrom(L, start) ==
  LET gone == {i \in DOMAIN L.writes :
                 L.writes[i].start >= start /\ L.writes[i].state # "discarded"}
  IN  [writes    |-> [i \in DOMAIN L.writes |->
                        IF i \in gone THEN [L.writes[i] EXCEPT !.state = "discarded"]
                                      ELSE L.writes[i]],
       tentative |-> Unresolved(L, gone),
       blocks    |-> L.blocks \ gone,
       covered   |-> Truncated(L, start)]

-----------------------------------------------------------------------------
(* The three indexes say what the records say: the open writes, in the      *)
(* order they were made; the writes that are not discarded; and the         *)
(* positions of the visible ones, so that reading by runs                   *)
(* (read_attention_blocks_for_wave) and reading by records                  *)
(* (read_visible_blocks_for_descriptor) agree.                              *)
IndexesAgree(L) ==
  /\ L.tentative = Ascending({i \in DOMAIN L.writes : L.writes[i].state = "tentative"})
  /\ L.blocks = {i \in DOMAIN L.writes : L.writes[i].state # "discarded"}
  /\ L.covered = UNION {Positions(L.writes[i]) : i \in {j \in DOMAIN L.writes :
                                                            Shows(L.writes[j])}}
=============================================================================
