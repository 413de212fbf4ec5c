--------------------------- MODULE SequenceExecutor ---------------------------
(***************************************************************************)
(* The request executor (glmrt-daemon, commands/real_full/entry.rs) on top *)
(* of the prefix cache: what it does between taking a request and giving   *)
(* back all that the request held.                                         *)
(*                                                                         *)
(* A request first reserves the longest cached prefix of its prompt.  The  *)
(* draft model has a cache of its own, of the last rows of finished        *)
(* sequences (the tail cache), so the match is shortened to a prefix whose *)
(* tail is still there.  Then the request takes an execution lane and a    *)
(* draft slot, its passes run, and finishing it publishes pages and tail   *)
(* at one common frontier.                                                 *)
(*                                                                         *)
(* One thread executes; a request's opening, from the reservation to the   *)
(* end of its first pass, is not interrupted by another's (`turn'), later  *)
(* passes of several requests may run as one batch.  A draft row, the      *)
(* draft model's KV of one position, is named by the prefix ending there.  *)
(***************************************************************************)
EXTENDS TargetKvRadix

CONSTANTS
  Plain,        (* requests that bypass the prefix cache (images, MTP)      *)
  Lanes,        (* max_execution_lanes: also the draft slots, max requests  *)
  MaxContext,   (* kv_config.max_tokens                                     *)
  Headroom,     (* REAL_FULL_SEQUENCE_EXTENSION_HEADROOM_TOKENS             *)
  Budgets,      (* the decode budgets requests come with                    *)
  MaxDrafts,    (* REAL_FULL_DSPARK_MAX_VERIFY_DRAFTS                       *)
  Window,       (* context_tokens: the draft model's attention window       *)
  DraftPage,    (* rows of a page of a draft slot                           *)
  TailRows,     (* capacity of the tail cache, in rows                      *)
  PromptTails   (* cache mode: prompt-swa, else request-local               *)

ASSUME ExecutorAssumption ==
  /\ Plain \subseteq Request
  /\ Lanes = MaxActive
  /\ MaxContext \in Capacities
  /\ Headroom \in Nat
  /\ Budgets \subseteq Nat \ {0}
  /\ MaxDrafts \in Nat
  /\ DraftPage \in Nat \ {0}
  /\ Window \in Nat \ {0} /\ Window % DraftPage = 0 /\ MaxDrafts < Window
  /\ TailRows \in Nat
  /\ PromptTails \in BOOLEAN
  /\ Texts # {} /\ \A ids \in Texts : Prefixes(ids) \subseteq Texts

VARIABLES
  seq,       (* per request: its stage, texts, lane                        *)
  draft,     (* per request: its draft slot's absolute context and rows    *)
  tails,     (* tail_cache.entries, oldest first                           *)
  recycled,  (* lanes of recycled_scheduler_states                         *)
  turn       (* the request being opened                                   *)

own == <<seq, draft, tails, recycled, turn>>

execVars == <<vars, own>>

-----------------------------------------------------------------------------
(* Sequences, lanes, draft slots *)

MinOf(a, b) == IF a < b THEN a ELSE b

Front(ids) == SubSeq(ids, 1, Len(ids) - 1)

Lane == 0..(Lanes - 1)

Stages == {"idle", "probed", "realign", "reserved", "bound", "primed", "ready",
           "failed", "spent"}

(* prompt: its token ids; text: the prompt and what was generated; done:    *)
(* processed_token_ids; budget: decode_budget; drafting: dspark_active.     *)
Idle == [stage |-> "idle", prompt |-> <<>>, text |-> <<>>, done |-> <<>>,
         budget |-> 0, drafting |-> FALSE, lane |-> Lanes]

NoSlot == [slot |-> FALSE, context |-> 0, rows |-> <<>>]

ExecInit ==
  /\ Init
  /\ seq = [r \in Request |-> Idle]
  /\ draft = [r \in Request |-> NoSlot]
  /\ tails = <<>>
  /\ recycled = {}
  /\ turn = None

Capacity(ids, budget) ==
  MinOf(Len(ids) + budget + MinOf(Len(ids), Headroom), MaxContext)

(* A scheduler state exists, and its lane is taken. *)
Resident(r) == seq[r].stage \in {"bound", "primed", "ready", "failed"}

Generated(r) == Len(seq[r].text) - Len(seq[r].prompt)

(* dspark_active: a later token is still to be drafted for. *)
Drafting(r) == seq[r].drafting /\ seq[r].budget - Generated(r) > 1

Occupied == {seq[r].lane : r \in {q \in Request : Resident(q)}}

(* Mutant: only recycled states are seen to occupy their lanes. *)
FreeOfRecycled == Lane \ recycled

FreeLanes == Lane \ (Occupied \cup recycled)

(* A recycled state is preferred, the one of the lowest lane. *)
NextLane ==
  LET choice == IF recycled # {} THEN recycled ELSE FreeLanes
  IN  CHOOSE l \in choice : \A k \in choice : l <= k

SlotsHeld == {r \in Request : draft[r].slot}

(* Mutant: the pass is covered, its drafts are not. *)
FrontierWithoutDrafts(r) == MinOf(Len(seq[r].text), capacity[r])

(* The tokens the next pass may write. *)
Frontier(r) == MinOf(Len(seq[r].text) + MaxDrafts, capacity[r])

Covered(r) ==
  /\ busy = None
  /\ r \notin Plain => /\ boundary[r] = None
                       /\ Len(PageTable(r)) >= PagesFor(Frontier(r))

-----------------------------------------------------------------------------
(* Draft rows and the tail cache *)

(* The rows of the positions from+1 .. to of a text. *)
RowsOf(ids, from, to) == [i \in 1..(to - from) |-> SubSeq(ids, 1, from + i)]

(* Mutant: pages are dropped down to the window, which may cut below it. *)
RolledShort(rows, n) ==
  LET over == Len(rows) + n - Window
      drop == IF over <= 0 THEN 0 ELSE ((over + DraftPage - 1) \div DraftPage) * DraftPage
  IN  SubSeq(rows, MinOf(drop, Len(rows)) + 1, Len(rows))

(* roll_dspark_swa_page_table: make room for n rows in the sliding window, *)
(* in whole pages.                                                         *)
Rolled(rows, n) ==
  LET over == Len(rows) + n - (Window + DraftPage - 1)
      drop == IF over <= 0 THEN 0 ELSE ((over + DraftPage - 1) \div DraftPage) * DraftPage
  IN  SubSeq(rows, drop + 1, Len(rows))

(* Mutants: the rows come, the context stays; the context starts at the     *)
(* window.                                                                  *)
ReplayedInPlace(d, start, rows) ==
  [d EXCEPT !.context = start, !.rows = Rolled(d.rows, Len(rows)) \o rows]

ReplayedFromWindow(d, start, rows) ==
  [d EXCEPT !.context = start + Len(rows) - Window,
            !.rows = Rolled(d.rows, Len(rows)) \o rows]

Replayed(d, start, rows) ==
  [d EXCEPT !.context = start + Len(rows), !.rows = Rolled(d.rows, Len(rows)) \o rows]

(* Rows held by the entries from..Len(ts). *)
Bulk(ts, from) ==
  Cardinality(UNION {{i} \X (1..Len(ts[i].rows)) : i \in from..Len(ts)})

(* Mutant: an entry of the same key is not replaced. *)
TailInsertAgain(ts, e) ==
  IF Len(e.rows) > TailRows THEN ts
  ELSE LET first == CHOOSE i \in 1..(Len(ts) + 1) :
                      /\ Bulk(ts, i) + Len(e.rows) <= TailRows
                      /\ \A j \in 1..(i - 1) : Bulk(ts, j) + Len(e.rows) > TailRows
       IN  Append(SubSeq(ts, first, Len(ts)), e)

(* The entries but for the one of that key. *)
Without(ts, key) ==
  IF \A i \in 1..Len(ts) : ts[i].key # key THEN ts
  ELSE LET at == CHOOSE i \in 1..Len(ts) : ts[i].key = key
       IN  SubSeq(ts, 1, at - 1) \o SubSeq(ts, at + 1, Len(ts))

(* The oldest entries make room for the new one, which replaces its like. *)
TailInsert(ts, e) ==
  IF Len(e.rows) > TailRows THEN ts
  ELSE LET others == Without(ts, e.key)
           first  == CHOOSE i \in 1..(Len(others) + 1) :
                       /\ Bulk(others, i) + Len(e.rows) <= TailRows
                       /\ \A j \in 1..(i - 1) : Bulk(others, j) + Len(e.rows) > TailRows
       IN  Append(SubSeq(others, first, Len(others)), e)

TailKeys == {e.key : e \in Elems(tails)}

(* longest_exact_prefix_tokens: the longest part of the match whose tail is *)
(* still cached.                                                            *)
Aligned(m) ==
  LET keys == TailKeys \cap (Prefixes(m) \ {<<>>})
  IN  IF keys = {} THEN <<>> ELSE CHOOSE k \in keys : \A l \in keys : l \sqsubseteq k

-----------------------------------------------------------------------------
(* Opening a request: reservation, alignment, lane, draft slot, first pass *)

Close(r) == seq' = [seq EXCEPT ![r] = Idle]

Fits(ids, budget) == ids # <<>> /\ Len(ids) + budget <= MaxContext

Opened(ids, budget, drafting) ==
  [Idle EXCEPT !.stage = "probed", !.prompt = ids, !.text = ids,
               !.budget = budget, !.drafting = drafting]

Probe(r, ids, budget, drafting, m) ==
  /\ turn = None
  /\ r \notin Plain /\ seq[r].stage = "idle"
  /\ Fits(ids, budget)
  /\ Reserve(r, Front(ids), Capacity(ids, budget), m)
  /\ seq' = [seq EXCEPT ![r] = Opened(ids, budget, drafting)]
  /\ turn' = r
  /\ UNCHANGED <<draft, tails, recycled>>

ProbeRefused(r, ids, budget, m) ==
  /\ turn = None
  /\ r \notin Plain /\ seq[r].stage = "idle"
  /\ Fits(ids, budget)
  /\ ReserveRefused(r, Front(ids), Capacity(ids, budget), m)
  /\ UNCHANGED own

(* Mutant: the match is kept although its tail is gone. *)
MatchStandsAnyway(r) == seq[r].stage \in {"probed", "reserved"}

MatchStands(r) ==
  \/ seq[r].stage = "reserved"
  \/ /\ seq[r].stage = "probed"
     /\ ~(seq[r].drafting /\ PromptTails) \/ Aligned(matched[r]) = matched[r]

(* The reservation is dropped for one of the aligned prefix; `done' holds  *)
(* that prefix, from which the request is to start.                        *)
DropMatch(r) ==
  /\ turn = r
  /\ seq[r].stage = "probed" /\ ~MatchStands(r)
  /\ seq' = [seq EXCEPT ![r].stage = "realign", ![r].done = Aligned(matched[r])]
  /\ Cancel(r)
  /\ UNCHANGED <<draft, tails, recycled, turn>>

Realign(r, m) ==
  /\ turn = r
  /\ seq[r].stage = "realign"
  /\ Reserve(r, seq[r].done, Capacity(seq[r].prompt, seq[r].budget), m)
  /\ seq' = [seq EXCEPT ![r].stage = "reserved"]
  /\ UNCHANGED <<draft, tails, recycled, turn>>

RealignRefused(r, m) ==
  /\ turn = r
  /\ seq[r].stage = "realign"
  /\ ReserveRefused(r, seq[r].done, Capacity(seq[r].prompt, seq[r].budget), m)
  /\ Close(r)
  /\ turn' = None
  /\ UNCHANGED <<draft, tails, recycled>>

(* take_scheduler_state for a new sequence, up to the first                *)
(* materialization of bind_target_radix_reservation.                       *)
TakeLane(r) ==
  /\ turn = r
  /\ MatchStands(r)
  /\ recycled \cup FreeLanes # {}
  /\ seq' = [seq EXCEPT ![r].stage = "bound", ![r].lane = NextLane, ![r].done = matched[r]]
  /\ recycled' = recycled \ {NextLane}
  /\ EnsureMaterialized(r, MinOf(Len(seq[r].prompt), capacity[r]))
  /\ UNCHANGED <<draft, tails, turn>>

(* All lanes are resident: the request stays pending, without reservation. *)
NoLane(r) ==
  /\ turn = r
  /\ MatchStands(r)
  /\ recycled \cup FreeLanes = {}
  /\ Cancel(r)
  /\ Close(r)
  /\ turn' = None
  /\ UNCHANGED <<draft, tails, recycled>>

(* A request without reservation has its own context budget                *)
(* (ContextTokenBudget); it too waits for a lane.                          *)
TakeLanePlain(r, ids, budget, drafting) ==
  /\ turn = None /\ busy = None
  /\ r \in Plain /\ seq[r].stage = "idle"
  /\ Fits(ids, budget)
  /\ recycled \cup FreeLanes # {}
  /\ seq' = [seq EXCEPT ![r] = [Opened(ids, budget, drafting) EXCEPT
                                  !.stage = "bound", !.lane = NextLane]]
  /\ recycled' = recycled \ {NextLane}
  /\ turn' = r
  /\ UNCHANGED <<draft, tails, vars>>

CopyBoundary(r) ==
  /\ turn = r
  /\ seq[r].stage = "bound"
  /\ TakeBoundaryCopy(r)
  /\ UNCHANGED own

(* ensure_target_radix_materialized_through, before each pass. *)
Extend(r) ==
  /\ turn = IF seq[r].stage = "bound" THEN r ELSE None
  /\ seq[r].stage \in {"bound", "ready"}
  /\ r \notin Plain /\ boundary[r] = None
  /\ Len(PageTable(r)) < PagesFor(Frontier(r))
  /\ EnsureMaterialized(r, Frontier(r))
  /\ UNCHANGED own

(* A tail is of use when the recomputed suffix is shorter than the window. *)
Near(r) == Len(seq[r].prompt) - Len(matched[r]) < Window

(* prepare_cycle of the first pass: a draft slot, with the tail of the      *)
(* match restored if there is one; the entry becomes the newest.            *)
Prepare(r) ==
  /\ turn = r
  /\ seq[r].stage = "bound"
  /\ Covered(r)
  /\ seq' = [seq EXCEPT ![r].stage = "primed"]
  /\ IF ~seq[r].drafting THEN UNCHANGED <<draft, tails>>
     ELSE /\ Cardinality(SlotsHeld) < Lanes
          /\ IF Near(r) /\ matched[r] \in TailKeys
             THEN LET e == CHOOSE x \in Elems(tails) : x.key = matched[r]
                  IN  /\ draft' = [draft EXCEPT ![r] =
                                     [slot |-> TRUE, context |-> Len(e.key), rows |-> e.rows]]
                      /\ tails' = TailInsert(Without(tails, e.key), e)
             ELSE /\ draft' = [draft EXCEPT ![r].slot = TRUE]
                  /\ UNCHANGED tails
  /\ UNCHANGED <<recycled, turn, vars>>

(* Mutants: the reservation is forgotten; it is dropped, but not its locks. *)
LoseStateOnly(r) == turn' = None /\ UNCHANGED vars

LosePagesOnly(r) ==
  /\ IF r \in Plain THEN UNCHANGED vars
     ELSE Release(r) /\ free' = free \cup Elems(private[r]) /\ UNCHANGED tree
  /\ turn' = None

(* A failed opening or pass that loses the scheduler state: its lane is    *)
(* free, its reservation dropped, but not its draft slot.                  *)
LoseState(r) ==
  /\ IF r \in Plain THEN UNCHANGED vars ELSE Cancel(r)
  /\ turn' = None

(* The draft slots are exhausted: the opened request fails for good. *)
NoDraftSlot(r) ==
  /\ turn = r
  /\ seq[r].stage = "bound"
  /\ Covered(r)
  /\ seq[r].drafting /\ Cardinality(SlotsHeld) = Lanes
  /\ Close(r)
  /\ LoseState(r)
  /\ UNCHANGED <<draft, tails, recycled>>

(* Rows of the prompt that the first pass feeds to the draft model.        *)
FirstRows(r) ==
  LET p == seq[r].prompt
  IN  RowsOf(p, Len(p) - MinOf(Len(p) - Len(matched[r]), Window), Len(p))

(* The absolute position the replay is at: given by the target pass, and    *)
(* taken over by an empty draft cache.                                      *)
FirstStart(r) == Len(seq[r].prompt) - Len(FirstRows(r))

FirstReplayed(r) ==
  IF seq[r].drafting /\ PromptTails
  THEN Replayed(draft[r], FirstStart(r), FirstRows(r)) ELSE draft[r]

(* publish_reusable_prefix: the tail of the prompt without its last token. *)
PromptTail(r) ==
  [key |-> Front(seq[r].prompt), rows |-> Front(FirstReplayed(r).rows)]

TailsAfterFirst(r) ==
  IF /\ seq[r].drafting /\ PromptTails
     /\ Len(seq[r].done) < Len(seq[r].prompt) - 1
     /\ PromptTail(r).rows # <<>>
  THEN TailInsert(tails, PromptTail(r)) ELSE tails

(* After the last pass of its budget a request without reservation gives   *)
(* its scheduler state back at once.                                       *)
Settled(r, s) ==
  IF r \in Plain /\ Len(s.text) - Len(s.prompt) >= s.budget
  THEN [s EXCEPT !.stage = "spent"] ELSE [s EXCEPT !.stage = "ready"]

Give(r, s) == recycled' = IF s.stage = "spent" THEN recycled \cup {s.lane} ELSE recycled

FirstPass(r, t) ==
  LET s == Settled(r, [seq[r] EXCEPT !.text = Append(@, t), !.done = seq[r].prompt])
  IN  /\ turn = r
      /\ seq[r].stage = "primed"
      /\ s.text \in Texts
      /\ seq' = [seq EXCEPT ![r] = s]
      /\ draft' = [draft EXCEPT ![r] = FirstReplayed(r)]
      /\ tails' = TailsAfterFirst(r)
      /\ Give(r, s)
      /\ turn' = None
      /\ UNCHANGED vars

-----------------------------------------------------------------------------
(* Later passes, failures, the end *)

InPass(r) ==
  \/ turn = r /\ seq[r].stage = "primed"
  \/ /\ turn = None /\ seq[r].stage = "ready"
     /\ Generated(r) < seq[r].budget /\ Covered(r)

(* A plan is pending once the draft model has replayed a pass. *)
PlannedDrafts(r) ==
  IF Drafting(r) /\ (PromptTails \/ Generated(r) > 1) THEN MaxDrafts ELSE 0

(* The accepted drafts and one token more; ids is the text with them.      *)
Continues(r, ids) ==
  /\ seq[r].text \sqsubseteq ids
  /\ Len(ids) - Len(seq[r].text)
       \in 1..MinOf(1 + PlannedDrafts(r), seq[r].budget - Generated(r))

(* The draft model replays what the pass processed, unless it is the last. *)
NextReplayed(r, ids) ==
  IF Drafting(r) /\ Generated(r) + (Len(ids) - Len(seq[r].text)) < seq[r].budget
  THEN Replayed(draft[r], draft[r].context, RowsOf(ids, Len(seq[r].done), Len(Front(ids))))
  ELSE draft[r]

NextPass(r, ids) ==
  LET s == Settled(r, [seq[r] EXCEPT !.text = ids, !.done = Front(ids)])
  IN  /\ turn = None /\ seq[r].stage = "ready"
      /\ Covered(r)
      /\ Continues(r, ids)
      /\ seq' = [seq EXCEPT ![r] = s]
      /\ draft' = [draft EXCEPT ![r] = NextReplayed(r, ids)]
      /\ Give(r, s)
      /\ UNCHANGED <<tails, turn, vars>>

(* A pass may fail before the draft replay or behind it: the tail of the   *)
(* prompt cannot be published, the next plan not be made, another request  *)
(* of the batch not be replayed.                                           *)
DraftsLeft(r) ==
  {draft[r]} \cup (IF seq[r].stage = "primed" THEN {FirstReplayed(r)}
                   ELSE {NextReplayed(r, ids) : ids \in {x \in Texts : Continues(r, x)}})

(* The pass fails and the scheduler state is stored without what the pass  *)
(* processed: the draft cache may be ahead of it.                          *)
PassFails(r) ==
  /\ InPass(r)
  /\ seq' = [seq EXCEPT ![r].stage = "failed"]
  /\ \E d \in DraftsLeft(r) : draft' = [draft EXCEPT ![r] = d]
  /\ turn' = None
  /\ UNCHANGED <<tails, recycled, vars>>

(* It fails where the state is dropped, before or after the draft replay.  *)
PassBreaks(r) ==
  /\ InPass(r)
  /\ seq' = [seq EXCEPT ![r].stage = "spent"]
  /\ \E d \in DraftsLeft(r) : draft' = [draft EXCEPT ![r] = d]
  /\ \/ tails' = tails
     \/ /\ seq[r].stage = "primed"
        /\ tails' = TailsAfterFirst(r) /\ draft'[r] = FirstReplayed(r)
  /\ LoseState(r)
  /\ UNCHANGED recycled

(* finish_sequence: the draft rows of a sequence that still has its state. *)
LastTail(r) ==
  [key |-> SubSeq(seq[r].done, 1, draft[r].context), rows |-> draft[r].rows]

(* A tail that ends ahead of what is known to be processed is not kept.    *)
Retains(r) ==
  /\ Resident(r)
  /\ draft[r].rows # <<>> /\ draft[r].context <= Len(seq[r].done)
  /\ Len(draft[r].rows) <= TailRows

(* What finishing publishes: up to the retained tail, the common frontier. *)
PublishedText(r) == IF Retains(r) THEN LastTail(r).key ELSE seq[r].done

(* finish_real_full_sequence; a commit that is refused drops the           *)
(* reservation.                                                            *)
Finish(r, m) ==
  /\ turn = None /\ busy = None
  /\ seq[r].stage \in {"ready", "failed", "spent"}
  /\ Close(r)
  /\ draft' = [draft EXCEPT ![r] = NoSlot]
  /\ tails' = IF Retains(r) THEN TailInsert(tails, LastTail(r)) ELSE tails
  /\ recycled' = IF Resident(r) THEN recycled \cup {seq[r].lane} ELSE recycled
  /\ IF r \notin active THEN UNCHANGED vars
     ELSE IF matched[r] \sqsubseteq PublishedText(r)
     THEN Commit(r, PublishedText(r), m) ELSE Cancel(r)
  /\ UNCHANGED turn

ExecNext ==
  \/ \E r \in Request, ids \in Texts, budget \in Budgets :
       \/ \E drafting \in {FALSE, budget > 1} :
            \/ \E m \in Prefixes(Front(ids)) : Probe(r, ids, budget, drafting, m)
            \/ TakeLanePlain(r, ids, budget, drafting)
       \/ \E m \in Prefixes(Front(ids)) : ProbeRefused(r, ids, budget, m)
  \/ \E r \in Request : \E m \in Prefixes(seq[r].done) :
       Realign(r, m) \/ RealignRefused(r, m)
  \/ \E r \in Request :
       DropMatch(r) \/ TakeLane(r) \/ NoLane(r) \/ CopyBoundary(r) \/ Extend(r)
         \/ Prepare(r) \/ NoDraftSlot(r) \/ PassFails(r) \/ PassBreaks(r)
  \/ \E r \in Request, t \in Token : FirstPass(r, t)
  \/ \E r \in Request, ids \in Texts : NextPass(r, ids)
  \/ \E r \in Request : \E m \in Prefixes(PublishedText(r)) : Finish(r, m)
  \/ \E p \in Page : TakePage(p) /\ UNCHANGED own
  \/ \E n \in DOMAIN tree : EvictOneLeaf(n) /\ UNCHANGED own

ExecSpec == ExecInit /\ [][ExecNext]_execVars

(* The executor's thread goes on with an opening, and with an allocation.  *)
FairExecSpec ==
  /\ ExecSpec
  /\ WF_execVars((turn # None \/ busy # None) /\ ExecNext)

-----------------------------------------------------------------------------
(* Invariants *)

Opening == {"probed", "realign", "reserved", "bound", "primed"}

Sequence == [stage : Stages, prompt : Texts, text : Texts, done : Texts,
             budget : Nat, drafting : BOOLEAN, lane : Lane \cup {Lanes}]

DraftCache == [slot : BOOLEAN, context : Nat, rows : Seq(Texts)]

TailEntry == [key : Texts, rows : Seq(Texts)]

(* Texts stay in the alphabet of the instance, draft rows are prefixes.    *)
ExecTypeOK ==
  /\ seq \in [Request -> Sequence]
  /\ draft \in [Request -> DraftCache]
  /\ tails \in Seq(TailEntry)
  /\ recycled \subseteq Lane
  /\ turn \in Request \cup {None}

(* Dropping a reservation for a shorter one loses nothing: the shortened   *)
(* match is still cached when it is reserved again, so the error for a     *)
(* match of another length is dead code, and until the draft slot is       *)
(* prepared the tail that goes with the match stays in the tail cache.     *)
AlignedMatchIsExact ==
  \A r \in Request :
    /\ seq[r].stage = "realign" /\ busy = None => IsMatch(tree, seq[r].done, seq[r].done)
    /\ PromptTails /\ seq[r].drafting /\ seq[r].stage \in {"reserved", "bound"} =>
         matched[r] \in TailKeys \cup {<<>>}

(* An entry of the tail cache holds the rows of the last tokens of the     *)
(* prefix it is filed under, and none of another text or position.         *)
TailsAreExact ==
  /\ \A e \in Elems(tails) :
       /\ Len(e.rows) \in 1..Len(e.key)
       /\ e.rows = RowsOf(e.key, Len(e.key) - Len(e.rows), Len(e.key))
  /\ \A i, j \in DOMAIN tails : tails[i].key = tails[j].key => i = j
  /\ Bulk(tails, 1) <= TailRows

(* The draft model continues the text the target model is at: a restored   *)
(* tail ends where the recomputed suffix starts (so the check for torn      *)
(* tails never fires), the rows are those of the last tokens, and after a   *)
(* replay they fill the attention window as far as the text does.  It is    *)
(* ahead only after a pass that failed behind its replay; else the tail a   *)
(* finish keeps, after a failure too, is one of the text.                  *)
DraftMeetsTarget ==
  \A r \in Request : LET d == draft[r] IN
    seq[r].stage \in {"primed", "ready", "failed"} /\ d.rows # <<>> =>
      /\ d.context <= Len(seq[r].done) \/ seq[r].stage = "failed"
      /\ d.context <= Len(seq[r].done) =>
           /\ Len(d.rows) <= d.context
           /\ d.rows = RowsOf(seq[r].text, d.context - Len(d.rows), d.context)
      /\ seq[r].stage = "primed" => d.context = Len(matched[r])
      /\ seq[r].stage = "ready" /\ Drafting(r) =>
           d.context = Len(seq[r].done) /\ Len(d.rows) >= MinOf(Window, d.context)

(* Whenever a sequence may be finished, its pages can be published: up to   *)
(* a frontier not below the prefix it was given, not past its capacity, in  *)
(* pages it has.                                                           *)
PublishNeverFails ==
  \A r \in active : seq[r].stage \in {"ready", "failed"} /\ busy = None =>
    /\ matched[r] \sqsubseteq PublishedText(r)
    /\ PublishedText(r) \sqsubseteq seq[r].text
    /\ Len(seq[r].done) <= capacity[r]
    /\ PagesFor(Len(seq[r].done)) <= Len(PageTable(r))

(* What is published ends at most the tokens of one pass before what was    *)
(* processed ("a handful of tokens behind the final target pass").          *)
PublishedFrontierIsNear ==
  \A r \in active : seq[r].stage \in {"ready", "failed"} =>
    Len(seq[r].done) - Len(PublishedText(r)) <= MaxDrafts + 1

(* No two states share a lane.  A request with a reservation lacks a lane   *)
(* only when a plain request has one, and a draft slot only when a request  *)
(* that lost its state has not been finished yet.                          *)
ShortageHasACause ==
  /\ Occupied \cap recycled = {}
  /\ \A q, r \in Request : Resident(q) /\ Resident(r) /\ q # r => seq[q].lane # seq[r].lane
  /\ \A r \in active : seq[r].stage \in {"probed", "reserved"} =>
       recycled \cup FreeLanes # {} \/ \E q \in Plain : Resident(q)
  /\ \A r \in Request : seq[r].stage = "bound" =>
       Cardinality(SlotsHeld) < Lanes \/ \E q \in SlotsHeld : seq[q].stage = "spent"

(* A request that is not open holds no reservation, no draft slot and not   *)
(* the turn, whatever failed.                                              *)
NothingOutlivesItsRequest ==
  \A r \in Request :
    /\ r \in active <=> r \notin Plain /\ seq[r].stage \notin {"idle", "realign", "spent"}
    /\ draft[r].slot => seq[r].stage \in {"primed", "ready", "failed", "spent"}
    /\ turn = r <=> seq[r].stage \in Opening

(* Every step of the executor is a step of the prefix cache or leaves it    *)
(* alone: the executor calls it only as its contract allows.               *)
UsesRadix == Spec

(* An opening comes to an end, and so does every allocation: no order of    *)
(* failures, refusals and shortages leaves the thread in one.  Allocation   *)
(* ends though an evicted leaf may own no page: one that was split off      *)
(* inside its last page leaves that page to its parent.                     *)
OpeningsEnd == turn # None \/ busy # None ~> turn = None /\ busy = None

=============================================================================
