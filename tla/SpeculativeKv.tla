---------------------------- MODULE SpeculativeKv ----------------------------
(***************************************************************************)
(* The decode cycles of one sequence, with drafts: what the target layers   *)
(* and the MTP layer (layer 78) write, what is committed of it and what is  *)
(* taken back (entry.rs 3526-4770, scheduler/execution.rs, kv/device.rs).   *)
(*                                                                         *)
(* Position p of the target stands for token p, position p of the MTP layer *)
(* for token p + 1 (its input is shifted).  A token is not represented by   *)
(* its value but by whether it is the one the target samples at its place:  *)
(* drafts are [count, matching], "matching" of them being leading ones that *)
(* the target will sample too.  rows[l] are the device rows of layer l that *)
(* were computed from the sequence's own tokens and from attention over all *)
(* earlier positions; all target layers are written alike, one stands for   *)
(* all.                                                                     *)
(***************************************************************************)
EXTENDS KvLedger, MtpDraftWidth, Functions

CONSTANTS
  MinPrompt, MaxPrompt,  (* bounds on the prompts                           *)
  MaxBudget,             (* bound on decode_budget                          *)
  MaxContext,            (* kv_config.max_tokens                            *)
  Headroom,              (* REAL_FULL_SEQUENCE_EXTENSION_HEADROOM_TOKENS    *)
  ChunkTokens,           (* prefill chunk                                   *)
  FrontierTokens,        (* attention_ready_frontier_capacity_tokens        *)
  None

(* Drafts of a fixed width may exceed the budget by all but two; the        *)
(* headroom covers that unless the prompt is shorter than any chat template *)
(* makes it.                                                                *)
ASSUME SpeculativeAssumption ==
  /\ {MinPrompt, MaxPrompt, MaxBudget, MaxContext, Headroom, ChunkTokens, FrontierTokens}
       \subseteq Nat \ {0}
  /\ MinPrompt <= MaxPrompt
  /\ MaxDrafts <= Min({MinPrompt, Headroom}) + 2

VARIABLES
  policy,     (* how the process is configured                              *)
  request,    (* prompt, cached prompt tokens, decode budget                *)
  pc,         (* where in the cycle, or how the sequence ended              *)
  cycle,      (* what the cycle under way has fixed so far                  *)
  generated,  (* tokens emitted                                             *)
  processed,  (* Len(processed_token_ids)                                   *)
  pending,    (* pending_mtp_draft_token_ids                                *)
  width,      (* mtp_adaptive_draft                                         *)
  kv,         (* the ledger of each layer                                   *)
  rows,       (* device rows that hold what they should                     *)
  frontier    (* mla_attention_ready_frontiers                              *)

vars == <<policy, request, pc, cycle, generated, processed, pending, width, kv, rows, frontier>>

Layer == {"target", "mtp"}

(* native: MTP drafts, else dSpark's.  fixed: the draft width, 0 when it    *)
(* adapts.  bonus: a full match also yields the token after it.  m2: a      *)
(* single draft runs as two rows, otherwise a copy of it pads it to three.  *)
Policies ==
  {p \in [native : BOOLEAN, fixed : 0 .. MaxDrafts, bonus : BOOLEAN, m2 : BOOLEAN] :
     ~p.native => p.fixed = 0 /\ p.bonus /\ p.m2}

NoDrafts == [count |-> 0, matching |-> 0]

Proposals(most) == {d \in [count : 0 .. most, matching : 0 .. most] : d.matching <= d.count}

NoCycle == [drafts |-> NoDrafts, padding |-> 0, at |-> 0, accepted |-> 0, emitted |-> 0,
            from |-> 0, draft |-> 0]

(* real_full_sequence_capacity_tokens.                                      *)
Capacity == Min({request.prompt + request.budget + Min({request.prompt, Headroom}), MaxContext})

(* real_full_request_token_rows: the first row of the cycle, and the        *)
(* position of its decode row.                                              *)
Prefix == IF generated = 0 THEN request.cached ELSE request.prompt + generated - 1
DecodeAt == request.prompt + generated - 1

-----------------------------------------------------------------------------
(* Frontiers: a copy, ready for attention, of a run of the latest rows.     *)

FrontierEnd(f) == f.start + f.rows

Extended(f, start, n) ==
  IF f # None /\ FrontierEnd(f) = start
  THEN [f EXCEPT !.rows = @ + n] ELSE [start |-> start, rows |-> n]

FrontierAppend(f, start, n) ==
  IF n = 0 THEN f
  ELSE IF Extended(f, start, n).rows > FrontierTokens THEN None
  ELSE Extended(f, start, n)

(* One wave after the other, a row each.                                    *)
AppendEach(f, start, n) ==
  LET upTo[i \in 0 .. n] == IF i = 0 THEN f ELSE FrontierAppend(upTo[i - 1], start + i - 1, 1)
  IN  upTo[n]

Shortened(f, end) ==
  IF f = None \/ end <= f.start THEN None
  ELSE [f EXCEPT !.rows = Min({@, end - f.start})]

(* A bug: a rejected draft does not shorten the frontier.                   *)
TrimNever(f, start, drafts, accepted) == f

(* resolve_mtp_tentative_frontiers, for one layer.                          *)
Trim(f, start, drafts, accepted) ==
  IF accepted < drafts /\ f # None /\ FrontierEnd(f) > start /\ f.start < start + drafts
  THEN Shortened(f, start + accepted) ELSE f

-----------------------------------------------------------------------------
(* Writing n rows from start on, those up to lastGood being of the          *)
(* sequence's own tokens: they are right if attention, which reads what is  *)
(* covered below start, finds every earlier row there and right.            *)
Computed(l, ledger, start, n, lastGood) ==
  LET written == start .. start + n - 1
      whole   == 0 .. start - 1 \subseteq ledger.covered \intersect rows[l]
  IN  (rows[l] \ written) \union (IF whole THEN start .. Min({start + n - 1, lastGood}) ELSE {})

Init ==
  /\ policy \in Policies
  /\ request \in [prompt : MinPrompt .. MaxPrompt, cached : 0 .. MaxPrompt - 1,
                  budget : 1 .. MaxBudget]
  /\ request.cached < request.prompt
  /\ policy.native => request.cached = 0
  /\ request.prompt + request.budget <= MaxContext
  /\ pc = "idle" /\ cycle = NoCycle
  /\ generated = 0
  /\ pending = NoDrafts
  /\ width = FreshWidth
  \* seed_processed_token_ids, over the pages the prefix cache lends.
  /\ processed = request.cached
  /\ kv = [l \in Layer |-> IF l = "target" /\ request.cached > 0
                           THEN RecordBlock(EmptyLedger, 0, request.cached) ELSE EmptyLedger]
  /\ rows = [l \in Layer |-> IF l = "target" THEN 0 .. request.cached - 1 ELSE {}]
  /\ frontier = [l \in Layer |-> None]

(* real_full_mtp_requested_draft_tokens.                                    *)
AskWidth(a) == IF policy.fixed > 0 THEN a ELSE Asked(a)
WidthAnswer(a) == IF policy.fixed > 0 THEN policy.fixed ELSE Answer(a)

(* A bug: nothing keeps drafts of a fixed width inside the context.         *)
PastContext(emitted, drafts) ==
  IF request.budget - (generated + emitted) - 1 > 0 THEN drafts ELSE 0

(* real_full_mtp_draft_tokens_for_cycle_with_policy.                        *)
DraftLimit(emitted, drafts) ==
  LET budgeted == Min({drafts, Max({0, request.budget - (generated + emitted) - 1})})
  IN  IF budgeted = 0 \/ ~policy.bonus THEN budgeted
      ELSE IF request.prompt + generated + emitted + drafts <= MaxContext THEN drafts ELSE 0

(* real_full_mtp_physical_padding_rows.                                     *)
Padding(count) == IF policy.native /\ count = 1 /\ ~policy.m2 THEN 1 ELSE 0

(* dSpark proposes, cut to what is useful; native MTP takes what it drafted *)
(* in the cycle before.                                                     *)
Offered == IF policy.native THEN {pending}
           ELSE Proposals(Min({MaxDrafts, request.budget - generated - 1}))

(* The cycle is planned, and its shape is checked against the capacity.     *)
StartCycle ==
  /\ pc = "idle"
  /\ \E d \in Offered :
       LET scalar == policy.native /\ d.count = 0
           asked  == IF scalar THEN AskWidth(width) ELSE width
           span   == DecodeAt + 1 + d.count + Padding(d.count)
       IN  /\ width' = asked
           /\ cycle' = [NoCycle EXCEPT
                          !.drafts = d, !.padding = Padding(d.count), !.at = Prefix,
                          !.draft = IF scalar THEN DraftLimit(1, WidthAnswer(asked)) ELSE 0]
           /\ pc' = IF span <= Capacity THEN "prefill" ELSE "failed"
  /\ pending' = NoDrafts
  /\ UNCHANGED <<policy, request, generated, processed, kv, rows, frontier>>

(* LayerWave::prefill: the next chunk of prompt rows.                       *)
PrefillChunk ==
  /\ pc = "prefill" /\ cycle.at < DecodeAt
  /\ LET n == Min({ChunkTokens, DecodeAt - cycle.at})
     IN  /\ rows' = [rows EXCEPT !["target"] =
                       Computed("target", kv["target"], cycle.at, n, DecodeAt)]
         /\ kv' = [kv EXCEPT !["target"] = RecordBlock(@, cycle.at, n)]
         /\ frontier' = [frontier EXCEPT !["target"] = FrontierAppend(@, cycle.at, n)]
         /\ cycle' = [cycle EXCEPT !.at = @ + n]
  /\ UNCHANGED <<policy, request, pc, generated, processed, pending, width>>

(* LayerWave::decode and mtp_verify, in one iteration: the decode row is    *)
(* written, the drafts and the padding row after it are tentative.          *)
RunTarget ==
  /\ pc = "prefill" /\ cycle.at = DecodeAt
  /\ LET n == cycle.drafts.count + cycle.padding
         decoded == RecordBlock(kv["target"], DecodeAt, 1)
     IN  /\ rows' = [rows EXCEPT !["target"] =
                       Computed("target", kv["target"], DecodeAt, 1 + n,
                                DecodeAt + cycle.drafts.matching)]
         /\ kv' = [kv EXCEPT !["target"] = RecordTentative(decoded, DecodeAt + 1, n)]
         /\ frontier' = [frontier EXCEPT !["target"] =
                           FrontierAppend(FrontierAppend(@, DecodeAt, 1), DecodeAt + 1, n)]
  /\ pc' = "accept"
  /\ UNCHANGED <<policy, request, cycle, generated, processed, pending, width>>

(* A cycle without drafts emits the token its decode row samples.           *)
AcceptScalar ==
  /\ pc = "accept" /\ cycle.drafts.count = 0
  /\ cycle' = [cycle EXCEPT !.emitted = 1, !.from = Prefix]
  /\ pc' = IF cycle.draft > 0 THEN "draft" ELSE "record"
  /\ UNCHANGED <<policy, request, generated, processed, pending, width, kv, rows, frontier>>

(* real_full_mtp_acceptance.                                                *)
FullMatch(d) ==
  /\ policy.bonus
  /\ d.matching = d.count
  /\ d.count + 1 <= request.budget - generated

Accepted(d) ==
  IF FullMatch(d) THEN d.count
  ELSE Min({d.matching, d.count - 1, request.budget - generated - 1})

(* resolve_mtp_tentative_writes on every target layer, then, for native     *)
(* MTP, rewind_mtp_draft_layer to the last row whose input the target has   *)
(* confirmed, observe_mtp_draft_acceptance and the next width.              *)
AcceptDrafts ==
  /\ pc = "accept" /\ cycle.drafts.count > 0
  /\ LET d        == cycle.drafts
         accepted == Accepted(d)
         emitted  == accepted + 1
         boundary == DecodeAt + IF FullMatch(d) THEN accepted - 1 ELSE accepted
         drafts   == d.count + cycle.padding
         first    == DecodeAt + 1
         resolved == Resolve(kv["target"], first, drafts, accepted)
         trimmed  == [l \in Layer |-> Trim(frontier[l], first, drafts, accepted)]
         seen     == [proposed |-> d.count, accepted |-> accepted]
         judged   == IF policy.fixed > 0 THEN width ELSE Observed(width, seen, policy.m2)
         next     == DraftLimit(emitted, WidthAnswer(AskWidth(judged)))
     IN  IF policy.native
         THEN /\ kv' = [target |-> resolved, mtp |-> DiscardFrom(kv["mtp"], boundary)]
              /\ frontier' = [trimmed EXCEPT !["mtp"] = Shortened(@, boundary)]
              /\ width' = AskWidth(judged)
              /\ cycle' = [cycle EXCEPT !.accepted = accepted, !.emitted = emitted,
                                        !.from = boundary, !.draft = next]
              /\ pc' = IF next > 0 THEN "draft" ELSE "record"
         ELSE /\ kv' = [kv EXCEPT !["target"] = resolved]
              /\ frontier' = trimmed
              /\ cycle' = [cycle EXCEPT !.accepted = accepted, !.emitted = emitted]
              /\ pc' = "record"
              /\ UNCHANGED width
  /\ UNCHANGED <<policy, request, generated, processed, pending, rows>>

(* A bug: the chain starts at the new decode row.                           *)
SkippingBridge == DecodeAt + cycle.emitted

ChainStart == cycle.from

(* execute_mtp_chain, execute_mtp_bridge_chain: rows of the MTP layer from  *)
(* "from" up to the one whose input is the last token emitted, then one row *)
(* for each draft but the last.                                             *)
Draft ==
  /\ pc = "draft"
  /\ \E d \in Proposals(cycle.draft) :
       LET from  == ChainStart
           last  == DecodeAt + cycle.emitted - 1
           known == RecordBlock(kv["mtp"], from, last - from)
           base  == IF from < last THEN known ELSE kv["mtp"]
       IN  /\ d.count = cycle.draft
           /\ rows' = [rows EXCEPT !["mtp"] =
                         Computed("mtp", kv["mtp"], from, last - from + d.count,
                                  last + d.matching)]
           /\ kv' = [kv EXCEPT !["mtp"] = RecordRows(base, last, d.count)]
           /\ frontier' = [frontier EXCEPT !["mtp"] =
                             AppendEach(FrontierAppend(@, from, last - from), last, d.count)]
           /\ pending' = d
           /\ pc' = IF last + d.count <= Capacity THEN "record" ELSE "failed"
  /\ UNCHANGED <<policy, request, cycle, generated, processed, width>>

(* A bug: the accepted drafts are not among the processed tokens.           *)
WithoutDrafts == DecodeAt + 1

Processed == DecodeAt + 1 + cycle.accepted

(* record_processed_token_ids, and the tokens of the cycle reach the text.  *)
Record ==
  /\ pc = "record"
  /\ processed' = Processed
  /\ generated' = generated + cycle.emitted
  /\ pc' = IF processed # Prefix \/ processed' > Capacity THEN "failed"
           ELSE IF generated' >= request.budget THEN "done" ELSE "idle"
  /\ cycle' = NoCycle
  /\ UNCHANGED <<policy, request, pending, width, kv, rows, frontier>>

Next == StartCycle \/ PrefillChunk \/ RunTarget \/ AcceptScalar \/ AcceptDrafts \/ Draft \/ Record

Spec == Init /\ [][Next]_vars
-----------------------------------------------------------------------------
(* Types.  Checked to find slips in this model.                             *)
TypeOK ==
  /\ policy \in Policies
  /\ pc \in {"idle", "prefill", "accept", "draft", "record", "done", "failed"}
  /\ generated \in Nat /\ processed \in Nat
  /\ pending \in Proposals(MaxDrafts)
  /\ cycle.drafts \in Proposals(MaxDrafts) /\ cycle.padding \in {0, 1}
  /\ {cycle.at, cycle.accepted, cycle.emitted, cycle.from, cycle.draft} \subseteq Nat
  /\ WidthOK(width)
  /\ kv \in [Layer -> Ledger]
  /\ rows \in [Layer -> SUBSET Nat]
  /\ \A l \in Layer : frontier[l] # None => /\ frontier[l].start \in Nat
                                            /\ frontier[l].rows \in 1 .. FrontierTokens

(* At every step, in every layer, the three indexes of the ledger say what  *)
(* its records say, through commits, rejections and rewinds that cut into   *)
(* what earlier cycles wrote.                                               *)
LedgersAgree == \A l \in Layer : IndexesAgree(kv[l])

(* Between cycles the processed tokens, which are what the sequence would   *)
(* publish to the prefix cache, are exactly the positions of the target     *)
(* that attention reads, each computed from the sequence's own tokens, and  *)
(* no write is left open: "keep the radix/snapshot token frontier in        *)
(* lockstep with committed KV" (entry.rs:4245).                             *)
ProcessedIsCommitted ==
  pc \in {"idle", "done"} =>
    /\ kv["target"].covered = 0 .. processed - 1
    /\ kv["target"].covered \subseteq rows["target"]
    /\ kv["target"].tentative = <<>>

(* What attention of the target layers can read is at no point, inside a    *)
(* cycle either, a row of a draft that the target did not confirm.          *)
OnlyOwnRowsVisible == kv["target"].covered \subseteq rows["target"]

(* The request never asks for a position beyond its capacity                *)
(* (validate_shape, execution.rs:622), however far fixed-width drafts and   *)
(* padding reach past its budget, and the token frontiers of its cycles     *)
(* meet (record_processed_token_ids, execution.rs:729).                     *)
NeverRefused == pc # "failed"

(* With a fixed width every chain of drafts starts after a gapless prefix   *)
(* of MTP rows, all from the sequence's own tokens.                         *)
DraftsSeeWholePrefix ==
  pc = "draft" /\ policy.fixed > 0 =>
    0 .. cycle.from - 1 \subseteq kv["mtp"].covered \intersect rows["mtp"]

(* After every resolution a frontier ends where the visible rows end and    *)
(* holds nothing but visible rows: what is appended next is their           *)
(* continuation.                                                            *)
FrontiersFollowLedger ==
  /\ TypeOK
  /\ pc \in {"draft", "record", "idle", "done"} /\ frontier["target"] # None =>
       LET f == frontier["target"]
       IN  /\ FrontierEnd(f) = Max(kv["target"].covered) + 1
           /\ f.start .. FrontierEnd(f) - 1 \subseteq kv["target"].covered
  /\ pc = "draft" /\ frontier["mtp"] # None =>
       LET f == frontier["mtp"]
       IN  /\ FrontierEnd(f) = Max(kv["mtp"].covered) + 1
           /\ f.start .. FrontierEnd(f) - 1 \subseteq kv["mtp"].covered
=============================================================================
