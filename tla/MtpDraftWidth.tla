----------------------------- MODULE MtpDraftWidth -----------------------------
(***************************************************************************)
(* How many tokens native MTP drafts next (scheduler/execution.rs,          *)
(* RealFullMtpAdaptiveDraftState): wider while drafts are accepted,         *)
(* narrower while they are not, and no drafts at all ("scalar") once a      *)
(* verification cycle costs more than it gains.  A scalar sequence sends a  *)
(* probe of the least width after a number of cycles.                       *)
(***************************************************************************)
EXTENDS Integers, Sequences, FiniteSets, FiniteSetsExt

CONSTANTS
  MinDrafts, MaxDrafts,   (* the draft policy                               *)
  ProbeInterval,          (* REAL_FULL_MTP_SCALAR_PROBE_INITIAL_INTERVAL    *)
  ProbeMaxInterval,       (* REAL_FULL_MTP_SCALAR_PROBE_MAX_INTERVAL        *)
  ProbeSuccesses          (* REAL_FULL_MTP_SCALAR_PROBE_SUCCESSES_REQUIRED  *)

ASSUME WidthAssumption ==
  /\ {MinDrafts, MaxDrafts, ProbeInterval, ProbeMaxInterval, ProbeSuccesses} \subseteq Nat \ {0}
  /\ MinDrafts <= MaxDrafts /\ MaxDrafts <= 7
  /\ ProbeInterval <= ProbeMaxInterval

(* real_full_mtp_draft_policy_from_values.                                  *)
StartDrafts == MinDrafts + (3 * (MaxDrafts - MinDrafts) + 3) \div 4

(* Costs in milliseconds: of a token without drafts, of a verification of n *)
(* drafts, and of one draft when it really runs as two rows.                *)
ScalarCost == 50
VerifyCost == <<105, 115, 129, 140, 147, 157, 165>>
PhysicalM2Cost == 90

Pays(o, m2) ==
  (o.accepted + 1) * ScalarCost >= IF m2 /\ o.proposed = 1 THEN PhysicalM2Cost
                                                           ELSE VerifyCost[o.proposed]

Poor(o)      == 2 * (o.accepted + 1) <= o.proposed
Saturated(o) == o.accepted + 1 >= o.proposed

(* After reset.  Only the last three observations are ever read.            *)
FreshWidth == [current |-> StartDrafts, history |-> <<>>, decisions |-> 0, probing |-> FALSE,
               successes |-> 0, interval |-> ProbeInterval, misses |-> 0]

(* width: what to draft, and what asking changes.                           *)
Asked(a) ==
  IF a.current > 0 \/ a.probing THEN a
  ELSE IF a.decisions + 1 >= a.interval THEN [a EXCEPT !.decisions = 0, !.probing = TRUE]
  ELSE [a EXCEPT !.decisions = @ + 1]

Answer(a) == IF a.current > 0 THEN a.current ELSE IF a.probing THEN MinDrafts ELSE 0

(* The latest observations made at the current width.                       *)
AtCurrent(h, current) == {i \in DOMAIN h : \A j \in i .. Len(h) : h[j].proposed = current}

Adjusted(a, h, o, m2) ==
  LET recent   == AtCurrent(h, a.current)
      lastTwo  == {i \in recent : i > Len(h) - 2}
      narrower == Max({a.current - 1, MinDrafts})
  IN  IF o.accepted = 0
      THEN IF m2 /\ a.current = 1 /\ a.misses = 0 THEN 1
           ELSE IF a.current <= MinDrafts + 1 THEN 0 ELSE narrower
      ELSE IF Cardinality(lastTwo) = 2 /\ \A i \in lastTwo : Poor(h[i]) THEN narrower
      ELSE IF Cardinality(recent) = 3 /\ \A i \in recent : Saturated(h[i])
           THEN Min({a.current + 1, MaxDrafts})
      ELSE a.current

(* Drafting is given up, whatever the reason.                               *)
Scalar(a) == [a EXCEPT !.current = 0, !.decisions = 0, !.probing = FALSE, !.misses = 0]

Resumed(a, width) == [a EXCEPT !.current = width, !.successes = 0, !.probing = FALSE]

Backoff(interval) == Min({2 * interval, ProbeMaxInterval})

(* The answer to a probe.                                                   *)
Probed(a, o, m2) ==
  LET full == o.accepted = o.proposed
  IN  IF full /\ Pays(o, m2) THEN [Resumed(a, MinDrafts) EXCEPT !.interval = ProbeInterval]
      ELSE IF full /\ MinDrafts = 1 /\ ~m2
      THEN IF a.successes + 1 >= ProbeSuccesses
           THEN Resumed(a, Min({MinDrafts + 1, MaxDrafts}))
           ELSE Scalar([a EXCEPT !.successes = @ + 1])
      ELSE Scalar([a EXCEPT !.successes = 0, !.interval = Backoff(@)])

(* Any other verification.                                                  *)
Judged(a, h, o, m2) ==
  LET misses == IF Pays(o, m2) THEN 0 ELSE a.misses + 1
      next   == IF misses < 2 THEN Adjusted(a, h, o, m2)
                ELSE IF m2 /\ o.proposed > 1 /\ o.accepted > 0 THEN 1 ELSE 0
      b      == IF o.accepted = 0 /\ Adjusted(a, h, o, m2) = 0
                THEN [a EXCEPT !.decisions = 0, !.successes = 0] ELSE a
  IN  IF next = 0 THEN Scalar(b) ELSE [b EXCEPT !.current = next, !.misses = misses]

(* observe, under the adaptive policy: o is [proposed, accepted].           *)
Observed(a, o, m2) ==
  LET probe == a.current = 0 /\ a.probing /\ o.proposed = MinDrafts
      all   == Append(a.history, o)
      h     == SubSeq(all, Max({1, Len(all) - 2}), Len(all))
      b     == [a EXCEPT !.history = h]
  IN  IF o.proposed # a.current /\ ~probe THEN a
      ELSE IF probe THEN Probed(b, o, m2) ELSE Judged(b, h, o, m2)

(* A width may lie below MinDrafts: where two rows cost little more than    *)
(* one, a wide verification falls back to a single draft, and grows again   *)
(* one by one.                                                              *)
WidthOK(a) ==
  /\ a.current \in 0 .. MaxDrafts
  /\ a.probing \in BOOLEAN /\ a.misses \in 0 .. 2
  /\ a.decisions \in 0 .. a.interval - 1 /\ a.interval \in ProbeInterval .. ProbeMaxInterval
  /\ a.successes \in 0 .. ProbeSuccesses - 1
=============================================================================
