-------------------------- MODULE ContextTokenBudget --------------------------
(***************************************************************************)
(* The global context budget (entry.rs, RealFullContextTokenBudget): a list *)
(* of free extents of token slots, first fit, with adjacent extents merged  *)
(* on release.  Every operation runs under the budget's mutex; a release is *)
(* the drop of a reservation, in any order.                                 *)
(***************************************************************************)
EXTENDS Queues, SequencesExt, FiniteSetsExt

CONSTANTS
  Request,     (* who reserves                                              *)
  None,
  MaxTokens,   (* max_tokens                                                *)
  PageTokens,  (* REAL_FULL_SHARED_KV_PAGE_TOKENS                           *)
  MaxActive    (* REAL_FULL_MAX_ACTIVE_REQUESTS                             *)

(* The pool is a whole number of pages (entry.rs:6871).                     *)
ASSUME BudgetAssumption ==
  /\ {MaxTokens, PageTokens, MaxActive} \subseteq Nat \ {0}
  /\ \E k \in 1..MaxTokens : MaxTokens = k * PageTokens
  /\ None \notin Request /\ None \notin [base : Nat, tokens : Nat]

VARIABLES
  free,    (* free_extents                                                  *)
  used,    (* used_tokens                                                   *)
  active,  (* active_reservations                                           *)
  held     (* the extent of each live reservation, or None                  *)

vars == <<free, used, active, held>>

End(e) == e.base + e.tokens

Live == {r \in Request : held[r] # None}

Init ==
  /\ free = <<[base |-> 0, tokens |-> MaxTokens]>>
  /\ used = 0 /\ active = 0
  /\ held = [r \in Request |-> None]

(* Whole pages for n tokens.                                                *)
Rounded(n) == ((n + PageTokens - 1) \div PageTokens) * PageTokens

(* A bug: the last extent that fits.                                        *)
LastFit(n) == Max({i \in DOMAIN free : free[i].tokens >= n})

Fitting(n) == {i \in DOMAIN free : free[i].tokens >= n}

FirstFit(n) == Min(Fitting(n))

(* A bug: the extent is cut at the end that is kept.                        *)
CutAtEnd(i, n) == [free EXCEPT ![i].tokens = @ - n]

(* What is left of the list when n tokens are cut from the head of extent i. *)
Cut(i, n) ==
  IF free[i].tokens = n
  THEN RemoveAt(free, i)
  ELSE [free EXCEPT ![i] = [base |-> @.base + n, tokens |-> @.tokens - n]]

Reserve(r, n) ==
  /\ held[r] = None
  /\ active < MaxActive
  /\ Fitting(Rounded(n)) # {}
  /\ LET m == Rounded(n)
         i == FirstFit(m)
     IN  /\ held' = [held EXCEPT ![r] = [base |-> free[i].base, tokens |-> m]]
         /\ free' = Cut(i, m)
         /\ used' = used + m
  /\ active' = active + 1

(* The merging pass over a list, from position `from` on: an extent begins a  *)
(* new one unless it starts where the extent before it ends.                *)
Heads(list, from) ==
  {i \in DOMAIN list : i <= from \/ End(list[i - 1]) # list[i].base}

Joined(list, from) ==
  LET head    == Ascending(Heads(list, from))
      last(k) == IF k < Len(head) THEN head[k + 1] - 1 ELSE Len(list)
  IN  [k \in DOMAIN head |->
         [base   |-> list[head[k]].base,
          tokens |-> End(list[last(k)]) - list[head[k]].base]]

(* A bug: the pass starts at the new extent, not at the one before it.       *)
MergedFromNew(list, at) == Joined(list, at)

(* The list after an extent was put at position at: merged from its left     *)
(* neighbour on.                                                            *)
Merged(list, at) == Joined(list, Max({at - 1, 1}))

Before(e) == Cardinality({i \in DOMAIN free : free[i].base < e.base})

Release(r) ==
  /\ held[r] # None
  /\ LET at == Before(held[r]) + 1
     IN  free' = Merged(InsertAt(free, at, held[r]), at)
  /\ used' = used - held[r].tokens
  /\ active' = active - 1
  /\ held' = [held EXCEPT ![r] = None]

Next ==
  \E r \in Request : (\E n \in 1..MaxTokens : Reserve(r, n)) \/ Release(r)

Spec == Init /\ [][Next]_vars

-----------------------------------------------------------------------------
(* Properties *)

Extent == [base : 0..MaxTokens, tokens : 1..MaxTokens]

Whole(n) == \E k \in 0..MaxTokens : n = k * PageTokens

Slot == 0..(MaxTokens - 1)

Covers(e, t) == e.base <= t /\ t < End(e)

(* An extent of whole pages inside the pool.                                *)
Proper(e) == e \in Extent /\ End(e) <= MaxTokens /\ Whole(e.base) /\ Whole(e.tokens)

(* Extents are page aligned and inside the pool, and the counters agree      *)
(* with the live reservations.                                              *)
TypeOK ==
  /\ free \in Seq(Extent) /\ \A i \in DOMAIN free : Proper(free[i])
  /\ DOMAIN held = Request /\ \A r \in Live : Proper(held[r])
  /\ used = Cardinality({t \in Slot : \E r \in Live : Covers(held[r], t)})
  /\ active = Cardinality(Live) /\ active <= MaxActive

(* Every slot is in exactly one extent: one of the free list or one that a  *)
(* live reservation holds.                                                  *)
SlotsPartitioned ==
  \A t \in Slot :
    Cardinality({i \in DOMAIN free : Covers(free[i], t)})
      + Cardinality({r \in Live : Covers(held[r], t)}) = 1

(* The free list stays sorted, and no two of its extents touch, whatever the *)
(* order in which reservations of whole pages come back.                     *)
FreeListIsMerged ==
  /\ TypeOK
  /\ \A i \in 1..(Len(free) - 1) : End(free[i]) < free[i + 1].base

(* Who holds a slot.                                                        *)
Owner(t) ==
  IF \E r \in Live : Covers(held[r], t)
  THEN CHOOSE r \in Live : Covers(held[r], t)
  ELSE None

(* The extents implement first fit on a bitmap of slots.                    *)
Bitmap == INSTANCE TokenBitmap WITH
  Sizes <- {Rounded(n) : n \in 1..MaxTokens},
  owner <- [t \in Slot |-> Owner(t)]

ImplementsBitmap == Bitmap!Spec
=============================================================================
