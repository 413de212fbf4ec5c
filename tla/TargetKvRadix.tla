---------------------------- MODULE TargetKvRadix ----------------------------
(***************************************************************************)
(* The prefix cache of the target model's KV pages                         *)
(* (glmrt-daemon, commands/real_full/prefix_cache.rs).                     *)
(*                                                                         *)
(* Finished sequences leave their KV pages in a radix tree keyed by token  *)
(* ids.  A new request reserves the longest cached prefix of its prompt    *)
(* (its path is locked against eviction), is promised enough pages for its *)
(* whole capacity, materialises private pages lazily, and finally either   *)
(* publishes its pages as a new node or gives them back.                   *)
(*                                                                         *)
(* A node is named here by the prefix it stands for: a NodeId keeps its    *)
(* prefix for its whole life, because a split gives the new id to the      *)
(* shorter prefix.  The tree's edges are then the prefix order on live     *)
(* nodes, which module TargetKvTree, with ids and parent pointers, is      *)
(* checked to implement.  Which leaf is evicted and which free page is     *)
(* taken is left open.                                                     *)
(*                                                                         *)
(* Every method runs under one mutex.  The loops that allocate pages are   *)
(* unrolled into a step per page, during which the mutex is held by `busy'.*)
(***************************************************************************)
EXTENDS Integers, Sequences, FiniteSets

CONSTANTS
  Token,       (* token ids                                                *)
  Texts,       (* the token sequences requests may present or commit       *)
  Page,        (* physical page ids of the pool                            *)
  Request,     (* handles of reservations                                  *)
  None,        (* no request, no page                                      *)
  PageTokens,  (* TARGET_KV_PAGE_TOKENS                                    *)
  MaxActive    (* max_active_requests                                      *)

ASSUME RadixAssumption ==
  /\ Texts \subseteq Seq(Token)
  /\ IsFiniteSet(Page) /\ None \notin Page
  /\ IsFiniteSet(Request) /\ None \notin Request
  /\ PageTokens \in Nat \ {0}
  /\ MaxActive \in Nat \ {0}

VARIABLES
  tree,      (* live nodes: prefix -> page table, owned pages, lock count  *)
  free,      (* free_pages                                                 *)
  reserved,  (* reserved_private_pages                                     *)
  active,    (* the reservations in use                                    *)
  matched,   (* per request: the prefix of matched_terminal                *)
  capacity,  (* per request: logical_capacity_tokens                       *)
  credit,    (* per request: private_credit_pages                          *)
  shared,    (* per request: page_table entries taken over from the tree   *)
  private,   (* per request: private_pages; the table is shared \o private *)
  boundary,  (* per request: source page of a pending boundary copy        *)
  busy,      (* the request holding the mutex in an allocation loop        *)
  goal       (* the page-table length that loop is to reach                *)

vars == <<tree, free, reserved, active, matched, capacity, credit, shared,
          private, boundary, busy, goal>>

-----------------------------------------------------------------------------
(* Pages and prefixes *)

PagesFor(n) == (n + PageTokens - 1) \div PageTokens

Elems(s) == {s[i] : i \in 1..Len(s)}

p \sqsubseteq s == /\ Len(p) <= Len(s)
                   /\ \A i \in 1..Len(p) : p[i] = s[i]

Capacities == 1..(Cardinality(Page) * PageTokens)

(* Pages of a match the request uses in place: not the partly filled last  *)
(* one if the request will append to it.                                   *)
SharedPages(tokens, cap) ==
  IF cap > tokens /\ tokens % PageTokens # 0
  THEN tokens \div PageTokens
  ELSE PagesFor(tokens)

-----------------------------------------------------------------------------
(* The radix tree *)

Node == [table : Seq(Page), own : SUBSET Page, lock : Nat]

EmptyTree == [n \in {} |-> [table |-> <<>>, own |-> {}, lock |-> 0]]

Below(t, p) == {n \in DOMAIN t : p \sqsubseteq n}

Table(t, p) == IF p = <<>> THEN <<>> ELSE t[p].table

(* m is the longest prefix of ids that the tree holds. *)
IsMatch(t, ids, m) ==
  /\ m \sqsubseteq ids
  /\ m # <<>> => Below(t, m) # {}
  /\ m # ids => Below(t, SubSeq(ids, 1, Len(m) + 1)) = {}

(* The node at the lower end of the edge that m cuts. *)
EdgeEnd(t, m) == CHOOSE c \in Below(t, m) : \A d \in Below(t, m) : c \sqsubseteq d

(* Mutant: the node made by a split starts unlocked. *)
SplitUnlocked(t, m) ==
  IF m = <<>> \/ m \in DOMAIN t THEN t
  ELSE LET c     == EdgeEnd(t, m)
           pages == SubSeq(t[c].table, 1, PagesFor(Len(m)))
       IN  [n \in DOMAIN t \cup {m} |->
              IF n = m THEN [table |-> pages, own |-> t[c].own \cap Elems(pages), lock |-> 0]
              ELSE IF n = c THEN [t[c] EXCEPT !.own = @ \ Elems(pages)]
              ELSE t[n]]

Split(t, m) ==
  IF m = <<>> \/ m \in DOMAIN t THEN t
  ELSE LET c     == EdgeEnd(t, m)
           pages == SubSeq(t[c].table, 1, PagesFor(Len(m)))
           upper == t[c].own \cap Elems(pages)
       IN  [n \in DOMAIN t \cup {m} |->
              IF n = m THEN [table |-> pages, own |-> upper, lock |-> t[c].lock]
              ELSE IF n = c THEN [t[c] EXCEPT !.own = @ \ upper]
              ELSE t[n]]

(* Mutant: only the terminal is locked, not its ancestors. *)
LockTerminalOnly(t, m) ==
  [n \in DOMAIN t |-> IF n = m THEN [t[n] EXCEPT !.lock = @ + 1] ELSE t[n]]

LockPath(t, m) ==
  [n \in DOMAIN t |-> IF n \sqsubseteq m THEN [t[n] EXCEPT !.lock = @ + 1] ELSE t[n]]

UnlockPath(t, m) ==
  [n \in DOMAIN t |-> IF n \sqsubseteq m THEN [t[n] EXCEPT !.lock = @ - 1] ELSE t[n]]

(* Mutant: a new node claims its whole table, not the pages past its parent's. *)
InsertOwningAll(t, ids, pages, owned) ==
  [n \in DOMAIN t \cup {ids} |->
     IF n = ids THEN [table |-> pages, own |-> Elems(pages), lock |-> 0] ELSE t[n]]

Insert(t, ids, pages, owned) ==
  [n \in DOMAIN t \cup {ids} |->
     IF n = ids THEN [table |-> pages, own |-> owned, lock |-> 0] ELSE t[n]]

Prune(t, S) == [n \in DOMAIN t \ S |-> t[n]]

Cached(t) == UNION {t[n].own : n \in DOMAIN t}

Locked(t) == {n \in DOMAIN t : t[n].lock > 0}

Pinned(t) == UNION {t[n].own : n \in Locked(t)}

(* Mutants: a leaf is evicted though locked; a node though it has children. *)
EvictableThoughLocked(t) == {n \in DOMAIN t : Below(t, n) = {n}}

EvictableThoughParent(t) == {n \in DOMAIN t : t[n].lock = 0}

Evictable(t) == {n \in DOMAIN t : t[n].lock = 0 /\ Below(t, n) = {n}}

-----------------------------------------------------------------------------
(* Reservations *)

PageTable(r) == shared[r] \o private[r]

Init ==
  /\ tree = EmptyTree
  /\ free = Page
  /\ reserved = 0
  /\ active = {}
  /\ matched = [r \in Request |-> <<>>]
  /\ capacity = [r \in Request |-> 0]
  /\ credit = [r \in Request |-> 0]
  /\ shared = [r \in Request |-> <<>>]
  /\ private = [r \in Request |-> <<>>]
  /\ boundary = [r \in Request |-> None]
  /\ busy = None
  /\ goal = 0

(* Enter the allocation loop, unless the table is long enough already. *)
Allocate(r, have, pages) ==
  IF have < pages THEN busy' = r /\ goal' = pages ELSE UNCHANGED <<busy, goal>>

(* Mutant: the private copy of a partly filled page is not promised. *)
PromiseNoBoundary(m, cap) == PagesFor(cap) - PagesFor(Len(m))

(* What reserve() finds before it admits: the tree with the match split and *)
(* locked, and the private pages it must promise.                           *)
Promise(m, cap) == PagesFor(cap) - SharedPages(Len(m), cap)

(* Mutant: the pages this match is about to pin are not counted. *)
AdmissibleBeforeLocking(m, cap) ==
  reserved + Promise(m, cap) + Cardinality(Pinned(tree)) <= Cardinality(Page)

(* Mutant: the pages shared with the tree are promised all the same. *)
AdmissibleUnshared(m, cap) ==
  reserved + PagesFor(cap) + Cardinality(Pinned(LockPath(Split(tree, m), m)))
    <= Cardinality(Page)

Admissible(m, cap) ==
  reserved + Promise(m, cap) + Cardinality(Pinned(LockPath(Split(tree, m), m)))
    <= Cardinality(Page)

CanReserve(r, ids, cap) ==
  /\ busy = None
  /\ r \notin active
  /\ Cardinality(active) < MaxActive
  /\ Len(ids) <= cap

Reserve(r, ids, cap, m) ==
  LET direct == SharedPages(Len(m), cap)
      table  == Table(Split(tree, m), m)
  IN  /\ CanReserve(r, ids, cap)
      /\ active' = active \cup {r}
      /\ IsMatch(tree, ids, m)
      /\ Admissible(m, cap)
      /\ tree' = LockPath(Split(tree, m), m)
      /\ reserved' = reserved + Promise(m, cap)
      /\ matched' = [matched EXCEPT ![r] = m]
      /\ capacity' = [capacity EXCEPT ![r] = cap]
      /\ credit' = [credit EXCEPT ![r] = Promise(m, cap)]
      /\ shared' = [shared EXCEPT ![r] = SubSeq(table, 1, direct)]
      /\ boundary' = [boundary EXCEPT
                        ![r] = IF direct < Len(table) THEN table[Len(table)] ELSE None]
      /\ Allocate(r, direct, PagesFor(Len(ids)))
      /\ UNCHANGED <<free, private>>

(* A refused reservation leaves the split behind. *)
ReserveRefused(r, ids, cap, m) ==
  /\ CanReserve(r, ids, cap)
  /\ UNCHANGED <<free, reserved, active, matched, capacity, credit, shared,
                 private, boundary, busy, goal>>
  /\ IsMatch(tree, ids, m)
  /\ ~Admissible(m, cap)
  /\ tree' = Split(tree, m)

(* take_boundary_copy: the caller copies the page and forgets the order. *)
TakeBoundaryCopy(r) ==
  /\ busy = None
  /\ r \in active /\ boundary[r] # None
  /\ boundary' = [boundary EXCEPT ![r] = None]
  /\ UNCHANGED <<tree, free, reserved, active, matched, capacity, credit,
                 shared, private, busy, goal>>

EnsureMaterialized(r, tokens) ==
  /\ busy = None
  /\ r \in active
  /\ tokens <= capacity[r]
  /\ Allocate(r, Len(PageTable(r)), PagesFor(tokens))
  /\ UNCHANGED <<tree, free, reserved, active, matched, capacity, credit,
                 shared, private, boundary>>

(* One turn of the allocation loop: take a free page ... *)
TakePage(p) ==
  /\ busy # None
  /\ p \in free
  /\ free' = free \ {p}
  /\ private' = [private EXCEPT ![busy] = Append(@, p)]
  /\ IF Len(PageTable(busy)) + 1 = goal
     THEN busy' = None /\ goal' = 0
     ELSE UNCHANGED <<busy, goal>>
  /\ UNCHANGED <<tree, reserved, active, matched, capacity, credit, shared,
                 boundary>>

(* Mutant: the leaf's pages are freed, but it stays in the tree. *)
EvictPagesOnly(n) ==
  /\ busy # None
  /\ free = {}
  /\ n \in Evictable(tree)
  /\ tree' = [tree EXCEPT ![n].own = {}]
  /\ free' = free \cup tree[n].own
  /\ UNCHANGED <<reserved, active, matched, capacity, credit, shared, private,
                 boundary, busy, goal>>

(* ... or, when there is none, evict an inactive leaf and try again. *)
EvictOneLeaf(n) ==
  /\ busy # None
  /\ free = {}
  /\ n \in Evictable(tree)
  /\ tree' = Prune(tree, {n})
  /\ free' = free \cup tree[n].own
  /\ UNCHANGED <<reserved, active, matched, capacity, credit, shared, private,
                 boundary, busy, goal>>

(* finish_reservation, but for the locks, and the end of the handle's life. *)
Release(r) ==
  /\ busy = None
  /\ r \in active
  /\ active' = active \ {r}
  /\ reserved' = reserved - credit[r]
  /\ matched' = [matched EXCEPT ![r] = <<>>]
  /\ capacity' = [capacity EXCEPT ![r] = 0]
  /\ credit' = [credit EXCEPT ![r] = 0]
  /\ shared' = [shared EXCEPT ![r] = <<>>]
  /\ private' = [private EXCEPT ![r] = <<>>]
  /\ boundary' = [boundary EXCEPT ![r] = None]
  /\ UNCHANGED <<busy, goal>>

(* The pages the tree keeps for ids, and the node that is added for them. *)
Reusable(m) == Len(m) \div PageTokens

OwnSuffix(r, ids, m) ==
  SubSeq(PageTable(r), Reusable(m) + 1, PagesFor(Len(ids)))

Canonical(r, ids, m) ==
  IF m = ids THEN Table(Split(tree, m), m)
  ELSE SubSeq(Table(Split(tree, m), m), 1, Reusable(m)) \o OwnSuffix(r, ids, m)

Published(r, ids, m) ==
  IF m = ids THEN Split(tree, m)
  ELSE Insert(Split(tree, m), ids, Canonical(r, ids, m), Elems(OwnSuffix(r, ids, m)))

Commit(r, ids, m) ==
  /\ Release(r)
  /\ matched[r] \sqsubseteq ids
  /\ Len(ids) <= capacity[r]
  /\ PagesFor(Len(ids)) <= Len(PageTable(r))
  /\ IsMatch(tree, ids, m)
  /\ tree' = UnlockPath(Published(r, ids, m), matched[r])
  /\ free' = free \cup (Elems(private[r]) \ Elems(Canonical(r, ids, m)))

Cancel(r) ==
  /\ Release(r)
  /\ tree' = UnlockPath(tree, matched[r])
  /\ free' = free \cup Elems(private[r])

(* Evictions by name; what is refused, or absent, may still have split a node. *)
EvictExact(ids, m, victims) ==
  /\ busy = None
  /\ ids # <<>>
  /\ UNCHANGED <<reserved, active, matched, capacity, credit, shared, private,
                 boundary, busy, goal>>
  /\ IsMatch(tree, ids, m)
  /\ tree' = Prune(Split(tree, m), victims)
  /\ free' = free \cup UNION {Split(tree, m)[n].own : n \in victims}

Leaf(t, ids) == {ids} \cap Evictable(t)

Subtree(t, ids) == IF Below(t, ids) \cap Locked(t) = {} THEN Below(t, ids) ELSE {}

EvictExactLeaf(ids, m) ==
  EvictExact(ids, m, IF m = ids THEN Leaf(Split(tree, m), ids) ELSE {})

EvictExactSubtree(ids, m) ==
  EvictExact(ids, m, IF m = ids THEN Subtree(Split(tree, m), ids) ELSE {})

-----------------------------------------------------------------------------
Prefixes(ids) == {SubSeq(ids, 1, k) : k \in 0..Len(ids)}

Next ==
  \/ \E ids \in Texts : \E m \in Prefixes(ids) :
       \/ \E r \in Request, cap \in Capacities :
            Reserve(r, ids, cap, m) \/ ReserveRefused(r, ids, cap, m)
       \/ \E r \in Request : Commit(r, ids, m)
       \/ EvictExactLeaf(ids, m)
       \/ EvictExactSubtree(ids, m)
  \/ \E r \in Request : TakeBoundaryCopy(r) \/ Cancel(r)
  \/ \E r \in Request, tokens \in Capacities : EnsureMaterialized(r, tokens)
  \/ \E p \in Page : TakePage(p)
  \/ \E n \in DOMAIN tree : EvictOneLeaf(n)

Spec == Init /\ [][Next]_vars

-----------------------------------------------------------------------------
(* Invariants *)

Prefix == Seq(Token) \ {<<>>}

(* Page ids come from the pool, lock counts never drop below zero.         *)
TypeOK ==
  /\ tree \in [DOMAIN tree -> Node] /\ DOMAIN tree \subseteq Prefix
  /\ free \subseteq Page
  /\ reserved \in Nat
  /\ active \subseteq Request
  /\ matched \in [Request -> Seq(Token)]
  /\ capacity \in [Request -> Nat]
  /\ credit \in [Request -> Nat]
  /\ shared \in [Request -> Seq(Page)]
  /\ private \in [Request -> Seq(Page)]
  /\ boundary \in [Request -> Page \cup {None}]
  /\ busy \in active \cup {None}
  /\ goal \in Nat

Held(r) == Elems(private[r])

(* No page is lost and none has two owners: every page is free, or owned by *)
(* one node, or private to one reservation.                                 *)
PagePartition ==
  /\ Page = free \cup Cached(tree) \cup UNION {Held(r) : r \in Request}
  /\ free \cap Cached(tree) = {}
  /\ \A n1, n2 \in DOMAIN tree : n1 # n2 => tree[n1].own \cap tree[n2].own = {}
  /\ \A r \in Request :
       /\ Held(r) \cap (free \cup Cached(tree)) = {}
       /\ \A q \in Request \ {r} : Held(r) \cap Held(q) = {}
       /\ \A i, j \in DOMAIN private[r] : private[r][i] = private[r][j] => i = j

Lockers(n) == {r \in active : n \sqsubseteq matched[r]}

(* A node is locked once for every reservation whose match runs through it. *)
LocksCountReservations ==
  \A n \in DOMAIN tree : tree[n].lock = Cardinality(Lockers(n))

(* The pages a reservation shares are the first pages of the prefix it     *)
(* matched, which stays cached under it, whatever is split, published or   *)
(* evicted meanwhile; so does the source of a boundary copy not yet made.  *)
SharedPagesStayCached ==
  \A r \in active :
    /\ matched[r] # <<>> => matched[r] \in DOMAIN tree
    /\ Len(shared[r]) = SharedPages(Len(matched[r]), capacity[r])
    /\ Len(shared[r]) <= Len(Table(tree, matched[r]))
    /\ \A i \in 1..Len(shared[r]) : shared[r][i] = Table(tree, matched[r])[i]
    /\ boundary[r] # None =>
         /\ Len(shared[r]) < Len(Table(tree, matched[r]))
         /\ boundary[r] = Table(tree, matched[r])[Len(shared[r]) + 1]

(* A node's page table has the right length and names only pages owned by  *)
(* nodes on its path, which an eviction cannot take away before it.        *)
PathOwnsTables(t) ==
  \A n \in DOMAIN t :
    /\ Len(t[n].table) = PagesFor(Len(n))
    /\ t[n].own \subseteq Elems(t[n].table)
    /\ \A p \in Elems(t[n].table) : \E q \in DOMAIN t : q \sqsubseteq n /\ p \in t[q].own

TablesOwnedByPath == PathOwnsTables(tree)

(* The tree has a node wherever two cached prefixes part: what the cached   *)
(* extensions of a prefix have in common reaches down to a node.            *)
ForksAreNodes(t) ==
  \A n \in DOMAIN t : \A m \in Prefixes(n) \ (DOMAIN t \cup {<<>>}) :
    \E c \in Below(t, m) : \A d \in Below(t, m) : c \sqsubseteq d

BranchesAreNodes == ForksAreNodes(tree)

(* Credits cover what reservations hold, and with the pages they pin they  *)
(* never exceed the pool: the two assertions of debug_validate, and why    *)
(* they hold.                                                              *)
Slots(count) == UNION {{r} \X (1..count[r]) : r \in Request}

CreditsWithinPool ==
  /\ reserved = Cardinality(Slots(credit))
  /\ reserved + Cardinality(Pinned(tree)) <= Cardinality(Page)
  /\ \A r \in Request : Len(private[r]) <= credit[r]
  /\ \A r \in active :
       Len(shared[r]) + credit[r] = PagesFor(capacity[r])
  /\ busy # None => /\ Len(PageTable(busy)) < goal
                    /\ goal <= PagesFor(capacity[busy])

(* An admitted request always gets its next page, so the exhaustion errors *)
(* of the allocation loop are dead code.                                   *)
GuaranteedCapacity ==
  busy # None => /\ Len(private[busy]) < credit[busy]
                 /\ free # {} \/ Evictable(tree) # {}

(* Nodes on the path to m that end inside a page: the next node on the path *)
(* owns a copy of that page, and both are pinned.                           *)
Ragged(t, m) == {n \in DOMAIN t : n \sqsubseteq m /\ Len(n) % PageTokens # 0}

(* A pool that nobody uses, full of cached pages as it may be, refuses a    *)
(* request for nothing but the partly filled pages on the path it matched.  *)
IdlePoolAdmits ==
  active = {} /\ busy = None =>
    \A ids \in Texts : \A m \in Prefixes(ids) : \A cap \in Capacities :
      /\ IsMatch(tree, ids, m)
      /\ Len(ids) <= cap
      /\ PagesFor(cap) + Cardinality(Ragged(Split(tree, m), m)) <= Cardinality(Page)
      => Admissible(m, cap)

(* What reserve and real_full_kv_pool_tokens ensure: a request may need as  *)
(* many pages as the pool has, and a pool of one maximal context will do.   *)
(* The code refuses such a request with nothing else running, and evicts    *)
(* nothing, so that it is refused again whenever it is retried.             *)
PoolHoldsOneRequest ==
  active = {} /\ busy = None =>
    \A ids \in Texts : \A m \in Prefixes(ids) : \A cap \in Capacities :
      IsMatch(tree, ids, m) /\ Len(ids) <= cap => Admissible(m, cap)

(* A handle that is not in use holds nothing. *)
IdleHandles ==
  \A r \in Request \ active :
    /\ matched[r] = <<>> /\ shared[r] = <<>> /\ private[r] = <<>>
    /\ credit[r] = 0

PrefixTree(t) ==
  /\ t \in [DOMAIN t -> Node]
  /\ DOMAIN t \subseteq Prefix
  /\ IsFiniteSet(DOMAIN t)
  /\ PathOwnsTables(t)
  /\ \A n1, n2 \in DOMAIN t : n1 # n2 => t[n1].own \cap t[n2].own = {}
  /\ ForksAreNodes(t)

(* The inductive invariant. *)
IInv ==
  /\ TypeOK
  /\ PrefixTree(tree)
  /\ PagePartition
  /\ LocksCountReservations
  /\ SharedPagesStayCached
  /\ CreditsWithinPool
  /\ IdleHandles
=============================================================================
