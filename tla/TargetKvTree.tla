----------------------------- MODULE TargetKvTree -----------------------------
(***************************************************************************)
(* The radix tree of prefix_cache.rs as it is laid out in memory: nodes     *)
(* with ids and parent ids, child maps keyed by the first token of an edge, *)
(* page deltas against the parent's page table, lock counts and last-access *)
(* stamps.  It implements module TargetKvRadix, whose nodes are named by    *)
(* their prefixes and which leaves open which leaf is evicted.              *)
(*                                                                          *)
(* Only the order of the access stamps matters, so they are kept as ranks.  *)
(* A new node takes the smallest id not in use, an allocation any free      *)
(* page: which id and which page it is makes no difference to anything but  *)
(* a tie of two stamps, and no two nodes that can be evicted tie.           *)
(***************************************************************************)
EXTENDS Integers, FiniteSets, SequencesExt

CONSTANTS
  Token, Texts, Page, Request, None, PageTokens, MaxActive,
  Asked   (* the capacities requests ask for                          *)

(* TargetKvRadixReservation *)
Reservation ==
  [terminal : Nat, matched : Nat, capacity : Nat, credit : Int,
   table : Seq(Page), private : Seq(Page), boundary : Page \cup {None}]

ASSUME TreeAssumption ==
  /\ Texts \subseteq Seq(Token)
  /\ IsFiniteSet(Page) /\ None \notin Page
  /\ IsFiniteSet(Request) /\ None \notin Request
  /\ None \notin Reservation
  /\ Asked \subseteq Nat
  /\ PageTokens \in Nat \ {0}
  /\ MaxActive \in Nat \ {0}

VARIABLES
  nodes,     (* the live nodes: id -> node                                 *)
  free,      (* free_pages                                                 *)
  reserved,  (* reserved_private_pages                                     *)
  handle,    (* per request: its TargetKvRadixReservation, or None         *)
  busy,      (* the request holding the mutex in an allocation loop        *)
  goal       (* the page-table length that loop is to reach                *)

treeVars == <<nodes, free, reserved, handle, busy, goal>>

TotalPages == Cardinality(Page)

ROOT == 0

PagesFor(n) == (n + PageTokens - 1) \div PageTokens

-----------------------------------------------------------------------------
(* Reading the tree *)

Path(a, id) ==
  LET up[n \in DOMAIN a] ==
        IF n = ROOT THEN {} ELSE {n} \cup up[a[n].parent]
  IN  up[id]

PageTableOf(a, id) ==
  LET pages[n \in DOMAIN a] ==
        IF n = ROOT THEN <<>>
        ELSE SubSeq(pages[a[n].parent], 1, a[n].delta.retain)
               \o a[n].delta.pages
  IN  pages[id]

(* Mutants: a delta that shares nothing; one that compares lengths only. *)
DeltaUnshared(parentPages, childPages) == [retain |-> 0, pages |-> childPages]

DeltaByLength(parentPages, childPages) ==
  LET retain == Min({Len(parentPages), Len(childPages)})
  IN  [retain |-> retain,
       pages  |-> SubSeq(childPages, retain + 1, Len(childPages))]

PageDelta(parentPages, childPages) ==
  LET retain == Len(LongestCommonPrefix({parentPages, childPages}))
  IN  [retain |-> retain,
       pages  |-> SubSeq(childPages, retain + 1, Len(childPages))]

CachedCount(a) == SumFunction([n \in DOMAIN a |-> Len(a[n].delta.pages)])

PinnedCount(a) ==
  SumFunction([n \in {n \in DOMAIN a : a[n].lock > 0} |->
                 Len(a[n].delta.pages)])

(* Where the walk of match_prefix ends: at a node, or `cut' tokens down the *)
(* edge of a node.                                                          *)
WalkEnd(a, ids) ==
  LET walk[id \in DOMAIN a] ==
        LET rest == SubSeq(ids, a[id].length + 1, Len(ids))
        IN  IF rest = <<>> \/ Head(rest) \notin DOMAIN a[id].children
            THEN [at |-> id, cut |-> 0]
            ELSE LET child  == a[id].children[Head(rest)]
                     common == Len(LongestCommonPrefix({a[child].edge, rest}))
                 IN  IF common < Len(a[child].edge)
                     THEN [at |-> child, cut |-> common]
                     ELSE walk[child]
  IN  walk[ROOT]

-----------------------------------------------------------------------------
(* Changing the tree *)

(* HashMap::insert: an entry, new or not, is set.  *)
Put(map, key, value) ==
  [k \in DOMAIN map \cup {key} |-> IF k = key THEN value ELSE map[k]]

(* insert_node takes an id that is not in use.  The code takes the one freed *)
(* last; ids are only names here, no tie is decided by them                  *)
(* (TiesLieOnOnePath).                                                      *)
NewId(a) == Min(0..Cardinality(DOMAIN a) \ DOMAIN a)

InsertNode(a, node) == Put(a, NewId(a), node)

(* Mutant: an entry that exists is kept, as HashMap::entry would. *)
SetChildIfAbsent(a, parent, key, id) ==
  IF key \in DOMAIN a[parent].children THEN a
  ELSE [a EXCEPT ![parent].children = Put(@, key, id)]

SetChild(a, parent, key, id) ==
  [a EXCEPT ![parent].children = Put(@, key, id)]

SplitNode(a, id, cut) ==
  LET child  == a[id]
      length == a[child.parent].length + cut
      below  == PageTableOf(a, id)
      pages  == SubSeq(below, 1, PagesFor(length))
      upper  == [child EXCEPT
                   !.edge     = SubSeq(@, 1, cut),
                   !.length   = length,
                   !.delta    = PageDelta(PageTableOf(a, child.parent), pages),
                   !.children = Put(<<>>, child.edge[cut + 1], id)]
      lower  == [child EXCEPT
                   !.parent = NewId(a),
                   !.edge   = SubSeq(@, cut + 1, Len(@)),
                   !.delta  = PageDelta(pages, below)]
  IN  SetChild([InsertNode(a, upper) EXCEPT ![id] = lower],
               child.parent, Head(child.edge), NewId(a))

(* match_prefix: the tree afterwards and the terminal node. *)
MatchPrefix(a, ids) ==
  LET end == WalkEnd(a, ids)
  IN  IF end.cut = 0 THEN [tree |-> a, terminal |-> end.at]
      ELSE [tree |-> SplitNode(a, end.at, end.cut), terminal |-> NewId(a)]

(* Mutant: the access clock is read but not advanced. *)
StampWithoutTick(a, ids) ==
  LET now == Max({a[n].access : n \in DOMAIN a})
  IN  [n \in DOMAIN a |-> IF n \in ids THEN [a[n] EXCEPT !.access = now] ELSE a[n]]

(* next_access on a set of nodes, with stamps reduced to ranks. *)
Stamp(a, ids) ==
  LET now    == 1 + Max({a[n].access : n \in DOMAIN a})
      at(n)  == IF n \in ids THEN now ELSE a[n].access
      rank(n) == Cardinality({at(q) : q \in DOMAIN a} \cap 0..(at(n) - 1))
  IN  [n \in DOMAIN a |-> [a[n] EXCEPT !.access = rank(n)]]

TouchPath(a, terminal) == Stamp(a, Path(a, terminal))

AddLock(a, terminal, d) ==
  [n \in DOMAIN a |-> IF n \in Path(a, terminal)
                      THEN [a[n] EXCEPT !.lock = @ + d] ELSE a[n]]

InsertRadixChild(a, parent, edge, pages) ==
  LET child == [parent   |-> parent,
                edge     |-> edge,
                length   |-> a[parent].length + Len(edge),
                delta    |-> PageDelta(PageTableOf(a, parent), pages),
                children |-> <<>>,
                lock     |-> 0,
                access   |-> 0]
      id    == NewId(a)
  IN  Stamp(SetChild(InsertNode(a, child), parent, Head(edge), id), {id})

(* evict_leaf on each node of S, children before their parents. *)
RemoveAll(a, S) ==
  [n \in DOMAIN a \ S |->
     [a[n] EXCEPT !.children =
        [t \in {t \in DOMAIN @ : @[t] \notin S} |-> @[t]]]]

IsLeaf(a, id) == a[id].children = <<>>

Evictable(a) ==
  {n \in DOMAIN a \ {ROOT} : a[n].lock = 0 /\ IsLeaf(a, n)}

(* evict_one_leaf's candidate: least recently used, then smallest id. *)
Oldest(a) ==
  CHOOSE n \in Evictable(a) :
    \A q \in Evictable(a) :
      \/ a[n].access < a[q].access
      \/ a[n].access = a[q].access /\ n <= q

-----------------------------------------------------------------------------
(* Reservations *)

Init ==
  /\ nodes = Put(<<>>, ROOT, [parent |-> ROOT, edge |-> <<>>, length |-> 0,
                              delta |-> [retain |-> 0, pages |-> <<>>],
                              children |-> <<>>, lock |-> 0, access |-> 0])
  /\ free = Page
  /\ reserved = 0
  /\ handle = [r \in Request |-> None]
  /\ busy = None
  /\ goal = 0

Active == {r \in Request : handle[r] # None}

SharedPages(tokens, cap) ==
  IF cap > tokens /\ tokens % PageTokens # 0
  THEN tokens \div PageTokens
  ELSE PagesFor(tokens)

Allocate(r, have, pages) ==
  IF have < pages THEN busy' = r /\ goal' = pages ELSE UNCHANGED <<busy, goal>>

Reserve(r, ids, cap) ==
  LET match   == MatchPrefix(nodes, ids)
      matched == match.tree[match.terminal].length
      table   == PageTableOf(match.tree, match.terminal)
      touched == TouchPath(match.tree, match.terminal)
      locked  == AddLock(touched, match.terminal, 1)
      direct  == SharedPages(matched, cap)
      promise == PagesFor(cap) - direct
  IN  /\ busy = None
      /\ handle[r] = None
      /\ cap > 0 /\ Len(ids) <= cap /\ PagesFor(cap) <= TotalPages
      /\ Cardinality(Active) < MaxActive
      /\ UNCHANGED free
      /\ IF reserved + promise + PinnedCount(locked) > TotalPages
         THEN nodes' = touched /\ UNCHANGED <<reserved, handle, busy, goal>>
         ELSE /\ nodes' = locked
              /\ reserved' = reserved + promise
              /\ handle' = [handle EXCEPT ![r] =
                   [terminal |-> match.terminal,
                    matched  |-> matched,
                    capacity |-> cap,
                    credit   |-> promise,
                    table    |-> SubSeq(table, 1, direct),
                    private  |-> <<>>,
                    boundary |-> IF direct < Len(table) THEN Last(table) ELSE None]]
              /\ Allocate(r, direct, PagesFor(Len(ids)))

TakeBoundaryCopy(r) ==
  /\ busy = None
  /\ handle[r] # None /\ handle[r].boundary # None
  /\ handle' = [handle EXCEPT ![r].boundary = None]
  /\ UNCHANGED <<nodes, free, reserved, busy, goal>>

EnsureMaterialized(r, tokens) ==
  /\ busy = None
  /\ handle[r] # None /\ tokens <= handle[r].capacity
  /\ Allocate(r, Len(handle[r].table), PagesFor(tokens))
  /\ UNCHANGED <<nodes, free, reserved, handle>>

(* allocate_physical_page, one turn of its caller's loop or of its own. *)
TakePage(p) ==
  /\ busy # None /\ p \in free
  /\ free' = free \ {p}
  /\ handle' = [handle EXCEPT ![busy].table = Append(@, p),
                              ![busy].private = Append(@, p)]
  /\ IF Len(handle'[busy].table) = goal
     THEN busy' = None /\ goal' = 0
     ELSE UNCHANGED <<busy, goal>>
  /\ UNCHANGED <<nodes, reserved>>

EvictOneLeaf ==
  /\ busy # None /\ free = {} /\ Evictable(nodes) # {}
  /\ nodes' = RemoveAll(nodes, {Oldest(nodes)})
  /\ free' = ToSet(nodes[Oldest(nodes)].delta.pages)
  /\ UNCHANGED <<reserved, handle, busy, goal>>

Finish(r, a) ==
  /\ nodes' = AddLock(a, handle[r].terminal, -1)
  /\ reserved' = reserved - handle[r].credit
  /\ handle' = [handle EXCEPT ![r] = None]
  /\ UNCHANGED <<busy, goal>>

Commit(r, ids) ==
  LET match     == MatchPrefix(nodes, ids)
      found     == match.tree[match.terminal].length
      table     == PageTableOf(match.tree, match.terminal)
      touched   == TouchPath(match.tree, match.terminal)
      reusable  == found \div PageTokens
      canonical == IF found = Len(ids) THEN table
                   ELSE SubSeq(table, 1, reusable)
                          \o SubSeq(handle[r].table, reusable + 1, PagesFor(Len(ids)))
  IN  /\ busy = None
      /\ handle[r] # None
      /\ handle[r].matched <= Len(ids)
      /\ Len(ids) <= handle[r].capacity
      /\ PagesFor(Len(ids)) <= Len(handle[r].table)
      /\ Finish(r, IF found = Len(ids) THEN touched
                   ELSE InsertRadixChild(touched, match.terminal,
                          SubSeq(ids, found + 1, Len(ids)), canonical))
      /\ free' = free \cup (ToSet(handle[r].private) \ ToSet(canonical))

Cancel(r) ==
  /\ busy = None
  /\ handle[r] # None
  /\ Finish(r, nodes)
  /\ free' = free \cup ToSet(handle[r].private)

(* Evictions by name; what is refused, or absent, may have split a node. *)
EvictExact(match, ids, victims) ==
  LET S == IF match.tree[match.terminal].length = Len(ids) THEN victims ELSE {}
  IN  /\ busy = None /\ ids # <<>>
      /\ nodes' = RemoveAll(match.tree, S)
      /\ free' = free \cup UNION {ToSet(match.tree[n].delta.pages) : n \in S}
      /\ UNCHANGED <<reserved, handle, busy, goal>>

Leaf(a, id) == {id} \cap Evictable(a)

Subtree(a, id) ==
  LET S == {n \in DOMAIN a : id \in Path(a, n)}
  IN  IF \A n \in S : a[n].lock = 0 THEN S ELSE {}

EvictExactLeaf(ids) ==
  LET match == MatchPrefix(nodes, ids)
  IN  EvictExact(match, ids, Leaf(match.tree, match.terminal))

EvictExactSubtree(ids) ==
  LET match == MatchPrefix(nodes, ids)
  IN  EvictExact(match, ids, Subtree(match.tree, match.terminal))

-----------------------------------------------------------------------------
(* The caller: commits extend the prefix that was matched. *)
PrefixOf(a, id) ==
  LET spell[n \in DOMAIN a] ==
        IF n = ROOT THEN <<>> ELSE spell[a[n].parent] \o a[n].edge
  IN  spell[id]

Next ==
  \/ \E r \in Request, ids \in Texts :
       \/ \E cap \in Asked : Reserve(r, ids, cap)
       \/ /\ handle[r] # None
          /\ IsPrefix(PrefixOf(nodes, handle[r].terminal), ids)
          /\ Commit(r, ids)
  \/ \E r \in Request :
       \/ TakeBoundaryCopy(r)
       \/ \E tokens \in Asked : EnsureMaterialized(r, tokens)
       \/ Cancel(r)
  \/ \E ids \in Texts : EvictExactLeaf(ids) \/ EvictExactSubtree(ids)
  \/ \E p \in Page : TakePage(p)
  \/ EvictOneLeaf

Spec == Init /\ [][Next]_treeVars

-----------------------------------------------------------------------------
(* Properties *)

Ids == DOMAIN nodes

(* The nodes form one tree: child maps and parent ids agree, edges are keyed *)
(* by their first token, recorded lengths add up, and every page table, read *)
(* through the deltas, has the length of its prefix.                         *)
NodesFormATree ==
  /\ ROOT \in Ids
  /\ \A n \in Ids \ {ROOT} :
       LET node == nodes[n]
       IN  /\ node.edge # <<>>
           /\ Head(node.edge) \in DOMAIN nodes[node.parent].children
           /\ nodes[node.parent].children[Head(node.edge)] = n
           /\ node.length = nodes[node.parent].length + Len(node.edge)
           /\ Len(PageTableOf(nodes, n)) = PagesFor(node.length)
  /\ \A n \in Ids : \A t \in DOMAIN nodes[n].children :
       /\ nodes[n].children[t] \in Ids
       /\ nodes[nodes[n].children[t]].parent = n

(* debug_validate, counted by hand: free, cached and private pages add up.  *)
PagesAddUp ==
  Cardinality(free) + CachedCount(nodes)
    + SumFunction([r \in Active |-> Len(handle[r].private)]) = TotalPages

(* Two nodes with the same stamp lie on one path, so no two leaves tie and  *)
(* evict_one_leaf's choice never falls back on the order of ids.            *)
TiesLieOnOnePath ==
  \A n, q \in Ids \ {ROOT} :
    nodes[n].access = nodes[q].access
      => n \in Path(nodes, q) \/ q \in Path(nodes, n)

-----------------------------------------------------------------------------
(* The tree implements the prefix cache. *)
Named(a) ==
  LET named == DOMAIN a \ {ROOT}
      id[p \in {PrefixOf(a, n) : n \in named}] ==
        CHOOSE n \in named : PrefixOf(a, n) = p
  IN  [p \in DOMAIN id |->
         [table |-> PageTableOf(a, id[p]),
          own   |-> ToSet(a[id[p]].delta.pages),
          lock  |-> a[id[p]].lock]]

Matched == [r \in Request |->
              IF handle[r] = None THEN <<>> ELSE PrefixOf(nodes, handle[r].terminal)]

Capacity == [r \in Request |-> IF handle[r] = None THEN 0 ELSE handle[r].capacity]

Credit == [r \in Request |-> IF handle[r] = None THEN 0 ELSE handle[r].credit]

Shared == [r \in Request |->
             IF handle[r] = None THEN <<>>
             ELSE SubSeq(handle[r].table, 1, Len(handle[r].table) - Len(handle[r].private))]

Private == [r \in Request |-> IF handle[r] = None THEN <<>> ELSE handle[r].private]

Boundary == [r \in Request |-> IF handle[r] = None THEN None ELSE handle[r].boundary]

Radix == INSTANCE TargetKvRadix WITH
  tree     <- Named(nodes),
  active   <- Active,
  matched  <- Matched,
  capacity <- Capacity,
  credit   <- Credit,
  shared   <- Shared,
  private  <- Private,
  boundary <- Boundary

ImplementsRadix == Radix!Spec
=============================================================================
