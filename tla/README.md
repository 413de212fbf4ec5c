# A TLA+ model of the glmrt serving core

This directory models the parts of glmrt that decide *which request runs, what memory it is
given and when it gets it back*: the serving worker, the prefix cache of KV pages, the context
token budget, and the request executor that uses them; how a sequence *drafts ahead and takes
back* what it wrote; and the *order in which the expert hosts launch joint reductions*. The
models are checked with TLC on small instances. What matters most about the prefix cache, the
executor, the worker, drafting and the launch order is proved with TLAPS for every instance.

Contents: [the system](#the-system) · [the modules](#the-modules) · [the runs](#the-runs) ·
[fairness](#fairness) · [the proofs](#the-proofs) · [findings](#findings) ·
[not modelled](#what-is-not-modelled-and-why) · [plan](#plan)

## The system

glmrt serves one large mixture-of-experts model from one coordinator and several expert
hosts. A request goes through these parts (paths under `src/rust/crates/`):

```
HTTP client --> OpenAI API (glmrt-api/openai, request, streaming, tooling)
                   |  tool continuations: continuation.rs
                   v
             serving worker  (glmrt-api/real_full.rs)      one thread per executor, a mailbox
                   |  execute batch / finish sequence
                   v
             request executor (glmrt-daemon/commands/real_full/entry.rs)
                   |  reserve / bind / commit        |  reserve / drop
                   v                                 v
             prefix cache (prefix_cache.rs)     context token budget (entry.rs)
                   |
                   v
             layer waves, device KV, drafts, expert transport, kernels
```

| component | state | operations | how it is reached | what is hard | what makes it correct |
|---|---|---|---|---|---|
| **Target KV prefix cache** `prefix_cache.rs` | radix tree of nodes (edge, page delta, children, lock count, access stamp), free pages, sum of credits, live reservations | reserve, take_boundary_copy, ensure_materialized_through, commit, cancel, evict_one_leaf, evict exact leaf / subtree | method calls of the executor under one mutex; drop of a reservation | other sequences split, publish and evict between any two calls of one; pages are promised long before they are taken | every page has one owner; shared pages stay; a promise is kept; the tree reads back what was written |
| **Serving worker** `glmrt-api/real_full.rs` | mailbox, pending and active sequences, deferred direct jobs | start, execute, finish; coalesce, admit, retry, cycle, prune, stop | channel from HTTP handlers, bounded event channels back, blocking replies for direct calls | clients close at any moment, admission fails and is retried, four places receive jobs | limits hold; nothing is lost or leaked; calls return; what fits is served |
| **Context token budget** `entry.rs` 1710-1850 | sorted free extents, used tokens, number of reservations | reserve; release on drop | executor, at admission; drop in any order | extents split and merge in any order | slots partitioned; no space lost |
| **Request executor and lanes** `entry.rs` 2043-2389, 2895-3068, 3509-4700, 5224-5600, 6142-6385 | scheduler state per sequence, recycled arenas, lanes, a draft slot per sequence, tails of finished sequences | probe, align, take a lane, bind, extend, prepare, pass, fail, finish | called by the worker's thread only | an opening can be refused or fail at six places, a pass at many; each has to give back what was taken; what is published is the frontier of two caches | nothing outlives its request; publishing cannot fail; the draft cache is where the target is |
| **Drafting (dSpark, DFlash2, MTP)** `entry.rs` 2522-2750, 3509-4770, `scheduler/execution.rs`, `dspark*.rs`, `dflash*.rs`, `mtp.rs` | draft tail cache per prefix, pending drafts, draft width, KV of the MTP layer | draft, verify, accept, rewind, bridge, adapt the width, retain a tail | executor, in a cycle | drafts are written before they are judged, in two layers whose positions are shifted against each other; the draft cache rolls, and what it retained may end before what the target cached | only accepted tokens are committed; nothing outgrows capacity or budget |
| **KV ledger and device KV** `glmrt-core/kv_cache`, `kv/device.rs` | reservations, write records with a state, indexes, attention-ready frontiers | reserve, record, mark, resolve tentative, discard, append, rewind | layer execution | speculative writes are resolved or discarded later; four indexes by hand | attention sees accepted writes only; indexes agree |
| **Layer waves** `glmrt-core/layerwave` | none between iterations | admit, chunk, merge | executor's scheduler | priorities against prefill limits | decode is never held up |
| **Expert routing** `expert_route_plan.rs`, `sparse_mlp/route.rs` | routes and partial sums of a layer | plan, dispatch, accumulate | per sparse layer | answers of several hosts | each route is summed once |
| **Collective launch order** `sparse_mlp/route.rs` 112-332, `protocol_v2_executor.rs` 713-733, `host_batch_set.rs` 55-97 | per host (and lane): pending ids, the expected one, the active one, a gap timer; a process-wide id sequence | reserve ids; register, wait for turn, finish, drop | coordinator's dispatches; threads of an expert host under a mutex and a condition variable | ids come over many connections in any order, some never; hosts decide each for itself | all hosts launch in one order; every reduction ends |
| **Graph buffers** `graph_buffers.rs` | instance pool and leases | register, acquire (set), release | per host batch | a set fails half-way | an instance has one lease |
| **Expert transport** `glmrt-transport` | connections, host batch sets, sequence numbers | send, receive, complete | coordinator to hosts (TCP, RDMA) | failures of hosts | frames match requests |
| **Expert daemon** `expertd.rs` | resident experts | serve a layer's batch | transport | - | answers what was asked |
| **API layer** `openai.rs`, `request.rs`, `streaming.rs`, `tooling.rs` | per request | parse, format, stream | HTTP | - | text and JSON |
| **Tool continuations** `continuation.rs` | bounded queue and an index by call id | insert, match | API layer, under a mutex | an id used twice, eviction of the older | the index names what is stored |
| **Constrained decoding** `constrained.rs` | matcher per sequence | mask, accept, roll back | executor | drafts advance and roll back the matcher | follows the accepted tokens |
| **Loader and catalog** `glmrt-loader` | files | open, check | startup | - | hashes and shapes |
| **Kernels, FFI** `src/native`; **tools** `src/python`, `src/scripts`, `src/docker` | - | - | - | - | numeric / operational |

Two observations shape the models:

* *Where concurrency is.* One coordinator has one worker thread per executor, and the pool of
  workers hashes sequence ids to independent ones. HTTP clients, direct callers and that thread
  interleave freely over the mailbox. The prefix cache and the token budget are behind mutexes,
  but their *protocol* interleaves: a sequence reserves in one cycle and commits in another,
  and in between other sequences reserve, split, publish and evict. Expert hosts decide on the
  order of their reductions without talking to each other.
* *What persists.* Nothing: a restart starts with an empty cache. There is no crash recovery to
  model. A worker that stops is modelled (`Stop`), and so are clients that go.

`PROJECT.json` lists the hazards found in this code, each at its line, with the properties that
would catch it going wrong, or the reason none does yet.

## The modules

### `TargetKvRadix` - the prefix cache, by prefixes

`tree` maps the prefix a node stands for to its page table, the pages it owns and its lock
count. A node id of the code keeps its prefix for its whole life, since a split gives the new id
to the *upper* half; so prefixes are as good as ids, and edges are the prefix order. The other
variables are the fields of `TargetKvRadixState` (`free`, `reserved`, `active`) and of
`TargetKvRadixReservation`, one function per field (`matched`, `capacity`, `credit`, `shared`,
`private`, `boundary`; the page table of a reservation is `shared \o private`).

| code | action |
|---|---|
| `reserve`, admitted / refused | `Reserve`, `ReserveRefused` (a refused one leaves the split it made behind) |
| `take_boundary_copy` | `TakeBoundaryCopy` |
| `ensure_materialized_through` | `EnsureMaterialized` |
| one turn of the allocation loop (`allocate_physical_page`) | `TakePage`, `EvictOneLeaf` |
| `commit` | `Commit` |
| `cancel`, and the drop of a live reservation | `Cancel` |
| `evict_exact_leaf`, `evict_exact_subtree` | `EvictExactLeaf`, `EvictExactSubtree` |

Every method holds the state's mutex to its end. The allocation loops of `reserve` and
`ensure_materialized_through` are unrolled, one page or one eviction per step; `busy` is the
request inside such a loop, i.e. the holder of the mutex, and every other action waits for
`busy = None`. Which free page is taken and which unlocked leaf is evicted are left open here.

Left out: statistics; the errors that only reject a request before anything changes (lengths,
zero capacity); the rollback of a failed initial allocation (238-250) and the credit check in
the allocation (405-408), both dead code by `GuaranteedCapacity` and `CreditsWithinPool`. One
assumption on the caller: a commit extends the prefix that was matched (`matched[r] \sqsubseteq
ids` in `Commit`) and has its pages. `SequenceExecutor` discharges it: `ExecutorUsesRadix`.

### `TargetKvTree` - the prefix cache, as it is in memory

Nodes with ids, parent ids, edges, child maps keyed by the first token, page *deltas* against
the parent (`retain` pages of the parent's table, then own ones), lock counts and access stamps;
`handle` is the reservation record. The walk of `match_prefix`, `split_node`,
`insert_radix_child`, `page_delta` and the least-recently-used choice of `evict_one_leaf` are
translated one by one. `ImplementsRadix` maps ids to the prefixes they spell (`Named`), reservation
records to what they give a request (`Matched`, `Capacity`, `Credit`, `Shared`, `Private`,
`Boundary`), and states that every behaviour is one of `TargetKvRadix`: checked on the instance,
proved for every one. Stamps are kept as ranks, since only their order is read, and a new node gets
the least id that is free where the code takes the one freed last (931-941): ids are only names.

### `ServingWorker` - the worker and its clients

Streams (`Start`, `Disconnect`) and direct callers (`CallExecute`, `CallFinish`) post to
`mailbox`; `HangUp` is the drop of the last sender. `pc` is the place in the worker's loop
(`glmrt-api/real_full.rs` 600-860):

| `pc` | code | actions |
|---|---|---|
| `top` | `pending_sequences.retain(..)` | `ForgetClosed` |
| `drain` | `try_recv` until empty | `Drain`, `Drained` |
| `direct` | one deferred job | `FinishDirect`, `ExecuteDirect`, `GatherFirst` |
| `gather` | the coalescing wait for a direct batch | `Gather`, `ExecuteBatch` |
| `prune` | active sequences whose client has gone | `Prune` |
| `admit` | admission wait, first cycle of the admitted | `AwaitAdmission`, `Admit`, `AdmitNone` |
| `cycle` | a cycle of all active sequences, or the idle receive | `Cycle`, `IdleReceive`, `IdleTimeout`, `Stop` |

Timed waits end at any moment: with a job, or without one.

The executor behind the worker is an *assumption*, the contract of the trait it implements
(`glmrt-api`'s `real_full.rs`) and of its retryable errors (`entry.rs` 5212-5221), as weak as the
properties allow: `engine` is the set of sequences it holds resources for, `Pages` what each
takes of `Capacity`. The first cycle of a sequence that does not fit fails with the retryable
admission error and holds nothing afterwards; any other cycle continues, stops or fails,
nondeterministically. It is assumed that each sequence fits when it is alone; `idle_refusal`
(below) shows a corner where the prefix cache does not give that. A client's bounded event
channel is abstracted to open or gone.

### `ContextTokenBudget`, `TokenBitmap` - the token budget

`free` is the sorted list of extents; `Reserve` rounds to pages and cuts from the head of the
first extent that fits; `Release` inserts at the position of its base and runs the merging pass
from the left neighbour on, as the code does: `Joined` gives the loop's result in closed form, an
extent of the result for each maximal run of extents that touch. `TokenBitmap` is what it promises: each slot has
an owner or none, and a request gets the lowest run of free slots that is long enough.
`ImplementsBitmap` is the refinement.

### `KvLedger`, `MtpDraftWidth`, `SpeculativeKv` - drafting ahead

`SpeculativeKv` is one sequence from its prompt to the end of its budget. `KvLedger` holds the
operations of `KvCacheAllocator` and `KvCacheBackingStore` on one layer's writes, as operators on
a ledger value; `MtpDraftWidth` those of `RealFullMtpAdaptiveDraftState`. `Queues` holds what
ledger and worker share: the elements of a set in ascending order, and `Vec::retain`. For the sake of
the proofs none of them is recursive, except that the rows of a draft chain are appended one by one
(`AppendEach`, a recursive function).

| code | action or operator |
|---|---|
| the cycle's rows, drafts, padding, limits (`entry.rs` 3778-3910) | `StartCycle` |
| `LayerWave::prefill`, a chunk | `PrefillChunk` |
| `LayerWave::decode`, `mtp_verify` in one iteration (`admission.rs`) | `RunTarget` |
| a cycle without drafts (4114-4172) | `AcceptScalar` |
| acceptance, resolution, rewind, next width (4220-4292; dSpark 4440-4480, 3205-3270) | `AcceptDrafts` |
| `execute_mtp_chain`, `execute_mtp_bridge_chain` | `Draft` |
| `record_processed_token_ids` and the caller's count of tokens | `Record` |
| `write_committed_block_metadata`, `write_tentative_block_metadata_for_wave` | `RecordBlock`, `RecordTentative` |
| `resolve_mtp_tentative_writes`, `discard_writes_from` | `Resolve`, `DiscardFrom` |
| `width`, `observe` | `Asked` and `Answer`, `Observed` |
| append, resolve, rewind of `mla_attention_ready_frontiers` | `FrontierAppend`, `Trim`, `Shortened` |

Tokens are abstracted to the one thing that matters here: is a draft what the target samples at
its place. `drafts.matching` is the number of leading drafts of which that holds, chosen freely.
`rows` is history: the device rows computed from the sequence's own tokens with nothing missing
below. All target layers are written alike, so one stands for them. `covered` is the set of
positions whose maximal runs the code keeps as `attention_metadata_runs`. The width's history is
cut to the last three observations, the only ones read.

Left out: grammar constraints (they shorten chains and turn padding off); diagnostic synthetic MTP
rows; stop tokens (a sequence may end earlier than its budget; it writes nothing then); errors in
the middle of a cycle (they end the stream); payloads kept on the host
(`attention_metadata_invalid_layers`). NVFP4 caches keep no frontiers. `SpeculativeAssumption`
states what the capacity check relies on: the most drafts allowed exceed neither the prompt nor the
headroom by more than two. The code allows 7 drafts and 4096 tokens of headroom, so prompts of
five tokens suffice, fewer than any chat template makes.

### `SequenceExecutor` - one request from its reservation to its finish

`EXTENDS TargetKvRadix` and composes with it: an action of the executor contains the whole call
of the cache it makes, and the cache's allocation loops run as steps of their own while they hold
the mutex. `seq` is the scheduler state (stage, prompt, text, processed tokens, budget, lane),
`draft` the draft slot, `tails` the tail cache, `recycled` the idle arenas, and `turn` the request
that is being opened, which the one executing thread does not leave for another.

| code (`entry.rs` unless said) | action |
|---|---|
| new request: capacity, `reserve` on the prompt but its last token (3576-3620, 4988-5004) | `Probe`, `ProbeRefused` |
| the match has no tail in the draft cache: drop and reserve the aligned part (3621-3645, 923-956) | `DropMatch`, `Realign`, `RealignRefused` |
| `take_scheduler_state`, recycled state or free lane (2079-2323) | `TakeLane`, `NoLane`, `TakeLanePlain` |
| `bind_target_radix_reservation`, `ensure_target_radix_materialized_through` (1887-1937) | the rest of `TakeLane`, `CopyBoundary`, `Extend` |
| `prepare_cycle`: draft slot, restore of a tail (1096-1206, `dspark.rs` 2540-2553) | `Prepare`, `NoDraftSlot` |
| first pass: replay of the prompt's last rows, first tail published (4590-4731, 1604-1654) | `FirstPass` |
| later passes: accepted drafts and one token (4392-4510) | `NextPass` |
| a pass fails before or behind its draft replay, with the state stored again (4036-4053, 4652-4684, 5475-5540, 3060-3069) or dropped | `PassFails`, `PassBreaks` over `DraftsLeft` |
| `finish_real_full_sequence` (6260-6380), `finish_sequence` (1656-1716) | `Finish` |

A draft row is named by the prefix that ends at it, so that a row of another text or position is
another value. A pass that fails behind its replay (the tail of the prompt is not published, 4673-4681;
a later group of a DFlash2 batch is not replayed, 5528-5535; an error behind the replay, 3435-3449) leaves the draft
cache ahead of the stored state; the check in `finish_sequence` (1681-1686) then keeps no
tail (`Retains`). `Plain` requests are those without reservation (images, MTP); they pay from the
context budget instead. A batched pass is several passes of one request each. Left out: startup, graph
capture and internal sequences, the shadow mode of the cache, KV snapshots, calibration of
confidences, a draft replay that fails after its window has rolled (`dspark.rs` 2660-2690), the
MTP planes, the check for a changed constraint.

### `CollectiveLaunchOrder` - one launch order on all hosts

| code | action |
|---|---|
| a dispatch takes a lane and reserves ids (`host_batch_set.rs` 55-97, 712-754, 2528-2557) | `SendRegular`, `SendStriped` |
| an id that no host will see | `Skip` |
| the dispatch returns, or fails and resets its clients | `Return` |
| `register` (`route.rs` 158-179), when a request is taken from its connection | `Register` |
| one round of `wait_for_turn_inner` (206-286) | `Poll` |
| `finish` (288-311) after the reduction is through | `Finish` |
| drop of a ticket (314-332), also after the quorum's time-out | `Drop` |
| the connection fails first (`verbs.rs`) | `Lose` |

Both uses are initial states. *Regular*: one order per host for all lanes, one request per host
and dispatch; a gap in the ids is bridged by a quorum of as many requests as there are lanes, or
after 20 ms. *Striped*: an order per lane (one is modelled), one request per rail, a quorum of all
rails, and no bridging by time. Ids are numbered without their namespace, stride and host offset,
which `canonical_spark_collective_request_id` takes off. A reduction is through when every host
has launched it; that it then ends by itself is what NCCL and the RDMA exchange promise.

`Late` is the one question of time: may a request reach a host more than the reorder wait after
one with a greater id? With `Late = FALSE` the hosts have one order. With `Late = TRUE` TLC finds
crossed turns after nine states: one host bridges the gap to the lower id, which it has; the other,
where that request is late, to the higher one; each reduction then waits for the other host. The
assumption is the code's (20 ms against requests of a dispatch that are sent together), not a
guarantee.

Simplifications: a connection's requests are served in order (a client's reset is deferred until
its pipeline is idle); a striped dispatch uses all rails of its lane; a plan that replaces an
incomplete one on a host drops the old ticket first. The owner fanout and the 60 s time-out of the
RDMA exchange are left out. After a failure other hosts may wait for good; nothing is claimed then.

## The runs

| run | instance | what it shows |
|---|---|---|
| `radix` | 4 pages of 2 tokens, 2 requests, `TextsLong` | the invariants of `TargetKvRadix`; an idle pool refuses only what its own match crowds out |
| `idle_refusal` | the same | *violation*: an idle pool refuses a request that fits |
| `tree` | 3 pages, 2 requests, capacities 2 and 4 | the tree in memory is consistent and implements the cache |
| `executor` | 3 pages of 3 tokens, 2 requests, 2 lanes, context 7, budget 3, window and tail cache of 2 rows, prompt-swa | tails and draft caches are exact, aligning loses nothing, publishing succeeds, nothing outlives its request |
| `executor_full` | 3 pages of 2, one lane, one request with a reservation and one without | lanes are not doubled, shortages have causes; the cache is used as allowed; openings and allocations end |
| `executor_local` | `executor` in request-local mode | *violation*: what is published is far behind |
| `serving` | streams 1-3, 2 direct callers, capacity 2, limit 2 | limits, no stream lost, closed ones cost at most one cycle, nothing leaks |
| `serving_live` | streams 1, 3, 4, 1 caller, limit 3 | a stream that fits is served, behind others that do not; direct calls return, but for one state |
| `serving_lost_call` | 2 streams, 1 caller | *violation*: that state is reached |
| `budget` | 6 pages, 4 requests, 3 at a time | exact, merged extents; first fit on a bitmap |
| `speculative` | prompts 2-3, budget to 8, context 10, 1-3 drafts | attention sees accepted writes only, indexes agree, capacity holds, drafts of fixed width see a gapless prefix |
| `collective` | 2 hosts, 2 connections, 4 ids, 1 failure, not late | hosts launch in one order; without a failure every reduction ends |

Why the bounds are enough to mean something:

* *Prefix cache.* Pages of two tokens are the smallest that have an inside. `TextsLong` has
  texts that part at a page boundary, inside the second page and inside the first, and all
  their prefixes; so a match ends at a node, inside an edge at a boundary, or inside an edge
  and inside a page; two requests with one prompt, and two that share a part of it, meet. Four
  pages are too few for two full capacities, so refusal, eviction, and eviction of leaves that
  own nothing (a split inside the last page leaves it to the upper node) all occur. Capacities
  range over everything the pool allows. Pages and requests are symmetric.
* *Tree.* Three pages and two capacities keep refinement checking affordable; the texts part
  inside a page, and one extends another past a page boundary. Symmetry is over pages and
  requests only, ids are concrete.
* *Executor.* Pages of three tokens under a window of two rows let a match end inside a page and
  the window roll inside one; a context of seven leaves a prompt of four its budget and cuts
  capacities. The texts are one conversation that can be continued and another that leaves it
  inside the first page, so tails are inserted, replaced, evicted (a tail cache of two rows holds
  one or two entries), missed and restored. Two requests share everything, and either may fail
  while the other opens. `executor_full` has what two lanes hide: a plain request holds the only
  lane, a failed one the only draft slot. Liveness is checked there, without symmetry.
* *Worker.* Weight 1 for streams 1 and 2, weight 2 for 3 and 4, with capacity 2: those need the
  whole engine, so they are refused and retried beside anyone else. `MaxOutput` 2 gives each
  sequence a first and a last cycle; `MaxCalls` 1 bounds how often a direct caller executes
  before it finishes. A limit of 2 with 3 streams makes refusals happen with sequences in both
  queues. Two callers are needed for a batch of direct jobs to gather.
* *Launch order.* Two hosts suffice for crossed turns. Two connections per host leave a request on
  its way while another waits, and four ids make a gap before, between and behind requests. One
  failure shows what is left behind; more only repeat it.
* *Budget.* Three live reservations of a six-page pool leave up to four holes, enough for a
  release that closes a hole between two extents and for one that touches neither.

* *Drafting.* Within a budget of eight a sequence loses its drafts (two weak cycles), runs scalar,
  probes, and either gets them back or backs off. `ProbeInterval` is 2 instead of 64 for that
  reason, and doubles to at most 3 instead of 256. One branch stays out of reach: a second
  unprofitable success in a row, which jumps over a single draft, takes a longer sequence. A
  context of ten cuts capacities, so that fixed-width drafts meet the ceiling; a frontier of seven rows overflows and restarts. One to three drafts
  give the least width, the one above it, and one to step down from. All
  combinations of native or dSpark drafts, fixed or adaptive width, full-match bonus and physical
  padding are initial states.

`CHECK_DEADLOCK FALSE` is set for the worker (all clients served and the worker blocked in
`recv`, or stopped), for the sequence of `SpeculativeKv` (it ends), for the launch order (all ids
are used) and for the token budget (where it saves time only; `Release` is always possible). The
prefix cache and the executor are checked for deadlock: they always have a next step.

A type invariant that would be a property of its own is a conjunct of another one: `TypeOK` of
`WithinLimits`, `FrontiersFollowLedger` and `FreeListIsMerged`, `OrderTypeOK` of `TurnIsHeld`.

Every property of a passing run has a mutant in `PROJECT.json`: a plausible bug in one
definition (a bug-named operator above it, such as `SplitUnlocked` or `MergedFromNew`) under
which TLC finds the property violated.

## Fairness

* `SequenceExecutor!FairExecSpec`: weak fairness of all steps while a request is being opened or an
  allocation loop runs. Both are straight-line code of one thread; the loop holds the mutex and
  does no waiting. Fairness of the disjunction leaves open which way an opening goes, and which
  leaf is evicted. Nothing is assumed between openings: requests need not come or finish.
* `CollectiveLaunchOrder!FairSpec`: weak fairness of `Serve(h, r)`, per host and id. A request that
  is on its way arrives, its thread wakes from the condition variable at least every 20 ms and
  looks again, and a reduction that all hosts launched ends. Failures and dispatches are free.
  `CollectivesComplete` presumes that no request fails: a failed one leaves the other hosts in a
  reduction that lacks a member.
* `ServingWorker!FairSpec`: weak fairness of `Worker`, the disjunction of all steps of one OS
  thread. It is enabled exactly when that thread is not blocked in `recv`. Nothing is assumed
  of clients: they may never start, never finish, never close. Fairness of the *disjunction* is
  enough, as the thread is sequential; choices among outcomes of the engine stay free, and
  what ends a stream in spite of an engine that never says stop is `MaxOutput`.
* Direct jobs go first, one per turn of the loop, so a client that calls without end starves
  the streams. That is the loop's design; `MaxCalls` excludes it from `FittingStreamsEnd`, which
  also presumes that the sequences direct callers hold leave room for good.

## The proofs

`TargetKvRadixProofs` holds lemmas about prefixes, splits, locks, insertions and counting, one
lemma per action of the cache, and its theorems. All are proved for
arbitrary `Token`, `Texts`, `Page`, `Request`, `PageTokens`, `MaxActive` under `RadixAssumption`:
texts are sequences of tokens, pages and request handles are finite sets without `None`, a page has
at least one token, `MaxActive` is positive. `SequenceExecutorProofs` extends them by the
executor, under `ExecutorAssumption` (as many lanes as
the cache admits requests, a window of whole draft pages longer than the drafts of a pass, texts
closed under prefixes), and goes on to what the draft model's rows and the tail cache hold.
`TargetKvTreeProofs` is about the arena, under `TreeAssumption`: what `RadixAssumption` asks, and
`None` is not a reservation record either. It instantiates `TargetKvRadixProofs` for what the arena
stands for. `CollectiveLaunchOrderProofs` stands alone, under `OrderAssumption`, and so does
`ServingWorkerProofs`, under `ServingAssumption`: streams and direct callers are disjoint sets of
numbers, finite or not (sequence ids are compared), limits are positive, and a sequence fits the
engine when it is alone; the proofs do not use the last. `SpeculativeKvProofs` is under
`SpeculativeAssumption` (above) and `WidthAssumption`: at most 7 drafts, the length of the table of
costs, and probe intervals in order. `ContextTokenBudgetProofs` is under `BudgetAssumption`: the
pool is a positive number of whole pages, as `entry.rs:6871` enforces, and `None` is neither a
request nor an extent. These three rest on `QueueLemmas`: what `Ascending`, `Keep`, concatenations
and sorted sequences contain.

| theorem | states |
|---|---|
| `Invariance` | `Spec => []IInv` |
| `TypeCorrectness` | `Spec => []TypeOK` |
| `PagesArePartitioned` | `Spec => []PagePartition`: no page is lost or has two owners |
| `LocksAreCounted` | `Spec => []LocksCountReservations` |
| `SharedPagesAreSafe` | `Spec => []SharedPagesStayCached` |
| `TreeIsSound` | `Spec => [](TablesOwnedByPath /\ BranchesAreNodes)` |
| `CreditsAreCovered` | `Spec => []CreditsWithinPool` |
| `CapacityIsGuaranteed` | `Spec => []GuaranteedCapacity`: an admitted request always finds its next page |
| `TablesNamePagesOnce` | `Spec => []NoPageTwice(tree)`: no page table has a page at two places |
| `IdlePoolIsUsable` | `Spec => []IdlePoolAdmits`: what finding 3 refuses is at most the partly filled pages of the match |
| `TreeInvariance` | `Spec => []TreeInv`, of `TargetKvTree` |
| `NodesStayATree` | `Spec => []NodesFormATree`: ids, child maps, edges, lengths and deltas agree |
| `TiesStayOnOnePath` | `Spec => []TiesLieOnOnePath`: no eviction is decided by ids |
| `RefinementInvariance` | `Spec => []RefInv`: the tree's invariant with the cache's, of what the tree stands for |
| `TreeImplementsRadix` | `Spec => ImplementsRadix`: each operation on the arena is one of the prefix cache |
| `PagesAreAccounted` | `Spec => []PagesAddUp`: free, cached by the deltas' lengths, and private make up the pool |
| `AllocationSucceeds` | `Spec => []NextPageFound`: the errors of `allocate_physical_page` and `evict_one_leaf` are never returned |
| `DebugValidatePasses` | `Spec => []DebugValidate`: the assertions of `debug_validate` (`prefix_cache.rs:962-970`) hold |
| `ExecInvariance` | `ExecSpec => []EInv` |
| `ExecutorUsesRadix` | `ExecSpec => UsesRadix`: every step of the executor is one of the cache or leaves it alone |
| `ExecutorKeepsPages` | `ExecSpec => []PagePartition` |
| `ExecTypeCorrectness`, `NothingIsLeaked` | `ExecTypeOK`, `NothingOutlivesItsRequest` |
| `LanesStayApart` | `ExecSpec => []LInv`: no two states share a lane |
| `ShortagesHaveCauses` | `ExecSpec => []ShortageHasACause` |
| `DraftFollows` | in prompt-swa mode the draft cache ends where the target is while there is something to draft for, and is ahead only after a pass that failed behind its replay |
| `PublishingSucceeds`, `PublishedIsNear` | in prompt-swa mode, `PublishNeverFails` and `PublishedFrontierIsNear` |
| `AlignmentInvariance`, `AlignmentIsExact` | `ExecSpec => []AInv`, `ExecSpec => []AlignedMatchIsExact` |
| `TailInvariance` | in prompt-swa mode, `[]TInv` |
| `TailsHoldTheirPrefix`, `DraftContinuesTarget` | in prompt-swa mode, `[]TailsAreExact` and `[]DraftMeetsTarget` |
| `OrderInvariance` | unless requests are late, `Spec => []OInv` |
| `HostsLaunchInOneOrder` | unless requests are late, `Spec => []NoCrossedTurns` |
| `TurnsAreHeld` | unless requests are late, `Spec => []TurnIsHeld` |
| `WorkerInvariance` | `Spec => []WInv` |
| `LimitsHold` | `Spec => []WithinLimits` |
| `StreamsAreKept` | `Spec => []NoStreamIsForgotten` |
| `EngineIsGivenBack` | `Spec => []NothingLeaks` |
| `GoneCostOneCycle` | `Spec => GoneStreamsEnd` |
| `SpeculativeInvariance` | `Spec => []SInv` |
| `LedgersStayConsistent` | `Spec => []LedgersAgree` |
| `RequestsAreNeverRefused` | `Spec => []NeverRefused` |
| `RejectedRowsStayHidden` | `Spec => []OnlyOwnRowsVisible` |
| `CommittedIsProcessed` | `Spec => []ProcessedIsCommitted` |
| `ChainsFollowThePrefix` | `Spec => []DraftsSeeWholePrefix` |
| `FrontiersStayInStep` | `Spec => []FrontiersFollowLedger`: the device's frontiers end where the ledger's visible rows do |
| `BudgetInvariance` | `Spec => []BudgetInv` |
| `SlotsArePartitioned` | `Spec => []SlotsPartitioned` |
| `FreeListStaysMerged` | `Spec => []FreeListIsMerged` |
| `BudgetImplementsBitmap` | `Spec => ImplementsBitmap`: first fit on extents is first fit on slots |

The inductive invariant is

    IInv == TypeOK /\ PrefixTree(tree) /\ PagePartition /\ LocksCountReservations
            /\ SharedPagesStayCached /\ CreditsWithinPool /\ IdleHandles

and each conjunct is needed by another's step. A `Split` needs `ForksAreNodes` (in `PrefixTree`)
to find *one* lower end of the cut edge, and `PathOwnsTables` to know that the pages it moves up
were owned on the path. `LocksCountReservations` makes unlocking safe (no count below zero) and,
with it, an unlocked leaf is under nobody's match, so that evicting it keeps
`SharedPagesStayCached`. `Commit` needs `SharedPagesStayCached`: the pages it publishes beyond
what is cached are the reservation's private ones, because the shared ones lie within the match.
`IdleHandles` says that handles not in use hold nothing, so the sums range over all requests.

*The capacity argument.* Let a request be in an allocation loop with no free page. By
`PagePartition` every page is private or cached. If no unlocked leaf existed, every node would be
locked, since locks are inherited upwards; then all cached pages are pinned, and
`reserved + pinned <= pool` gives that private pages are as many as the credits of all requests;
but the one in the loop holds fewer pages than its credit, and none holds more: a contradiction
(lemma `NextPageExists`). Hence the exhaustion branches of the loops cannot be reached.

*An idle pool.* `TablesExtend` is a second invariant, on top of `IInv`: where one cached prefix
extends another, their tables agree in every page the shorter one fills. `Split` keeps it because the
new node's table is cut from its child's, `Commit` because the pages reused are the match's and
no node lies beyond the match. So the nodes that a match pins own, together, one page for each page
the match fills and one for each node that ends inside a page (lemma `PathPages`, counted by two
surjections). With nothing live, no credit is outstanding and no other node is locked; the promise
leaves out the pages the match fills, and what is left over is the partly filled ones.

*The tree in memory.* What is read along parents or children is a recursive function in the model:
`Path`, `PageTableOf`, `PrefixOf`, the walk of `match_prefix`. `RecursionExists` and
`HoldsEverywhere` give such a function its values and its induction from a rank that decreases
at every step, the length of a prefix; `PathIs`, `TableIs` and `PrefixIs` say that whatever answers
like one of them is it, which is how each operation's effect on all of them is found
(`SplitReads`, `GrownReads`, `PrunedReads`, `SameTreeReads`). `TreeInv` is `Shape` (what
`NodesFormATree` says, with each delta's bounds instead of whole page tables), `TiesOn`, and types.
The walk ends as far as the tree spells the text (`WalkEndsWell`), so that after the split no child
goes on as the text does (`MatchPrefixIs`): the two checks of `insert_radix_child` that a commit
could fail, on the child's place and on the number of pages, never do (`CommitFits`). A split keeps the stamp
of the node it cuts, which is why ties are not excluded but confined to one path; a leaf to be evicted
has no node below, so among those there are none. Ids, `lock` included, need no bound.

*The tree implements the cache.* `TreeImplementsRadix` is the simulation behind `ImplementsRadix`.
`PrefixOf` is one-to-one on a tree of that `Shape`, and a node is on the path to another exactly
if its prefix begins the other's; so `Named` is a function on prefixes, and what the cache says of
prefixes (longest match, evictable, under a lock) can be read from ids. Then there is one lemma per
operation (their names end in `Maps`): the split inside `match_prefix` is the cache's `Split`, stamps
and lock counts along parents are locks on all prefixes of the match, `page_delta` against the parent
is the set of pages a new node owns, and removing a leaf or a subtree is removing prefixes.
`RefInv == TreeInv /\ RadixInv /\ Bare(nodes) /\ Handles` carries it: `RadixInv` is the invariant proved of
`TargetKvRadix`, of what the arena stands for; the root has neither pages nor locks; a reservation's
terminal is a live node and its table ends with its private pages. `RadixInv` has `NoPageTwice` in it,
which the cache does not need and the arena does: the cache takes *sets* of own pages, while the code
counts the *lengths* of deltas, and `page_delta` and `split_node` cut tables by position. The two agree only
if no table names a page twice (`TablesNamePagesOnce`; `Commit` keeps it because private pages are
not cached, `Split` because it cuts one table in two). The same fact makes the code's counters right:
the lengths of disjoint sequences without repetition add up to the size of their union
(`PartsAddUp`), so `cached_pages`, `pinned_cached_pages` and the private pages of the handles are the
parts of `PagePartition`, which gives `PagesAddUp`; `debug_validate` then follows from
`CreditsWithinPool` and from each request holding no more than its credit (`HeldIsReserved`).

*The executor.* `EInv == IInv /\ OwnInv`: the cache's invariant, types, `Turns` (one request is being
opened, and its stage says so), and per request `Sound` (how text, processed tokens, budget, lane
and draft slot fit its stage) and `Backed` (it is active in the cache exactly in the stages that
have a reservation, which covers prompt and budget, matched a proper prefix of the prompt, and has
the pages of what was processed). From `Backed` each call of the cache satisfies the cache's guards,
which gives the refinement, and with it every theorem about the cache under the executor. What
the cache's own loops do to a request is only to add pages to it, so `OwnInv` passes through them.
`FInv` adds `Follows`: draft rows never end before the match nor more than one pass behind, are
exactly at the target while passes remain, and ahead of it only in stage "failed". It needs `PromptTails`; in request-local mode it is
false, which is finding 2.

*Lanes and draft slots.* `LInv` adds to `EInv` that states, recycled ones included, have lanes of
their own, and that reservations are no more than lanes. A step moves the lane of one request only
(`MovesLane`). The shortages are then counted: states map injectively to lanes, so if all lanes are
taken and no plain request has one, all of them are those of reservations, and the request that
asks, which has a reservation and no lane, would be one too many; likewise for draft slots, which
only states and the requests that lost theirs hold.

*Alignment.* `AInv` says what a request relies on between two of its own steps: while it
has dropped its match and not yet reserved again, a cached node lies below the aligned prefix and no
allocation runs; and the tail of its match is in the tail cache. Both hold as no other request moves
while one is being opened (`OpeningIsAlone`); dropping a reservation only unlocks, so the node of
the former match is still there, and a prefix with a node below is matched in full. No
hypothesis on the cache mode is needed.

*Rows.* `TInv` adds that an entry's rows end at its key (`EndsAt`) and are at least `Window - 1`, or all
there are; that keys are distinct and the rows within the capacity; and `DraftExact` for the rows of
a request, unless they are ahead of it. The bound is `Window - 1` and not `Window` because the tail of a prompt is that of all but
its last token. It is enough: a restored tail is only used when the suffix to be recomputed is
shorter than the window, and has at least one token, so that the replay of the first
pass fills the window again (`FirstReplayedExact`), unless rows were dropped in whole pages, which
happens only beyond the window (`EndsAtReplayed`). That an empty slot needs no rows is where the
alignment enters: if the suffix is short, the match has a tail or is empty. An eviction needs that
`Bulk`, the number of rows kept, is what the insertion loop bounds it by (`BulkOfKept`).

*The launch order.* `OInv` adds to `TurnIsHeld`: `Placed` (a taken request was sent to the host),
`Alone` (a connection has one request under way, the first that is not over), `Launches`,
`Ascending` (what was launched precedes all that is to come) and `Expecting` (nothing below the
expected id is to come). The step that matters is `Poll`: with a quorum, `Width` requests wait on
`Width` connections, one on each by `Alone`, so whatever is on its way stands behind a waiting
request of its connection and is above the least (lemma `QuorumFindsAll`, a counting argument);
with a gap that is over, nothing lower is on its way; else the turn goes to the expected id. So
two crossed hosts would each have launched an id below the other's.

*The worker.* `WInv` adds to the three safety properties: `JobsOnce` (no job is in two places),
`CallsAwaited` (behind each direct job there is a caller blocked on it and on nothing else, and one
who is finishing asked for nothing more) and `StreamsFresh` (a stream that may still run has a cycle
left). `CallsAwaited` is what makes `NothingLeaks` inductive: an execution creates resources for its
caller, so no execution may come after that caller's finish has been answered. The queues hold each
element once, so all but the lemmas of `QueueLemmas` argue on sets: the crowd is
the cardinality of a union, which refusal bounds and every other step, a cycle with its retries
included (lemma `CycleRuns`), only shrinks. `Keep` and `Ascending` are defined by ranks rather than
by recursion so that what they return can be proved (`Kept`, `AscendingEnumerates`).

*Decoding with drafts.* Three layers of lemmas. *The ledger*: `IndexesAgree` is restated without an
order to be constructed (`Indexed`: the list of open writes is sorted and contains the open
writes), and one lemma per operation says what it leaves open and visible (`BlockRecorded`,
`RowsRecorded`, `TentativeRecorded`, `DraftsResolved`, `RestDiscarded`). Truncation is where the
indexes could part: a write is kept or discarded as a whole, but runs are cut at a position. They
agree when no write of several positions lies across the cut, which is `Settled`. *The numbers*: any
answer of the width's adaptation is at most `MaxDrafts`; drafts behind n tokens then fit the
capacity (`CapacityIsWide`, `LimitFits`), and once the budget leaves no room for a draft it never
does again (`Exhausted`). *The cycle*: `SInv` says at each `pc` how far the target layers reach
(`TargetHas`), which rows are open, whether the pending drafts fit (`Fits`), where the MTP layer may
be cut, and, with fixed widths, that layer 78 has every row up to the first draft that was wrong
(`MtpHas` up to `Usable`). That last part takes most of the argument: between cycles it needs the previous
chain's usable rows, its acceptance, and that a cycle without drafts comes only at the start or the
end. No hypothesis is made about which drafts match.

*The frontiers.* `FInv` of `SpeculativeKvProofs` adds to `SInv` what the device caches rely on: the
width's counters are consistent (`Steady`), the target's frontier ends, at each `pc`, where the rows
written so far end (`TargetUpTo`), and the MTP layer's ends with its visible rows at every step
(`Fronts`). `MtpBelow` bounds those rows by the cycle's own drafts, so that trimming to the accepted
ones cuts frontier and ledger at the same row. `AppendEach` is a recursive function; where a chain of
`n` appends ends is proved by the least length for which it would end elsewhere (`Least`,
`AppendEachSteps`, `EachAppended`).

*The token budget.* `BudgetInv` says that the free extents are proper (aligned, in the pool) and lie
apart, each *strictly* before the next, that no slot is held twice or both held and free, that none
is lost, and that the counters agree. `JoinedKeeps` is about the merging pass over any ordered list:
its result covers the same slots and no two of its extents touch, provided none before the starting
position did. So the pass must start at the left neighbour of what was inserted, and may. Strictness is what the
refinement needs: a run of free slots lies in *one* extent (`RunsLieInExtents`), because the slot
after an extent is not free, so the first extent that fits begins the lowest free run.

What is checked by TLC only: the liveness properties (`FittingStreamsEnd`, `CallsReturnUnlessAsleep`,
`OpeningsEnd`, `CollectivesComplete`), since TLAPS does not reason about `ENABLED` and so not about
fairness. Every safety property, action property and refinement that a passing run checks is also
a theorem.

## Findings

1. **A direct call may never return** (`serving_lost_call`, `real_full.rs:846`). A direct job
   received during the admission wait (786-792) goes to `deferred_jobs`. If every sequence then
   let in ends in its first cycle, nothing is active or pending, and the loop reaches the
   blocking `recv()` without looking at `deferred_jobs`: the caller waits until some other job
   arrives. `CallsReturnUnlessAsleep` shows this is the only way a call is lost. Today's
   production callers use direct calls at startup and from guards, so the finding is latent.
2. **Request-local mode publishes too little** (`executor_local`, `entry.rs:6336`). Without
   prompt-swa, the default, the draft cache counts decode rows only, and finishing takes that count
   for the length of the common frontier. So what is published is that many tokens of the prompt,
   not, as the comment at 6339-6342 says, all but "a handful of tokens"; below the matched prefix the
   commit is refused and nothing is published. Answers are not affected, only reuse.
3. **An idle pool refuses a request that fits it** (`idle_refusal`, `prefix_cache.rs:183`). A match
   pins every partly filled page it runs through, while the request needs a page of its own in the
   place of each. The sum can exceed the pool with nothing else live; a retry matches the same
   path. `IdlePoolAdmits`, proved, bounds it: the excess is at most the partly filled pages of the match.

Met while modelling, and bounded by properties that hold:

* A stream whose client closes after the pruning at `real_full.rs:640` and before its start job is
  read runs a first cycle (a test, `tests.rs:2044`, has it pruned before); `GoneStreamsEnd` says it
  costs no more than that.
* A sequence whose pass broke keeps its draft slot until it is finished. A request opened meanwhile
  may find "shared request KV slots are exhausted", an error that does not count as retryable, and
  ends. `ShortageHasACause` says this is the only way a slot lacks.
* A pass that fails behind its draft replay leaves the draft cache ahead of the processed tokens. The
  finish call then returns an error and keeps no tail, but the pages are still published
  (`PublishNeverFails`, `TailsAreExact`).
* The second reservation of an aligned match can be refused where the first was admitted
  (`RealignRefused`); the request then goes back to the queue, holding nothing.
* Under the adaptive width, the default for MTP, scalar cycles write no row of layer 78 (`entry.rs`
  4131-4137), and the probe after them starts at the current position (4156-4162), behind a gap that
  is never filled, although the comment at 6725-6727 wants the next chain to begin "after a contiguous
  layer-78 cache prefix". Emitted tokens stay right (`OnlyOwnRowsVisible`); `DraftsSeeWholePrefix`
  shows that fixed widths leave no gap.
* With physical M=2 and a minimum of two drafts, a wide verification that stops paying can set the
  width to 1, below the minimum (`execution.rs:367-371`), from where it may grow by one draft at a
  time. Nothing depends on the minimum; `WidthOK` bounds the width by the maximum only. The instance checked has a minimum of 1.
* Hosts can cross their turns when a request is later than the reorder wait: see `Late` above.

## What is not modelled, and why

* What a batched pass computes beyond several passes of one request, and the other omissions named
  under `SequenceExecutor`.
* The access clock's wrap-around: 64 bits of cache accesses.
* Which admission errors count as retryable is decided by substrings of their text
  (`entry.rs:5217`); texts are not modelled, but which shortages there are is (`ShortageHasACause`).
* Expert route planning, graph buffers, the transport's client, tool continuations, constrained
  decoding, the layer-wave scheduler's admission: not yet, see the plan.
* Numeric kernels, draft models, sampling, file I/O, RDMA verbs, HTTP and JSON: no protocol state
  that a model checker reaches, or mostly hardware and libraries.

## Plan

Done, in this order: `TargetKvRadix`, its proofs, `TargetKvTree`, `ServingWorker`,
`ContextTokenBudget`, `SpeculativeKv` with its two parts, `SequenceExecutor` and its proofs,
`CollectiveLaunchOrder` and its proofs, the proofs about `ServingWorker`, `SpeculativeKv`,
`ContextTokenBudget` and `TargetKvTree`, up to its refinement of `TargetKvRadix`. Next,
most important first:

1. The transport's client: its pipeline, the deferred reset, and requests left pending.
2. Tool continuations; graph instance leases; layer-wave admission and prefill chunking; the
   route accumulator.
