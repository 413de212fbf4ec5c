------------------------ MODULE CollectiveLaunchOrder ------------------------
(***************************************************************************)
(* The order in which the expert hosts launch their joint reductions        *)
(* (sparse_mlp/route.rs, SparkCollectiveLaunchOrder; the ids it sorts are    *)
(* reserved by the coordinator in glmrt-transport, host_batch_set.rs).      *)
(*                                                                          *)
(* A dispatch sends every host a request over the connections of a lane.    *)
(* The requests of one reduction bear one id, from a sequence of the whole   *)
(* process.  On a host a request registers its id, and before its first      *)
(* launch waits for its turn; it keeps the turn until the reduction is       *)
(* through, which takes every host.  So if two hosts give their turns to     *)
(* two reductions that each lacks the other host, both wait for good.        *)
(*                                                                          *)
(* There are two uses.  Regular: a dispatch has one request per host, its    *)
(* lane's connection; the lanes of a host share one order, and a gap in the  *)
(* ids is bridged after 20 ms.  Striped: a dispatch has one request per rail *)
(* of its lane, each lane has an order of its own (one is modelled), and a   *)
(* gap is bridged only by a request of every rail.  Either way a host has    *)
(* Width connections, and Width registered requests are a quorum.            *)
(***************************************************************************)
EXTENDS Naturals, Sequences, FiniteSets

CONSTANTS
  Host,      (* the expert hosts                                            *)
  Width,     (* execution lanes (regular) or rails of a lane (striped)      *)
  Late,      (* may a request come later than the reorder wait after one    *)
             (* with a greater id?                                          *)
  None,
  MaxIds,    (* bound: ids reserved                                         *)
  MaxDrops   (* bound: requests that fail                                   *)

ASSUME OrderAssumption ==
  /\ IsFiniteSet(Host)
  /\ Width \in Nat \ {0} /\ {MaxIds, MaxDrops} \subseteq Nat
  /\ Late \in BOOLEAN
  /\ None \notin Nat

VARIABLES
  striped,   (* which of the two uses; never changes                        *)
  sent,      (* per id reserved: its connection (0 if it never was sent)    *)
             (* and the first id of its dispatch                            *)
  open,      (* the dispatches that hold their lane, by their first id      *)
  ticket,    (* per host and id: where the request is                       *)
  launched,  (* per host: ids that have had their turn                      *)
  pending, expected, active, (* per host: SparkCollectiveLaunchOrderState   *)
  gap        (* per host: gap_wait_started is set                           *)

coordinatorVars == <<striped, sent, open>>
vars == <<coordinatorVars, ticket, launched, pending, expected, active, gap>>

Id   == 1..MaxIds
Conn == 1..Width

Init ==
  /\ striped \in BOOLEAN
  /\ sent = <<>> /\ open = {}
  /\ ticket   = [h \in Host |-> [r \in Id |-> "none"]]
  /\ launched = [h \in Host |-> {}]
  /\ pending  = [h \in Host |-> {}]
  /\ expected = [h \in Host |-> None]
  /\ active   = [h \in Host |-> None]
  /\ gap      = [h \in Host |-> FALSE]

-----------------------------------------------------------------------------
(* The coordinator *)

Reserved    == 1..Len(sent)
Dispatch(f) == {r \in Reserved : sent[r].of = f}
Busy        == {sent[r].conn : r \in {q \in Reserved : sent[q].of \in open}}

Over(h, r) == ticket[h][r] \in {"finished", "dropped"}

(* The request is on its way to the host.                                    *)
Coming(h, r) ==
  r \in Reserved /\ sent[r].conn \in Conn /\ ticket[h][r] = "none"

Send(conns) ==
  LET f == Len(sent) + 1
  IN  /\ Len(sent) + Len(conns) <= MaxIds
      /\ sent' = sent \o [i \in 1..Len(conns) |-> [conn |-> conns[i], of |-> f]]
      /\ open' = open \cup {f}
  /\ UNCHANGED <<striped, ticket, launched, pending, expected, active, gap>>

(* A dispatch takes a free lane, then reserves its ids.                      *)
SendRegular(c) == ~striped /\ c \notin Busy /\ Send(<<c>>)
SendStriped    == striped /\ Busy = {} /\ Send([i \in Conn |-> i])

(* An id goes to a dispatch of another lane's order, or to one that fails    *)
(* before it is sent.                                                        *)
Skip ==
  /\ Len(sent) < MaxIds
  /\ sent' = Append(sent, [conn |-> 0, of |-> 0])
  /\ UNCHANGED <<striped, open, ticket, launched, pending, expected, active, gap>>

(* A dispatch ends when all its responses are in, or at the first failure.   *)
Return(f) ==
  /\ f \in open
  /\ \/ \A h \in Host, r \in Dispatch(f) : Over(h, r)
     \/ \E h \in Host, r \in Dispatch(f) : ticket[h][r] = "dropped"
  /\ open' = open \ {f}
  /\ UNCHANGED <<striped, sent, ticket, launched, pending, expected, active, gap>>

-----------------------------------------------------------------------------
(* The hosts *)

SetTicket(h, r, state) == ticket' = [ticket EXCEPT ![h][r] = state]

(* A connection's requests are taken one after the other; one whose dispatch  *)
(* has failed meanwhile is taken all the same.                               *)
Register(h, r) ==
  /\ Coming(h, r)
  /\ \A q \in 1..(r - 1) : sent[q].conn = sent[r].conn => Over(h, q)
  /\ SetTicket(h, r, "waiting")
  /\ pending' = [pending EXCEPT ![h] = @ \cup {r}]
  /\ UNCHANGED <<coordinatorVars, launched, expected, active, gap>>

Drops == Cardinality({hr \in Host \X Id : ticket[hr[1]][hr[2]] = "dropped"})

(* The connection fails before the host has the request.                     *)
Lose(h, r) ==
  /\ Coming(h, r) /\ Drops < MaxDrops
  /\ SetTicket(h, r, "dropped")
  /\ UNCHANGED <<coordinatorVars, launched, pending, expected, active, gap>>

(* The reorder wait of the gap may be over.                                  *)
GapOver(h, first) ==
  /\ ~striped /\ gap[h]
  /\ Late \/ \A r \in 1..(first - 1) : ~Coming(h, r)

(* A bug: the quorum counts the caller twice.                                *)
NextExpectedOneShort(h) ==
  {e \in pending[h] \cup {expected[h]} :
     IF expected[h] \in pending[h] THEN e = expected[h]
     ELSE \/ /\ e \in pending[h] /\ \A r \in pending[h] : e <= r
             /\ Cardinality(pending[h]) + 1 >= Width \/ GapOver(h, e)
          \/ e = expected[h] /\ Cardinality(pending[h]) + 1 < Width}

(* A bug: the sequence is followed also into a gap.                          *)
NextExpectedInSequence(h) ==
  {e \in pending[h] \cup {expected[h]} :
     IF expected[h] # None THEN e = expected[h]
     ELSE \/ /\ e \in pending[h] /\ \A r \in pending[h] : e <= r
             /\ Cardinality(pending[h]) >= Width \/ GapOver(h, e)
          \/ e = expected[h] /\ Cardinality(pending[h]) < Width}

(* What a waiter may make of expected when nobody has the turn.              *)
NextExpected(h) ==
  {e \in pending[h] \cup {expected[h]} :
     IF expected[h] \in pending[h] THEN e = expected[h]
     ELSE \/ /\ e \in pending[h] /\ \A r \in pending[h] : e <= r
             /\ Cardinality(pending[h]) >= Width \/ GapOver(h, e)
          \/ e = expected[h] /\ Cardinality(pending[h]) < Width}

(* One round of wait_for_turn_inner by a waiter when nobody has the turn: it *)
(* settles which id is next, and takes the turn if that is its own.          *)
Poll(h, r) ==
  /\ ticket[h][r] = "waiting" /\ active[h] = None
  /\ \E e \in NextExpected(h) :
       /\ expected' = [expected EXCEPT ![h] = e]
       /\ gap' = [gap EXCEPT ![h] = e \notin pending[h]]
       /\ IF e = r
          THEN /\ active' = [active EXCEPT ![h] = r]
               /\ launched' = [launched EXCEPT ![h] = @ \cup {r}]
               /\ SetTicket(h, r, "turn")
          ELSE UNCHANGED <<active, launched, ticket>>
  /\ UNCHANGED <<coordinatorVars, pending>>

(* The reduction is through on every host: the turn ends, and the next id of *)
(* the sequence is expected.                                                 *)
Finish(h, r) ==
  /\ ticket[h][r] = "turn"
  /\ \A g \in Host : r \in launched[g]
  /\ active' = [active EXCEPT ![h] = None]
  /\ expected' = [expected EXCEPT ![h] = r + 1]
  /\ gap' = [gap EXCEPT ![h] = FALSE]
  /\ pending' = [pending EXCEPT ![h] = @ \ {r}]
  /\ SetTicket(h, r, "finished")
  /\ UNCHANGED <<coordinatorVars, launched>>

(* A bug: the drop of a ticket ends whatever turn there is.                  *)
DropAnyTurn(h, r) ==
  /\ ticket[h][r] \in {"waiting", "turn"} /\ Drops < MaxDrops
  /\ striped /\ ticket[h][r] = "waiting" =>
       active[h] # None \/ NextExpected(h) # {r}
  /\ pending' = [pending EXCEPT ![h] = @ \ {r}]
  /\ active' = [active EXCEPT ![h] = None]
  /\ expected' = [expected EXCEPT ![h] = IF @ = r THEN None ELSE @]
  /\ gap' = [gap EXCEPT ![h] = FALSE]
  /\ SetTicket(h, r, "dropped")
  /\ UNCHANGED <<coordinatorVars, launched>>

(* A request fails, and its ticket is dropped.  A striped one fails before    *)
(* its turn only when its quorum times out, which is looked at after the turn *)
(* has been tried.                                                            *)
Drop(h, r) ==
  /\ ticket[h][r] \in {"waiting", "turn"} /\ Drops < MaxDrops
  /\ striped /\ ticket[h][r] = "waiting" =>
       active[h] # None \/ NextExpected(h) # {r}
  /\ pending' = [pending EXCEPT ![h] = @ \ {r}]
  /\ active' = [active EXCEPT ![h] = IF @ = r THEN None ELSE @]
  /\ expected' = [expected EXCEPT ![h] = IF @ = r THEN None ELSE @]
  /\ gap' = [gap EXCEPT ![h] = FALSE]
  /\ SetTicket(h, r, "dropped")
  /\ UNCHANGED <<coordinatorVars, launched>>

Serve(h, r) == Register(h, r) \/ Poll(h, r) \/ Finish(h, r)

Next ==
  \/ \E c \in Conn : SendRegular(c)
  \/ SendStriped \/ Skip
  \/ \E f \in open : Return(f)
  \/ \E h \in Host, r \in Id : Serve(h, r) \/ Drop(h, r) \/ Lose(h, r)

Spec == Init /\ [][Next]_vars

(* The threads that serve the requests go on; a failure need not happen.     *)
FairSpec == Spec /\ \A h \in Host, r \in Id : WF_vars(Serve(h, r))

-----------------------------------------------------------------------------
(* Properties *)

(* Ids, connections and tickets are of their kinds.                          *)
OrderTypeOK ==
  /\ striped \in BOOLEAN
  /\ sent \in Seq([conn : 0..Width, of : 0..MaxIds]) /\ Len(sent) <= MaxIds
  /\ open \subseteq Reserved
  /\ ticket \in [Host -> [Id -> {"none", "waiting", "turn", "finished", "dropped"}]]
  /\ launched \in [Host -> SUBSET Id] /\ pending \in [Host -> SUBSET Id]
  /\ expected \in [Host -> 1..(MaxIds + 1) \cup {None}]
  /\ active \in [Host -> Id \cup {None}]
  /\ gap \in [Host -> BOOLEAN]

(* The order and the tickets agree: a waiting request is pending, the one    *)
(* that owns the turn is the active one, and a request is registered once.   *)
(* finish and wait_for_turn_inner fail requests that find it otherwise.      *)
TurnIsHeld ==
  /\ OrderTypeOK
  /\ \A h \in Host :
       /\ pending[h] = {r \in Id : ticket[h][r] \in {"waiting", "turn"}}
       /\ \A r \in Id : ticket[h][r] = "turn" <=> active[h] = r

(* The request has yet to have its turn on the host.                         *)
ToCome(h, r) == Coming(h, r) \/ ticket[h][r] = "waiting"

(* "NCCL requires one launch order across communicators": no two hosts give   *)
(* their turns to reductions that each wait for the other host.              *)
NoCrossedTurns ==
  \A g, h \in Host :
    \A r, s \in Id :
      active[g] = r /\ active[h] = s => ~(ToCome(g, s) /\ ToCome(h, r))

(* Unless a request fails, every reduction that was sent ends on every host, *)
(* whatever ids are skipped and in whatever order its requests come.         *)
CollectivesComplete ==
  [](\A h \in Host, r \in Id : ticket[h][r] # "dropped") =>
    \A h \in Host, r \in Id : Coming(h, r) ~> ticket[h][r] = "finished"
=============================================================================
