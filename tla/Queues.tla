-------------------------------- MODULE Queues --------------------------------
(***************************************************************************)
(* Two operators on lists, shared by the worker's queues and the ledger of   *)
(* KV writes.  They are defined by ranks, not by recursion, so that what     *)
(* they return can be proved (QueueLemmas).                                 *)
(***************************************************************************)
EXTENDS Integers, Sequences, FiniteSets

(* The elements of a finite set of numbers, the smallest first.              *)
Ascending(S) ==
  [k \in 1..Cardinality(S) |->
     CHOOSE x \in S : Cardinality({y \in S : y <= x}) = k]

(* retain: what of the queue is in S, in the queue's order.                  *)
Keep(queue, S) ==
  LET kept == Ascending({i \in DOMAIN queue : queue[i] \in S})
  IN  [k \in DOMAIN kept |-> queue[kept[k]]]
===============================================================================
