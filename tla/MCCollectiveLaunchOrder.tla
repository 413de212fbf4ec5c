------------------------ MODULE MCCollectiveLaunchOrder ------------------------
(* Instances of CollectiveLaunchOrder for TLC: two hosts with two connections *)
(* each, and either use of the order.                                         *)
EXTENDS CollectiveLaunchOrder

Hosts2 == {"a", "b"}
=============================================================================
