---------------------------- MODULE MCSpeculativeKv ----------------------------
(* An instance of SpeculativeKv for TLC. *)
EXTENDS SpeculativeKv
=============================================================================
