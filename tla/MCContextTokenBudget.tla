------------------------- MODULE MCContextTokenBudget -------------------------
(* An instance of ContextTokenBudget for TLC. *)
EXTENDS ContextTokenBudget, TLC

Symmetry == Permutations(Request)
=============================================================================
