---------------------------- MODULE MCTargetKvTree ----------------------------
(* An instance of TargetKvTree small enough for TLC. *)
EXTENDS TargetKvTree, TLC

(* Branches inside the first page, and one text a prefix of another. *)
TextsBent == {<<>>, <<1, 1>>, <<1, 1, 1>>, <<1, 2>>}

Symmetry == Permutations(Request) \cup Permutations(Page)
=============================================================================
