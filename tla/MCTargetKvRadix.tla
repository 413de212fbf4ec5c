--------------------------- MODULE MCTargetKvRadix ---------------------------
(* Instances of TargetKvRadix small enough for TLC. *)
EXTENDS TargetKvRadix, TLC

Closure(S) == UNION {Prefixes(s) : s \in S}

(* Branches at a page boundary, inside the second page and inside the first. *)
TextsLong == Closure({<<1, 1, 1, 1>>, <<1, 1, 1, 2>>, <<1, 2, 1>>})

Symmetry == Permutations(Page) \cup Permutations(Request)
=============================================================================
