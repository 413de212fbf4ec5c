-------------------------- MODULE MCSequenceExecutor --------------------------
(* Instances of SequenceExecutor small enough for TLC. *)
EXTENDS SequenceExecutor, TLC

Closure(S) == UNION {Prefixes(s) : s \in S}

(* A conversation, and another that leaves it inside its first page. *)
TextsLong == Closure({<<1, 1, 1, 1, 1>>, <<1, 2>>})

TextsShort == Closure({<<1, 1, 1>>, <<1, 2>>})

Symmetry == Permutations(Page) \cup Permutations(Request)
=============================================================================
