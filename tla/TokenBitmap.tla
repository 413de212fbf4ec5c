----------------------------- MODULE TokenBitmap -----------------------------
(***************************************************************************)
(* What the context token budget promises: a range of token slots from      *)
(* which a request gets the lowest run that is long enough, or nothing.     *)
(***************************************************************************)
EXTENDS Integers, FiniteSetsExt

CONSTANTS Request, None, MaxTokens, Sizes

Slot == 0..(MaxTokens - 1)

VARIABLE owner  (* who holds each slot, or None *)

Run(b, n) == b..(b + n - 1)

FreeRuns(n) == {b \in Slot : \A t \in Run(b, n) : t \in Slot /\ owner[t] = None}

Holds(r) == \E t \in Slot : owner[t] = r

Init == owner = [t \in Slot |-> None]

Reserve(r, n) ==
  /\ ~Holds(r)
  /\ FreeRuns(n) # {}
  /\ LET b == Min(FreeRuns(n))
     IN  owner' = [t \in Slot |-> IF t \in Run(b, n) THEN r ELSE owner[t]]

Release(r) ==
  /\ Holds(r)
  /\ owner' = [t \in Slot |-> IF owner[t] = r THEN None ELSE owner[t]]

Next == \E r \in Request : (\E n \in Sizes : Reserve(r, n)) \/ Release(r)

Spec == Init /\ [][Next]_owner
=============================================================================
