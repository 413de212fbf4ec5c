--------------------------- MODULE MCServingWorker ---------------------------
(* Instances of ServingWorker for TLC.  Streams 3 and 4 weigh 2, as much as  *)
(* the engine holds, and fit only when they are alone; the others weigh 1.  *)
EXTENDS ServingWorker

Streams3 == 1..3
StreamsHeavy == {1, 3, 4}
Streams2 == {1, 3}
Caller   == {11}
Callers  == {11, 12}

Weights == [s \in Stream \cup Direct |-> IF s \in {3, 4} THEN 2 ELSE 1]
=============================================================================
