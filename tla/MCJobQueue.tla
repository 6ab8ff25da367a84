------------------------------ MODULE MCJobQueue ------------------------------
(* Up to three jobs in two batches: j1 alone in b1, the others in b2.  j2  *)
(* is adaptive; the others ask for more workers than one job may have.     *)
EXTENDS JobQueue

CONSTANTS j1, j2, j3, b1, b2

Two == {j1, j2}
Three == {j1, j2, j3}
MCBatch == {BatchOf[j] : j \in Job}
MCBatchOf == [j \in Job |-> IF j = j1 THEN b1 ELSE b2]
LastAlone == [j \in Job |-> IF j = j3 THEN b2 ELSE b1]
OneBatch == [j \in Job |-> b2]
MCAdaptive == {j2}
MCRequested == [j \in Job |-> IF j = j2 THEN 1 ELSE 5]
Oldest == [j \in Job |-> CASE j = j1 -> 1 [] j = j2 -> 2 [] j = j3 -> 3]
Youngest == [j \in Job |-> CASE j = j1 -> 3 [] j = j2 -> 2 [] j = j3 -> 1]
=============================================================================
