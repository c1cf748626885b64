----------------------------- MODULE MCJobQueue -----------------------------
(* Small queues for JobQueue.                                              *)
EXTENDS JobQueue, TLC

CONSTANTS a, b, r1, r2, p1, p2

\* b is handed out first.
OneAfterTheOther == [j \in Job |-> IF j = a THEN 1 ELSE 2]
=============================================================================
