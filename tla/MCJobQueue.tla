----------------------------- MODULE MCJobQueue -----------------------------
(* Two jobs, one of them a webhook job, and two worker processes: w1 with  *)
(* up to two slots sharing its worker id, w2 with one.                     *)
EXTENDS JobQueue

CONSTANTS hook, other, w1, w2, s1, s2, s3

MCWorkerOf == [s \in Slots |-> IF s = s3 THEN w2 ELSE w1]
=============================================================================
