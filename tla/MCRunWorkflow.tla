--------------------------- MODULE MCRunWorkflow ---------------------------
(* Two callers: a worker and an API request, or two workers.               *)
EXTENDS RunWorkflow, TLC

CONSTANTS c1, c2

Approvals  == {"approve_ideation", "approve_publish"}
AllOfThem  == HitlJobs

Symmetry == Permutations(Callers)
=============================================================================
