------------------------------ MODULE RunBudget ------------------------------
(***************************************************************************)
(* The budget of new runs (max_runs_last_24h and daily_cost_budget_usd),   *)
(* without routes, rows or clocks: a request counts the runs of the last   *)
(* 24 hours, awaits something else, and only then creates its run.         *)
(* Nothing is reserved in between, so requests in flight may overdraw the  *)
(* budget, and some doors never ask for it.                                *)
(***************************************************************************)
EXTENDS Naturals, FiniteSets

CONSTANTS
    Requests,     \* the requests that can be in flight at once
    MaxRuns       \* the runs either limit allows in 24 hours, the smaller one

\* What is assumed of the constants; 0 as a limit means none in the code and
\* is not meant here.
BudgetAssumption ==
    /\ IsFiniteSet(Requests)
    /\ Requests # {}
    /\ MaxRuns \in Nat

VARIABLES
    counted,      \* runs of the last 24 hours whose request asked for the budget
    exempt,       \* runs of the last 24 hours whose request did not
    passed        \* requests that passed the check and have not created a run

vars == <<counted, exempt, passed>>

Init ==
    /\ counted = 0
    /\ exempt = 0
    /\ passed = {}

Pass(q) ==
    /\ counted + exempt < MaxRuns
    /\ passed' = passed \cup {q}
    /\ UNCHANGED <<counted, exempt>>

Create(q) ==
    /\ q \in passed
    /\ passed' = passed \ {q}
    /\ counted' = counted + 1
    /\ UNCHANGED exempt

CreateExempt ==
    /\ exempt' = exempt + 1
    /\ UNCHANGED <<counted, passed>>

\* Requests are refused later on (the shield), fail or are lost.
Withdraw(Q) ==
    /\ passed' = passed \ Q
    /\ UNCHANGED <<counted, exempt>>

\* Runs leave the window.
Age ==
    /\ counted' \in 0..counted
    /\ exempt' \in 0..exempt
    /\ UNCHANGED passed

Next ==
    \/ \E q \in Requests : Pass(q) \/ Create(q)
    \/ \E Q \in SUBSET Requests : Withdraw(Q)
    \/ CreateExempt \/ Age

Spec == Init /\ [][Next]_vars
-----------------------------------------------------------------------------

TypeOK ==
    /\ counted \in Nat
    /\ exempt \in Nat
    /\ passed \in SUBSET Requests

\* The two limits are not exact, but the excess is bounded by the requests in
\* flight: of n requests at once, at most n - 1 get a run that start_run of
\* either router should have refused.
OverdraftBounded ==
    counted + Cardinality(passed) + 1 <= MaxRuns + Cardinality(Requests)

=============================================================================
