----------------------------- MODULE AtLeastOnce -----------------------------
(***************************************************************************)
(* What the job queue promises its users (docs/explanation/scaling.md,     *)
(* "at-least-once job execution with leases and retries"), without rows,   *)
(* leases or clocks.                                                       *)
(*                                                                         *)
(* A job is submitted once.  While it is open, executors may start on it,  *)
(* several at a time and any number of times; an execution may be over     *)
(* before anything else happens.  Only the end of an execution settles it, *)
(* and it is abandoned only after so many starts.  An executor that is     *)
(* still out when its job is settled may change the verdict when it ends;  *)
(* nothing else may.                                                       *)
(***************************************************************************)
EXTENDS Naturals

CONSTANTS
    Jobs,
    Given,        \* the jobs that have been submitted to begin with
    Executors,
    Limit         \* the number of starts after which a job may be abandoned

VARIABLES
    state,        \* "absent", "open", "done" or "dead"
    executing,    \* the executors out on each job
    starts        \* the number of executions started

vars == <<state, executing, starts>>

Init ==
    /\ state = [j \in Jobs |-> IF j \in Given THEN "open" ELSE "absent"]
    /\ executing = [j \in Jobs |-> {}]
    /\ starts = [j \in Jobs |-> 0]

Submit(j) ==
    /\ state[j] = "absent"
    /\ state' = [state EXCEPT ![j] = "open"]
    /\ UNCHANGED <<executing, starts>>

Free(e) == \A j \in Jobs : e \notin executing[j]

Start(j, e) ==
    /\ state[j] = "open"
    /\ Free(e)
    /\ executing' = [executing EXCEPT ![j] = @ \cup {e}]
    /\ starts' = [starts EXCEPT ![j] = @ + 1]
    /\ UNCHANGED state

End(j, e, verdict) ==
    /\ e \in executing[j]
    /\ verdict = "dead" => starts[j] >= Limit
    /\ state' = [state EXCEPT ![j] = verdict]
    /\ executing' = [executing EXCEPT ![j] = @ \ {e}]
    /\ UNCHANGED starts

\* A start and its end at once.
Attempt(j, e, verdict) ==
    /\ state[j] = "open"
    /\ Free(e)
    /\ verdict = "dead" => starts[j] + 1 >= Limit
    /\ state' = [state EXCEPT ![j] = verdict]
    /\ starts' = [starts EXCEPT ![j] = @ + 1]
    /\ UNCHANGED executing

\* Executors vanish without a word.
Lose(E) ==
    /\ executing' = [j \in Jobs |-> executing[j] \ E]
    /\ UNCHANGED <<state, starts>>

Next ==
    \/ \E j \in Jobs : Submit(j)
    \/ \E j \in Jobs, e \in Executors :
        \/ Start(j, e)
        \/ \E verdict \in {"open", "done", "dead"} : End(j, e, verdict) \/ Attempt(j, e, verdict)
    \/ \E E \in SUBSET Executors : Lose(E)

Spec == Init /\ [][Next]_vars

=============================================================================
