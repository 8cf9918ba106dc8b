--------------------------- MODULE CircuitBreaker ---------------------------
(***************************************************************************)
(* The circuit breaker of resilience/circuit_breaker.py, shared by all     *)
(* threads that call Llama Stack through ResilientClient: the nodes run    *)
(* their agents in worker threads, and /health reads the state.            *)
(*                                                                         *)
(* A thread may be preempted where the code calls out: in the wrapped      *)
(* call, and in the log and clock calls that stand between the decision to *)
(* change the state and the change.  Each such place is a value of pc.     *)
(* _success_count is 0 wherever a thread may be preempted.                 *)
(***************************************************************************)
EXTENDS Naturals, FiniteSets

CONSTANTS
    Callers,          \* the threads
    FailureThreshold, \* circuit_breaker_failure_threshold
    HalfOpenMaxCalls  \* half_open_max_calls

ASSUME BreakerAssumption ==
    /\ FailureThreshold \in Nat \ {0}
    /\ HalfOpenMaxCalls \in Nat \ {0}

VARIABLES
    state,         \* _state
    failureCount,  \* _failure_count
    last,          \* _last_failure_time: "none", or compared with recovery_timeout
    halfOpenCalls, \* _half_open_calls
    pc,            \* where each thread is in call()
    crossed        \* history: CLOSED was written while another thread was about to write OPEN

breaker == <<state, failureCount, last, halfOpenCalls, pc, crossed>>

\* "recovering" and "peeking" are about to write HALF_OPEN, "overlimit",
\* "tripping" and "relapsing" OPEN, "closing" CLOSED; "stamping" has written
\* OPEN and not yet the time.  "ok" and "error" is what call() returns.
PCs == {"idle", "recovering", "peeking", "overlimit", "stamping", "running", "raised",
        "tripping", "relapsing", "closing", "ok", "error"}

BreakerTypeOK ==
    /\ state \in {"closed", "open", "half_open"}
    /\ failureCount \in Nat
    /\ last \in {"none", "recent", "old"}
    /\ halfOpenCalls \in Nat
    /\ pc \in [Callers -> PCs]
    /\ crossed \in BOOLEAN

BreakerInit ==
    /\ state = "closed"
    /\ failureCount = 0
    /\ last = "none"
    /\ halfOpenCalls = 0
    /\ pc = [c \in Callers |-> "idle"]
    /\ crossed = FALSE

Goes(c, to) == pc' = [pc EXCEPT ![c] = to]

\* The state property finds that the recovery timeout has passed.
Recovered == state = "open" /\ last = "old"

\* call() looks at the state: it fails fast, goes on to recover, or admits
\* the call; half-open it counts what it admits.
Enter(c) ==
    /\ pc[c] = "idle"
    /\ \/ Recovered /\ Goes(c, "recovering") /\ UNCHANGED halfOpenCalls
       \/ state = "open" /\ ~Recovered /\ Goes(c, "error") /\ UNCHANGED halfOpenCalls
       \/ state = "closed" /\ Goes(c, "running") /\ UNCHANGED halfOpenCalls
       \/ /\ state = "half_open"
          /\ IF halfOpenCalls >= HalfOpenMaxCalls
               THEN Goes(c, "overlimit") /\ UNCHANGED halfOpenCalls
               ELSE Goes(c, "running") /\ halfOpenCalls' = halfOpenCalls + 1
    /\ UNCHANGED <<state, failureCount, last, crossed>>

\* OPEN -> HALF_OPEN, and the call is the first of the new period.
Recover(c) ==
    /\ pc[c] = "recovering"
    /\ state' = "half_open"
    /\ halfOpenCalls' = 1
    /\ Goes(c, "running")
    /\ UNCHANGED <<failureCount, last, crossed>>

\* /health and /health/full read the state property, which may change it.
Peek(c)  == /\ pc[c] = "idle" /\ Recovered
            /\ Goes(c, "peeking")
            /\ UNCHANGED <<state, failureCount, last, halfOpenCalls, crossed>>
Peeked(c) ==
    /\ pc[c] = "peeking"
    /\ state' = "half_open"
    /\ halfOpenCalls' = 0
    /\ Goes(c, "idle")
    /\ UNCHANGED <<failureCount, last, crossed>>

\* Too many half-open calls: the circuit opens again, the call is rejected.
Overlimit(c) ==
    /\ pc[c] = "overlimit"
    /\ state' = "open"
    /\ Goes(c, "stamping")
    /\ UNCHANGED <<failureCount, last, halfOpenCalls, crossed>>
Stamp(c) ==
    /\ pc[c] = "stamping"
    /\ last' = "recent"
    /\ Goes(c, "error")
    /\ UNCHANGED <<state, failureCount, halfOpenCalls, crossed>>

\* Mutant: a half-open success frees its place and closes nothing.
SucceedFreesPlace(c) ==
    /\ pc[c] = "running"
    /\ Goes(c, "ok")
    /\ failureCount' = 0
    /\ halfOpenCalls' = IF state = "half_open" THEN 0 ELSE halfOpenCalls
    /\ UNCHANGED <<state, last, crossed>>

\* The wrapped call returns.  _on_success: half-open it closes the circuit,
\* otherwise it resets the failure count, of an open circuit too.
Succeed(c) ==
    /\ pc[c] = "running"
    /\ IF state = "half_open"
         THEN Goes(c, "closing") /\ UNCHANGED failureCount
         ELSE Goes(c, "ok") /\ failureCount' = 0
    /\ UNCHANGED <<state, last, halfOpenCalls, crossed>>

AboutToOpen(c) == pc[c] \in {"tripping", "relapsing"}

Close(c) ==
    /\ pc[c] = "closing"
    /\ state' = "closed"
    /\ failureCount' = 0
    /\ last' = "none"
    /\ halfOpenCalls' = 0
    /\ Goes(c, "ok")
    /\ crossed' = (crossed \/ \E d \in Callers : AboutToOpen(d))

\* Mutant: the time is taken only when the circuit opens from HALF_OPEN.
CountFailureUnstamped(c) ==
    /\ pc[c] = "raised"
    /\ failureCount' = failureCount + 1
    /\ last' = IF state = "half_open" THEN "recent" ELSE last
    /\ Goes(c, IF state = "half_open" THEN "relapsing"
               ELSE IF failureCount' >= FailureThreshold THEN "tripping" ELSE "error")
    /\ UNCHANGED <<state, halfOpenCalls, crossed>>

\* _on_failure up to its log call: the failure is counted and timed in every
\* state, so a late one postpones the recovery of an open circuit.
CountFailure(c) ==
    /\ pc[c] = "raised"
    /\ failureCount' = failureCount + 1
    /\ last' = "recent"
    /\ Goes(c, IF state = "half_open" THEN "relapsing"
               ELSE IF failureCount' >= FailureThreshold THEN "tripping" ELSE "error")
    /\ UNCHANGED <<state, halfOpenCalls, crossed>>

\* Mutant: a failing half-open call gives back one place instead of all.
OpenFreesPlace(c) ==
    /\ AboutToOpen(c)
    /\ state' = "open"
    /\ halfOpenCalls' = IF pc[c] = "relapsing" THEN halfOpenCalls - 1 ELSE halfOpenCalls
    /\ Goes(c, "error")
    /\ UNCHANGED <<failureCount, last, crossed>>

Open(c) ==
    /\ AboutToOpen(c)
    /\ state' = "open"
    /\ halfOpenCalls' = IF pc[c] = "relapsing" THEN 0 ELSE halfOpenCalls
    /\ Goes(c, "error")
    /\ UNCHANGED <<failureCount, last, crossed>>

\* The wrapped call raises.
Raise(c) ==
    /\ pc[c] = "running"
    /\ Goes(c, "raised")
    /\ UNCHANGED <<state, failureCount, last, halfOpenCalls, crossed>>

\* The caller has the result.
Collect(c) ==
    /\ pc[c] \in {"ok", "error"}
    /\ Goes(c, "idle")
    /\ UNCHANGED <<state, failureCount, last, halfOpenCalls, crossed>>

\* recovery_timeout seconds have passed since the last failure.
CoolDown ==
    /\ last = "recent"
    /\ last' = "old"
    /\ UNCHANGED <<state, failureCount, halfOpenCalls, pc, crossed>>

\* The steps of call() that leave the wrapped call and its result alone.
Inside(c) ==
    Recover(c) \/ Peeked(c) \/ Overlimit(c) \/ Stamp(c) \/ Close(c) \/ CountFailure(c) \/ Open(c)

BreakerNext ==
    \/ \E c \in Callers :
        Enter(c) \/ Peek(c) \/ Inside(c) \/ Succeed(c) \/ Raise(c) \/ Collect(c)
    \/ CoolDown

BreakerSpec == BreakerInit /\ [][BreakerNext]_breaker
-----------------------------------------------------------------------------
(* Properties.                                                             *)

\* An open circuit without a failure time, or a thread about to write one,
\* never recovers: the state property leaves it alone, every call is rejected.
StuckOpen == state = "open" /\ last = "none" /\ \A c \in Callers : pc[c] # "stamping"

\* "OPEN -> HALF_OPEN: After recovery_timeout seconds": the circuit is open for
\* good only if one thread closed it between another's counting of a failure
\* and its writing of OPEN.  Late endings, overlapping recoveries, the budget
\* of half-open calls and health checks alone never do that.
StuckNeedsCrossing == StuckOpen => crossed

\* "CLOSED -> OPEN: After failure_threshold consecutive failures": a circuit that has
\* counted its failures is closed no longer than the thread that counted the last
\* one takes to open it, whatever the other threads count, close or reset meanwhile.
ThresholdTrips ==
    (state = "closed" /\ failureCount >= FailureThreshold) => \E c \in Callers : pc[c] = "tripping"

=============================================================================
