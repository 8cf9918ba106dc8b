----------------------------- MODULE AgentTurn ------------------------------
(***************************************************************************)
(* Turns of agents at Llama Stack: the four nodes of the graph (agent_io   *)
(* and the guards of safety_cache.py) and the supervisor behind the chat   *)
(* and Telegram routes, composed with the circuit breaker their shared     *)
(* client goes through.                                                    *)
(*                                                                         *)
(* Shields are asked with the async client, past the breaker.  Nodes open  *)
(* and delete their session on the event loop, and only the turn runs in a *)
(* thread; the routes do all three in threads.  The verdicts that          *)
(* guard_*_with_cache writes into its copy of the state are not among the  *)
(* values a node returns, so every execution asks again.                   *)
(***************************************************************************)
EXTENDS CircuitBreaker

CONSTANTS
    Kinds,       \* the kinds of agents that take turns, a subset of AllKinds
    MaxFailures  \* bound: calls that Llama Stack lets fail

NodeKinds == {"ideator", "producer", "editor", "publisher"}
SupervisorKinds == {"chat", "telegram"}
AllKinds == NodeKinds \cup SupervisorKinds

ASSUME TurnAssumption == Kinds \subseteq AllKinds /\ MaxFailures \in Nat

VARIABLES
    kind,     \* whose turn each caller takes
    step,     \* where it is
    cleared,  \* what this execution has behind it: "input", "turn", "output"
    session,  \* its session at Llama Stack
    failures  \* calls that failed

turns == <<kind, step, cleared, session>>
vars == <<breaker, turns, failures>>

Steps == {"idle", "input", "session", "turn", "cleanup", "output", "stored", "failed"}

TypeOK ==
    /\ BreakerTypeOK
    /\ kind \in [Callers -> Kinds]
    /\ step \in [Callers -> Steps]
    /\ cleared \in [Callers -> SUBSET {"input", "turn", "output"}]
    /\ session \in [Callers -> {"none", "open", "deleted", "leaked"}]
    /\ failures \in 0 .. MaxFailures

Init ==
    /\ BreakerInit
    /\ kind \in [Callers -> Kinds]
    /\ step = [c \in Callers |-> "idle"]
    /\ cleared = [c \in Callers |-> {}]
    /\ session = [c \in Callers |-> "none"]
    /\ failures = 0

Moves(c, to) == step' = [step EXCEPT ![c] = to]
Clears(c, what) == cleared' = [cleared EXCEPT ![c] = @ \cup what]

\* A node is entered, or a message has reached the middleware.
Begin(c) ==
    /\ step[c] \in {"idle", "stored", "failed"} /\ pc[c] = "idle"
    /\ \E k \in Kinds : kind' = [kind EXCEPT ![c] = k]
    /\ Moves(c, "input")
    /\ cleared' = [cleared EXCEPT ![c] = {}]
    /\ session' = [session EXCEPT ![c] = "none"]
    /\ UNCHANGED <<breaker, failures>>

\* What a shield gives: an exception or a timeout is a verdict of its own.
Verdicts == {"safe", "violation", "system_error"}

\* Mutant: an unavailable shield blocks nothing.
PassesUnlessViolation(v) == v # "violation"
Passes(v) == v = "safe"

Asked(what, v) == IF v = "safe" THEN {what} ELSE {}

\* safety_shield_middleware, in front of the supervisor's routes: the shield,
\* then the keywords, in five seconds.
Middleware(c) ==
    /\ step[c] = "input" /\ kind[c] \in SupervisorKinds
    /\ \E v \in Verdicts :
        /\ Clears(c, Asked("input", v))
        /\ Moves(c, IF Passes(v) THEN "session" ELSE "failed")
    /\ UNCHANGED <<breaker, kind, session, failures>>

\* check_agent_input and check_agent_output: the caller goes on after a safe verdict.
Check(c, what, to) ==
    \E v \in Verdicts : Clears(c, Asked(what, v)) /\ Moves(c, IF Passes(v) THEN to ELSE "failed")

\* The nodes' own guards, of the text without receipts and ids.
GuardInput(c) ==
    /\ step[c] = "input" /\ kind[c] \in NodeKinds
    /\ Check(c, "input", "session")
    /\ UNCHANGED <<breaker, kind, session, failures>>

GuardOutput(c) ==
    /\ step[c] = "output"
    /\ Check(c, "output", "stored")
    /\ UNCHANGED <<breaker, kind, session, failures>>

\* Who is inside the breaker on the event loop's thread: nobody interrupts it there.
OnLoop(c) == kind[c] \in NodeKinds /\ step[c] \in {"session", "cleanup"}
LoopFree == \A d \in Callers : ~(pc[d] = "peeking" \/ (OnLoop(d) /\ pc[d] # "idle"))

\* A call through the ResilientClient: create a session, take a turn, delete
\* the session.
Call(c) ==
    /\ step[c] \in {"session", "turn", "cleanup"}
    /\ OnLoop(c) => LoopFree
    /\ Enter(c)
    /\ UNCHANGED <<turns, failures>>

Health(c) == step[c] = "idle" /\ LoopFree /\ Peek(c) /\ UNCHANGED <<turns, failures>>

\* Llama Stack answers, or the call raises.
Answer(c) ==
    \/ Succeed(c) /\ UNCHANGED <<turns, failures>>
    \/ /\ failures < MaxFailures
       /\ Raise(c)
       /\ failures' = failures + 1
       /\ UNCHANGED turns

Breaker(c) == Inside(c) /\ UNCHANGED <<turns, failures>>

Rejected(c) == pc[c] = "error"

\* agent.create_session: nothing is open yet when it raises.
SessionOpens(c) ==
    /\ step[c] = "session"
    /\ Collect(c)
    /\ Moves(c, IF Rejected(c) THEN "failed" ELSE "turn")
    /\ session' = [session EXCEPT ![c] = IF Rejected(c) THEN "none" ELSE "open"]
    /\ UNCHANGED <<kind, cleared, failures>>

\* Mutant: a turn that raises skips the cleanup of its session.
TurnReturnsUncleaned(c) ==
    /\ step[c] = "turn"
    /\ Collect(c)
    /\ \/ Moves(c, IF Rejected(c) THEN "failed" ELSE "cleanup") /\ UNCHANGED cleared
       \/ ~Rejected(c) /\ Moves(c, "turn") /\ UNCHANGED cleared
       \/ ~Rejected(c) /\ Moves(c, "cleanup") /\ Clears(c, {"turn"})
    /\ UNCHANGED <<kind, session, failures>>

\* The stream of a turn: it was refused or it breaks, and the turn raises; it
\* asks for tools, and the agent calls again with their results; it completes.
\* The breaker has seen a success as soon as the stream began.
TurnReturns(c) ==
    /\ step[c] = "turn"
    /\ Collect(c)
    /\ \/ Moves(c, "cleanup") /\ UNCHANGED cleared
       \/ ~Rejected(c) /\ Moves(c, "turn") /\ UNCHANGED cleared
       \/ ~Rejected(c) /\ Moves(c, "cleanup") /\ Clears(c, {"turn"})
    /\ UNCHANGED <<kind, session, failures>>

\* What follows a completed turn: the ideator's output is checked, that of
\* the producer and the publisher where something is left without receipts and
\* ids, the others' never; chat answers 500 without a run id.
AfterTurn(k) ==
    CASE k = "ideator" -> {"output"}
      [] k \in {"producer", "publisher"} -> {"output", "stored"}
      [] k = "chat" -> {"stored", "failed"}
      [] OTHER -> {"stored"}

\* conversations.delete, whose failure is only logged.
SessionEnds(c) ==
    /\ step[c] = "cleanup"
    /\ Collect(c)
    /\ session' = [session EXCEPT ![c] = IF Rejected(c) THEN "leaked" ELSE "deleted"]
    /\ IF "turn" \in cleared[c] THEN \E to \in AfterTurn(kind[c]) : Moves(c, to)
       ELSE Moves(c, "failed")
    /\ UNCHANGED <<kind, cleared, failures>>

Own(c) ==
    \/ Middleware(c) \/ GuardInput(c) \/ GuardOutput(c) \/ Call(c) \/ Answer(c) \/ Breaker(c)
    \/ SessionOpens(c) \/ TurnReturns(c) \/ SessionEnds(c)

Cools == CoolDown /\ UNCHANGED <<turns, failures>>

Next == (\E c \in Callers : Begin(c) \/ Health(c) \/ Own(c)) \/ Cools

Spec == Init /\ [][Next]_vars

\* Calls end, threads run and clocks advance; nobody has to send a message or
\* enter a node.  A shield may fail for ever, Llama Stack MaxFailures times.
FairSpec == Spec /\ WF_vars(Cools) /\ \A c \in Callers : WF_vars(Own(c))
-----------------------------------------------------------------------------
(* Properties.                                                             *)

\* "Safety always fails closed": an agent's turn, and with it the money its
\* tools spend, needs a shield that called the input of this execution safe,
\* and nothing is stored for the ideator that a shield has not seen.
ShieldedBothWays == \A c \in Callers :
    /\ step[c] \in {"session", "turn"} => "input" \in cleared[c]
    /\ step[c] = "stored" => {"input", "turn"} \subseteq cleared[c]
    /\ step[c] = "stored" /\ kind[c] = "ideator" => "output" \in cleared[c]

\* "Context manager for agent sessions with automatic cleanup": whichever way
\* a turn ends, deletion is tried before anything else is done with its result.
NoSessionForgotten == \A c \in Callers :
    session[c] = "open" => step[c] \in {"turn", "cleanup"}

\* "HALF_OPEN -> CLOSED: On successful call": once Llama Stack has stopped
\* failing and callers keep calling, the circuit closes for good, unless it is
\* stuck, or more calls than the half-open limit keep meeting a probe and open
\* it again each time.
CallsKeepComing == \A c \in Callers : []<>(step[c] = "session")
Recovers ==
    CallsKeepComing =>
        \/ <>[](state = "closed" \/ StuckOpen)
        \/ []<>(\E c \in Callers : pc[c] = "overlimit")

=============================================================================
