-------------------------- MODULE AgentTurn_proofs --------------------------
(***************************************************************************)
(* Proofs about modules CircuitBreaker and AgentTurn, for every set of     *)
(* callers, every threshold, every half-open limit and any number of       *)
(* failures.                                                               *)
(***************************************************************************)
EXTENDS AgentTurn, TLAPS

-----------------------------------------------------------------------------
(* The breaker by itself.                                                  *)

\* What the breaker keeps has its types, to begin with ...
LEMMA BreakerTypeInit == BreakerInit => BreakerTypeOK
  <1>1. "idle" \in PCs
    BY DEF PCs
  <1>2. BreakerInit => pc \in [Callers -> PCs]
    BY <1>1 DEF BreakerInit
  <1>3. BreakerInit => crossed \in BOOLEAN
    BY Zenon DEF BreakerInit
  <1>4. BreakerInit => failureCount \in Nat /\ halfOpenCalls \in Nat
    BY DEF BreakerInit
  <1>5. BreakerInit => state \in {"closed", "open", "half_open"} /\ last \in {"none", "recent", "old"}
    BY DEF BreakerInit
  <1>. QED
    BY <1>2, <1>3, <1>4, <1>5, Zenon DEF BreakerTypeOK

\* ... and after every step.
LEMMA BreakerTypeStep == BreakerTypeOK /\ [BreakerNext]_breaker => BreakerTypeOK'
  <1>. SUFFICES ASSUME BreakerTypeOK, [BreakerNext]_breaker
                PROVE  BreakerTypeOK'
    OBVIOUS
  <1>. USE DEF BreakerTypeOK, PCs, Goes
  <1>1. ASSUME NEW c \in Callers, Enter(c)
        PROVE  BreakerTypeOK'
    BY <1>1 DEF Enter
  <1>2. ASSUME NEW c \in Callers, Peek(c)
        PROVE  BreakerTypeOK'
    BY <1>2 DEF Peek
  <1>3. ASSUME NEW c \in Callers, Inside(c)
        PROVE  BreakerTypeOK'
    <2>1. CASE Recover(c)
      BY <2>1 DEF Recover
    <2>2. CASE Peeked(c)
      BY <2>2 DEF Peeked
    <2>3. CASE Overlimit(c)
      BY <2>3 DEF Overlimit
    <2>4. CASE Stamp(c)
      BY <2>4 DEF Stamp
    <2>5. CASE Close(c)
      BY <2>5 DEF Close
    <2>6. CASE CountFailure(c)
      BY <2>6 DEF CountFailure
    <2>7. CASE Open(c)
      BY <2>7 DEF Open
    <2>. QED
      BY <1>3, <2>1, <2>2, <2>3, <2>4, <2>5, <2>6, <2>7 DEF Inside
  <1>4. ASSUME NEW c \in Callers, Succeed(c)
        PROVE  BreakerTypeOK'
    BY <1>4 DEF Succeed
  <1>5. ASSUME NEW c \in Callers, Raise(c)
        PROVE  BreakerTypeOK'
    BY <1>5 DEF Raise
  <1>6. ASSUME NEW c \in Callers, Collect(c)
        PROVE  BreakerTypeOK'
    BY <1>6 DEF Collect
  <1>7. CASE CoolDown
    BY <1>7 DEF CoolDown
  <1>8. CASE UNCHANGED breaker
    BY <1>8 DEF breaker
  <1>. QED
    BY <1>1, <1>2, <1>3, <1>4, <1>5, <1>6, <1>7, <1>8 DEF BreakerNext

\* Unless a thread has closed the circuit across another's decision to open it,
\* whoever is about to write OPEN has left a failure time, and an open circuit
\* has one or is about to get one.
StampInv ==
    \/ crossed
    \/ /\ \A c \in Callers : AboutToOpen(c) => last # "none"
       /\ (state = "open" /\ last = "none") => \E c \in Callers : pc[c] = "stamping"

\* No step but a crossing takes it away.
LEMMA StampStep == BreakerTypeOK /\ StampInv /\ [BreakerNext]_breaker => StampInv'
  <1>. SUFFICES ASSUME BreakerTypeOK, StampInv, [BreakerNext]_breaker
                PROVE  StampInv'
    OBVIOUS
  <1>t. pc \in [Callers -> PCs]
    BY DEF BreakerTypeOK
  <1>. USE DEF StampInv, AboutToOpen, Goes
  <1>1. ASSUME NEW c \in Callers, Enter(c)
        PROVE  StampInv'
    BY <1>1, <1>t DEF Enter
  <1>2. ASSUME NEW c \in Callers, Peek(c)
        PROVE  StampInv'
    BY <1>2, <1>t DEF Peek
  <1>3. ASSUME NEW c \in Callers, Inside(c)
        PROVE  StampInv'
    <2>1. CASE Recover(c)
      BY <2>1, <1>t DEF Recover
    <2>2. CASE Peeked(c)
      BY <2>2, <1>t DEF Peeked
    <2>3. CASE Overlimit(c)
      BY <2>3, <1>t DEF Overlimit
    <2>4. CASE Stamp(c)
      BY <2>4, <1>t DEF Stamp
    <2>5. CASE Close(c)
      BY <2>5, <1>t DEF Close
    <2>6. CASE CountFailure(c)
      BY <2>6, <1>t DEF CountFailure
    <2>7. CASE Open(c)
      BY <2>7, <1>t DEF Open
    <2>. QED
      BY <1>3, <2>1, <2>2, <2>3, <2>4, <2>5, <2>6, <2>7 DEF Inside
  <1>4. ASSUME NEW c \in Callers, Succeed(c)
        PROVE  StampInv'
    BY <1>4, <1>t DEF Succeed
  <1>5. ASSUME NEW c \in Callers, Raise(c)
        PROVE  StampInv'
    BY <1>5, <1>t DEF Raise
  <1>6. ASSUME NEW c \in Callers, Collect(c)
        PROVE  StampInv'
    BY <1>6, <1>t DEF Collect
  <1>7. CASE CoolDown
    BY <1>7, <1>t DEF CoolDown
  <1>8. CASE UNCHANGED breaker
    BY <1>8 DEF breaker
  <1>. QED
    BY <1>1, <1>2, <1>3, <1>4, <1>5, <1>6, <1>7, <1>8 DEF BreakerNext

\* The breaker, whatever its callers do, is stuck only after such a crossing.
THEOREM BreakerStuckNeedsCrossing == BreakerSpec => []StuckNeedsCrossing
  <1>1. BreakerInit => BreakerTypeOK /\ StampInv
    BY BreakerTypeInit DEF BreakerInit, StampInv, AboutToOpen
  <1>2. BreakerTypeOK /\ StampInv /\ [BreakerNext]_breaker => (BreakerTypeOK /\ StampInv)'
    BY BreakerTypeStep, StampStep
  <1>3. StampInv => StuckNeedsCrossing
    BY DEF StampInv, StuckNeedsCrossing, StuckOpen
  <1>. QED
    BY <1>1, <1>2, <1>3, PTL DEF BreakerSpec

-----------------------------------------------------------------------------
(* The turns.                                                              *)

\* Every step of a turn is one of the breaker's or leaves it alone.
LEMMA TurnImplements == [Next]_vars => [BreakerNext]_breaker
  <1>. SUFFICES ASSUME [Next]_vars
                PROVE  BreakerNext \/ UNCHANGED breaker
    OBVIOUS
  <1>1. ASSUME NEW c \in Callers, Begin(c)
        PROVE  UNCHANGED breaker
    BY <1>1 DEF Begin
  <1>2. ASSUME NEW c \in Callers, Health(c)
        PROVE  BreakerNext
    BY <1>2 DEF Health, BreakerNext
  <1>3. ASSUME NEW c \in Callers, Own(c)
        PROVE  BreakerNext \/ UNCHANGED breaker
    <2>1. CASE Middleware(c) \/ GuardInput(c) \/ GuardOutput(c)
      BY <2>1 DEF Middleware, GuardInput, GuardOutput, Check
    <2>2. CASE Call(c)
      BY <2>2 DEF Call, BreakerNext
    <2>3. CASE Answer(c)
      BY <2>3 DEF Answer, BreakerNext
    <2>4. CASE Breaker(c)
      BY <2>4 DEF Breaker, BreakerNext
    <2>5. CASE SessionOpens(c) \/ TurnReturns(c) \/ SessionEnds(c)
      BY <2>5 DEF SessionOpens, TurnReturns, SessionEnds, BreakerNext
    <2>. QED
      BY <1>3, <2>1, <2>2, <2>3, <2>4, <2>5 DEF Own
  <1>4. CASE Cools
    BY <1>4 DEF Cools, BreakerNext
  <1>5. CASE UNCHANGED vars
    BY <1>5 DEF vars
  <1>. QED
    BY <1>1, <1>2, <1>3, <1>4, <1>5 DEF Next

\* The turns use the breaker as its own specification allows.
THEOREM TurnsRefineBreaker == Spec => BreakerSpec
  <1>1. Init => BreakerInit
    BY DEF Init
  <1>. QED
    BY <1>1, TurnImplements, PTL DEF Spec, BreakerSpec

\* Node code and supervisor code together never leave the circuit open for good
\* but after a crossing.
THEOREM StuckOnlyAfterCrossing == Spec => []StuckNeedsCrossing
  BY TurnsRefineBreaker, BreakerStuckNeedsCrossing, PTL

\* The types of what the turns keep.
TurnTypes ==
    /\ kind \in [Callers -> Kinds]
    /\ step \in [Callers -> Steps]
    /\ cleared \in [Callers -> SUBSET {"input", "turn", "output"}]
    /\ session \in [Callers -> {"none", "open", "deleted", "leaked"}]
    /\ failures \in 0 .. MaxFailures

\* What a turn has behind it at each step, and when its session is open.
TurnInv == \A c \in Callers :
    /\ step[c] \in {"session", "turn", "cleanup", "output", "stored"} => "input" \in cleared[c]
    /\ step[c] \in {"output", "stored"} => "turn" \in cleared[c]
    /\ step[c] = "stored" /\ kind[c] = "ideator" => "output" \in cleared[c]
    /\ session[c] = "open" => step[c] \in {"turn", "cleanup"}

\* Both are kept by every step.
LEMMA TurnStep ==
    TurnAssumption /\ TurnTypes /\ TurnInv /\ [Next]_vars => TurnTypes' /\ TurnInv'
  <1>. SUFFICES ASSUME TurnAssumption, TurnTypes, TurnInv, [Next]_vars
                PROVE  TurnTypes' /\ TurnInv'
    OBVIOUS
  <1>. USE DEF TurnAssumption, TurnTypes, TurnInv, Steps, Moves, Clears
  <1>1. ASSUME NEW c \in Callers, Begin(c)
        PROVE  TurnTypes' /\ TurnInv'
    BY <1>1 DEF Begin
  <1>2. ASSUME NEW c \in Callers, Health(c)
        PROVE  TurnTypes' /\ TurnInv'
    BY <1>2 DEF Health, turns
  <1>3. ASSUME NEW c \in Callers, Own(c)
        PROVE  TurnTypes' /\ TurnInv'
    <2>1. CASE Middleware(c)
      BY <2>1 DEF Middleware, Asked, Passes, Verdicts
    <2>2. CASE GuardInput(c)
      BY <2>2 DEF GuardInput, Check, Asked, Passes, Verdicts
    <2>3. CASE GuardOutput(c)
      BY <2>3 DEF GuardOutput, Check, Asked, Passes, Verdicts
    <2>4. CASE Call(c) \/ Breaker(c)
      BY <2>4 DEF Call, Breaker, turns
    <2>5. CASE Answer(c)
      BY <2>5 DEF Answer, turns
    <2>6. CASE SessionOpens(c)
      BY <2>6 DEF SessionOpens
    <2>7. CASE TurnReturns(c)
      BY <2>7 DEF TurnReturns
    <2>8. CASE SessionEnds(c)
      <3>1. ASSUME "turn" \in cleared[c],
                   NEW to \in AfterTurn(kind[c]), Moves(c, to)
            PROVE  TurnTypes' /\ TurnInv'
        <4>1. to \in {"output", "stored", "failed"} /\ (kind[c] = "ideator" => to = "output")
          BY <3>1 DEF AfterTurn
        <4>. QED
          BY <2>8, <3>1, <4>1 DEF SessionEnds
      <3>2. CASE Moves(c, "failed")
        BY <2>8, <3>2 DEF SessionEnds
      <3>. QED
        BY <2>8, <3>1, <3>2 DEF SessionEnds
    <2>. QED
      BY <1>3, <2>1, <2>2, <2>3, <2>4, <2>5, <2>6, <2>7, <2>8 DEF Own
  <1>4. CASE Cools
    BY <1>4 DEF Cools, turns
  <1>5. CASE UNCHANGED vars
    BY <1>5 DEF vars, turns
  <1>. QED
    BY <1>1, <1>2, <1>3, <1>4, <1>5 DEF Next

\* They hold of every state of a turn, and the theorems follow.
LEMMA TurnAlways == TurnAssumption /\ Spec => [](TurnTypes /\ TurnInv)
  <1>1. TurnAssumption /\ Init => TurnTypes /\ TurnInv
    BY DEF TurnAssumption, Init, TurnTypes, TurnInv, Steps
  <1>. QED
    BY <1>1, TurnStep, TurnAssumption, PTL DEF Spec

\* Every variable of the breaker and the turns keeps its type.
THEOREM TypesKept == Spec => []TypeOK
  <1>1. BreakerSpec => []BreakerTypeOK
    BY BreakerTypeInit, BreakerTypeStep, PTL DEF BreakerSpec
  <1>2. BreakerTypeOK /\ TurnTypes => TypeOK
    BY DEF TypeOK, TurnTypes
  <1>. QED
    BY <1>1, <1>2, TurnsRefineBreaker, TurnAlways, TurnAssumption, PTL

\* No agent acts before a shield has passed its input, and no idea is stored that
\* no shield has seen.
THEOREM ShieldsHold == Spec => []ShieldedBothWays
  <1>1. TurnInv => ShieldedBothWays
    BY DEF TurnInv, ShieldedBothWays
  <1>. QED
    BY <1>1, TurnAlways, TurnAssumption, PTL

\* Whichever way a turn ends, the deletion of its session is tried before
\* anything else is done with its result.
THEOREM SessionsEnd == Spec => []NoSessionForgotten
  <1>1. TurnInv => NoSessionForgotten
    BY DEF TurnInv, NoSessionForgotten
  <1>. QED
    BY <1>1, TurnAlways, TurnAssumption, PTL

-----------------------------------------------------------------------------
(* The threshold.                                                          *)

\* Each step keeps a circuit with too many failures about to open: the count
\* grows only in CountFailure, which sends its thread on to open the circuit or
\* finds it half-open, and a circuit is closed only together with its count.
LEMMA ThresholdStep ==
    BreakerTypeOK /\ ThresholdTrips /\ [BreakerNext]_breaker => ThresholdTrips'
  <1>. SUFFICES ASSUME BreakerTypeOK, ThresholdTrips, [BreakerNext]_breaker
                PROVE  ThresholdTrips'
    OBVIOUS
  <1>t. /\ pc \in [Callers -> PCs] /\ failureCount \in Nat
        /\ FailureThreshold \in Nat \ {0}
    BY BreakerAssumption DEF BreakerTypeOK
  <1>1. ASSUME NEW c \in Callers, NEW to, pc[c] # "tripping", pc' = [pc EXCEPT ![c] = to],
               state' = "closed" => state = "closed", failureCount' = failureCount \/ failureCount' = 0
        PROVE  ThresholdTrips'
    <2>1. \A d \in Callers : pc[d] = "tripping" => pc'[d] = "tripping"
      BY <1>1, <1>t
    <2>. QED
      BY <1>1, <1>t, <2>1 DEF ThresholdTrips
  <1>2. ASSUME NEW c \in Callers, CountFailure(c)
        PROVE  ThresholdTrips'
    <2>1. (state' = "closed" /\ failureCount' >= FailureThreshold) => pc'[c] = "tripping"
      BY <1>2, <1>t DEF CountFailure, Goes
    <2>. QED
      BY <2>1 DEF ThresholdTrips
  <1>3. ASSUME NEW c \in Callers, Open(c) \/ Overlimit(c)
        PROVE  ThresholdTrips'
    BY <1>3 DEF Open, Overlimit, ThresholdTrips
  <1>4. ASSUME NEW c \in Callers, Close(c)
        PROVE  ThresholdTrips'
    BY <1>4, <1>t DEF Close, ThresholdTrips
  <1>5. ASSUME NEW c \in Callers, Recover(c) \/ Peeked(c)
        PROVE  ThresholdTrips'
    BY <1>5 DEF Recover, Peeked, ThresholdTrips
  <1>6. ASSUME NEW c \in Callers,
               Enter(c) \/ Peek(c) \/ Stamp(c) \/ Succeed(c) \/ Raise(c) \/ Collect(c)
        PROVE  ThresholdTrips'
    <2>1. pc[c] # "tripping" /\ state' = state /\ (failureCount' = failureCount \/ failureCount' = 0)
      BY <1>6 DEF Enter, Peek, Stamp, Succeed, Raise, Collect
    <2>2. \E to : pc' = [pc EXCEPT ![c] = to]
      BY <1>6 DEF Enter, Peek, Stamp, Succeed, Raise, Collect, Goes
    <2>. QED
      BY <1>1, <2>1, <2>2
  <1>7. CASE CoolDown \/ UNCHANGED breaker
    BY <1>7 DEF CoolDown, breaker, ThresholdTrips
  <1>. QED
    BY <1>2, <1>3, <1>4, <1>5, <1>6, <1>7 DEF BreakerNext, Inside

\* However the threads interleave, a breaker that has counted enough failures
\* is open, or a thread is about to open it.
THEOREM BreakerTrips == BreakerSpec => []ThresholdTrips
  <1>1. BreakerInit => BreakerTypeOK /\ ThresholdTrips
    <2>. SUFFICES ASSUME BreakerInit
                  PROVE  BreakerTypeOK /\ ThresholdTrips
      OBVIOUS
    <2>1. failureCount = 0 /\ FailureThreshold \in Nat \ {0}
      BY BreakerAssumption DEF BreakerInit
    <2>. QED
      BY <2>1, BreakerTypeInit DEF ThresholdTrips
  <1>2. BreakerTypeOK /\ ThresholdTrips /\ [BreakerNext]_breaker => (BreakerTypeOK /\ ThresholdTrips)'
    BY BreakerTypeStep, ThresholdStep
  <1>. QED
    BY <1>1, <1>2, PTL DEF BreakerSpec

\* The same of the agents' turns, which only use the breaker.
THEOREM TurnsTrip == Spec => []ThresholdTrips
  BY TurnsRefineBreaker, BreakerTrips, PTL

=============================================================================
