--------------------------- MODULE JobQueue_proofs ---------------------------
(***************************************************************************)
(* What module JobQueue states, for any number of jobs, workers, slots,    *)
(* attempts and faults.                                                    *)
(***************************************************************************)
EXTENDS JobQueue, FiniteSetTheorems, TLAPS

-----------------------------------------------------------------------------
(* Steps.  The writes of the repository and of Release, as equations.      *)

\* Next, with the disjuncts of Execute spelled out, is what a proof by cases
\* goes through: each of the steps below has one case for each of these.
LEMMA NextCases ==
    ASSUME Next
    PROVE  \/ \E j \in Jobs : Enqueue(j)
           \/ \E j \in Jobs : BecomeDue(j)
           \/ \E j \in Jobs : LeaseExpires(j)
           \/ \E j \in Jobs : LeaseLapses(j)
           \/ \E s \in Slots : Claim(s)
           \/ \E s \in Slots : StartJob(s)
           \/ \E s \in Slots : HandlerReturns(s)
           \/ \E s \in Slots : HandlerReschedules(s)
           \/ \E s \in Slots : HandlerRaises(s)
           \/ \E s \in Slots : JobEscapes(s)
           \/ \E s \in Slots : RecoverJob(s)
           \/ \E s \in Slots : Heartbeat(s)
           \/ \E s \in Slots : RecoverFails(s)
           \/ \E w \in Workers : Crash(w)
  BY DEF Next, Execute

-----------------------------------------------------------------------------
(* Types.                                                                  *)

\* The types of the columns of `jobs'.
RowsOK ==
    /\ status \in [Jobs -> JobStatus \cup {"absent"}]
    /\ attempts \in [Jobs -> Nat]
    /\ due \in [Jobs -> BOOLEAN]
    /\ ahead \in [Jobs -> SUBSET Jobs]
    /\ claimedBy \in [Jobs -> Workers \cup {NoWorker}]
    /\ lease \in [Jobs -> Lease]

\* mark_failed_async keeps them, whatever row it is given.
LEMMA MarkFailedType ==
    ASSUME RowsOK, NEW j, NEW n, MarkFailed(j, n)
    PROVE  RowsOK'
<1>1. due' \in [Jobs -> BOOLEAN] /\ ahead' \in [Jobs -> SUBSET Jobs]
  BY DEF RowsOK, MarkFailed, LeaveLine
<1>2. PICK x \in JobStatus : status' = [status EXCEPT ![j] = x]
  BY DEF MarkFailed, JobStatus
<1>3. status' \in [Jobs -> JobStatus \cup {"absent"}]
  BY <1>2 DEF RowsOK
<1>. QED
  BY <1>1, <1>3 DEF RowsOK, MarkFailed, Lease

\* TypeOK alone is not inductive: StartJob loads the attempts of the row its
\* slot has claimed, so a slot that is not idle must have one.
SlotsOK == \A s \in Slots : phase[s] = "idle" <=> task[s] = NoJob

\* One step keeps every variable in its type.
LEMMA TypeStep ==
    ASSUME TypeOK, SlotsOK, [Next]_vars
    PROVE  TypeOK' /\ SlotsOK'
<1>. USE QueueAssumption DEF TypeOK, SlotsOK, JobStatus, Lease, Phase
<1>1. ASSUME NEW j \in Jobs, Enqueue(j) PROVE TypeOK' /\ SlotsOK'
  BY <1>1 DEF Enqueue, JoinLine, slots
<1>2. ASSUME NEW j \in Jobs, BecomeDue(j) PROVE TypeOK' /\ SlotsOK'
  BY <1>2 DEF BecomeDue, JoinLine, slots
<1>3. ASSUME NEW j \in Jobs, LeaseExpires(j) PROVE TypeOK' /\ SlotsOK'
  BY <1>3 DEF LeaseExpires, Expire, slots
<1>4. ASSUME NEW j \in Jobs, LeaseLapses(j) PROVE TypeOK' /\ SlotsOK'
  BY <1>4 DEF LeaseLapses, Expire, slots
<1>5. ASSUME NEW s \in Slots, Claim(s) PROVE TypeOK' /\ SlotsOK'
  BY <1>5 DEF Claim
<1>6. ASSUME NEW s \in Slots, StartJob(s) PROVE TypeOK' /\ SlotsOK'
  BY <1>6 DEF StartJob, rows
<1>7. ASSUME NEW s \in Slots, HandlerReturns(s) PROVE TypeOK' /\ SlotsOK'
  BY <1>7 DEF HandlerReturns, MarkSucceeded, LeaveLine, Release
<1>8. ASSUME NEW s \in Slots, HandlerReschedules(s) PROVE TypeOK' /\ SlotsOK'
  <2>1. PICK n : MarkFailed(task[s], n)
    BY <1>8 DEF HandlerReschedules
  <2>2. RowsOK'
    BY <2>1, MarkFailedType DEF RowsOK
  <2>. QED
    BY <1>8, <2>2 DEF RowsOK, HandlerReschedules, Release
<1>9. ASSUME NEW s \in Slots, HandlerRaises(s) PROVE TypeOK' /\ SlotsOK'
  <2>1. MarkFailed(task[s], seen[s])
    BY <1>9 DEF HandlerRaises, Bury
  <2>2. RowsOK'
    BY <2>1, MarkFailedType DEF RowsOK
  <2>3. deadLetters' \in [Jobs -> Nat]
    BY <1>9 DEF HandlerRaises, Bury
  <2>. QED
    BY <1>9, <2>2, <2>3 DEF RowsOK, HandlerRaises, Bury, Release
<1>10. ASSUME NEW s \in Slots, JobEscapes(s) PROVE TypeOK' /\ SlotsOK'
  BY <1>10 DEF JobEscapes, rows
<1>11. ASSUME NEW s \in Slots, RecoverJob(s) PROVE TypeOK' /\ SlotsOK'
  <2>1. MarkFailed(task[s], attempts[task[s]])
    BY <1>11 DEF RecoverJob
  <2>2. RowsOK'
    BY <2>1, MarkFailedType DEF RowsOK
  <2>. QED
    BY <1>11, <2>2 DEF RowsOK, RecoverJob, Release
<1>12. ASSUME NEW s \in Slots, Heartbeat(s) PROVE TypeOK' /\ SlotsOK'
  BY <1>12 DEF Heartbeat, TouchLease, slots
<1>13. ASSUME NEW s \in Slots, RecoverFails(s) PROVE TypeOK' /\ SlotsOK'
  BY <1>13 DEF RecoverFails, rows, Release
<1>14. ASSUME NEW w \in Workers, Crash(w) PROVE TypeOK' /\ SlotsOK'
  BY <1>14 DEF Crash, rows
<1>15. CASE UNCHANGED vars
  BY <1>15 DEF rows, slots, vars
<1>. QED
  BY NextCases, <1>1, <1>2, <1>3, <1>4, <1>5, <1>6, <1>7, <1>8, <1>9, <1>10, <1>11, <1>12,
     <1>13, <1>14, <1>15

\* Every variable of the queue and its workers keeps its type.
THEOREM TypeCorrect == Spec => [](TypeOK /\ SlotsOK)
<1>1. Init => TypeOK /\ SlotsOK
  BY QueueAssumption DEF Init, TypeOK, SlotsOK, JobStatus, Lease, Phase
<1>2. TypeOK /\ SlotsOK /\ [Next]_vars => (TypeOK /\ SlotsOK)'
  BY TypeStep
<1>. QED
  BY <1>1, <1>2, PTL DEF Spec

-----------------------------------------------------------------------------
(* Safety.                                                                 *)

\* A slot that loaded its row has loaded no more attempts than were made.
SeenOK == \A s \in Slots : phase[s] = "handling" => seen[s] <= attempts[task[s]]

\* Until its lease has lapsed, a job that is executed is running, owned by
\* the executing worker, and leased.
Owned ==
    \A s \in Slots :
        (task[s] # NoJob /\ task[s] \notin lapsed) =>
            /\ status[task[s]] = "running"
            /\ claimedBy[task[s]] = WorkerOf[s]
            /\ lease[task[s]] = "live"

\* The inductive invariant.  Owned is what keeps OverlapNeedsLapse: a row that
\* a slot executes under a live lease is not Eligible.
Inv == NoStrandedJob /\ Owned /\ OverlapNeedsLapse /\ SeenOK /\ NoEarlyGiveUp

\* The three columns change together.
LEMMA StrandedStep ==
    ASSUME TypeOK, SlotsOK, NoStrandedJob, [Next]_vars
    PROVE  NoStrandedJob'
<1>. USE QueueAssumption DEF TypeOK, NoStrandedJob, SlotsOK
<1>1. ASSUME NEW j \in Jobs, Enqueue(j) PROVE NoStrandedJob'
  BY <1>1 DEF Enqueue, slots
<1>2. ASSUME NEW j \in Jobs, BecomeDue(j) PROVE NoStrandedJob'
  BY <1>2 DEF BecomeDue, slots
<1>3. ASSUME NEW j \in Jobs, LeaseExpires(j) PROVE NoStrandedJob'
  BY <1>3 DEF LeaseExpires, Expire, slots
<1>4. ASSUME NEW j \in Jobs, LeaseLapses(j) PROVE NoStrandedJob'
  BY <1>4 DEF LeaseLapses, Expire, slots
<1>5. ASSUME NEW s \in Slots, Claim(s) PROVE NoStrandedJob'
  BY <1>5 DEF Claim
<1>6. ASSUME NEW s \in Slots, StartJob(s) PROVE NoStrandedJob'
  BY <1>6 DEF StartJob, rows
<1>7. ASSUME NEW s \in Slots, HandlerReturns(s) PROVE NoStrandedJob'
  BY <1>7 DEF HandlerReturns, MarkSucceeded, Release
<1>8. ASSUME NEW s \in Slots, HandlerReschedules(s) PROVE NoStrandedJob'
  BY <1>8 DEF HandlerReschedules, MarkFailed, Release
<1>9. ASSUME NEW s \in Slots, HandlerRaises(s) PROVE NoStrandedJob'
  BY <1>9 DEF HandlerRaises, Bury, MarkFailed, Release
<1>10. ASSUME NEW s \in Slots, JobEscapes(s) PROVE NoStrandedJob'
  BY <1>10 DEF JobEscapes, rows
<1>11. ASSUME NEW s \in Slots, RecoverJob(s) PROVE NoStrandedJob'
  BY <1>11 DEF RecoverJob, MarkFailed, Release
<1>12. ASSUME NEW s \in Slots, Heartbeat(s) PROVE NoStrandedJob'
  BY <1>12 DEF Heartbeat, TouchLease, slots
<1>13. ASSUME NEW s \in Slots, RecoverFails(s) PROVE NoStrandedJob'
  BY <1>13 DEF RecoverFails, rows, Release
<1>14. ASSUME NEW w \in Workers, Crash(w) PROVE NoStrandedJob'
  BY <1>14 DEF Crash, rows
<1>15. CASE UNCHANGED vars
  BY <1>15 DEF rows, slots, vars
<1>. QED
  BY NextCases, <1>1, <1>2, <1>3, <1>4, <1>5, <1>6, <1>7, <1>8, <1>9, <1>10, <1>11, <1>12,
     <1>13, <1>14, <1>15

\* Nothing but a lapse takes a row away from the slot that executes it.
LEMMA OwnedStep ==
    ASSUME TypeOK, SlotsOK, Owned, OverlapNeedsLapse, [Next]_vars
    PROVE  Owned' /\ OverlapNeedsLapse'
<1>. USE QueueAssumption DEF TypeOK, SlotsOK, Owned, OverlapNeedsLapse
<1>1. ASSUME NEW j \in Jobs, Enqueue(j) PROVE Owned' /\ OverlapNeedsLapse'
  BY <1>1 DEF Enqueue, slots
<1>2. ASSUME NEW j \in Jobs, BecomeDue(j) PROVE Owned' /\ OverlapNeedsLapse'
  BY <1>2 DEF BecomeDue, slots
<1>3. ASSUME NEW j \in Jobs, LeaseExpires(j) PROVE Owned' /\ OverlapNeedsLapse'
  BY <1>3 DEF LeaseExpires, Expire, slots, Guarded
<1>4. ASSUME NEW j \in Jobs, LeaseLapses(j) PROVE Owned' /\ OverlapNeedsLapse'
  BY <1>4 DEF LeaseLapses, Expire, slots
<1>5. ASSUME NEW s \in Slots, Claim(s) PROVE Owned' /\ OverlapNeedsLapse'
  BY <1>5 DEF Claim, Eligible
<1>6. ASSUME NEW s \in Slots, StartJob(s) PROVE Owned' /\ OverlapNeedsLapse'
  BY <1>6 DEF StartJob, rows
<1>7. ASSUME NEW s \in Slots, HandlerReturns(s) PROVE Owned' /\ OverlapNeedsLapse'
  BY <1>7 DEF HandlerReturns, MarkSucceeded, Release
<1>8. ASSUME NEW s \in Slots, HandlerReschedules(s) PROVE Owned' /\ OverlapNeedsLapse'
  BY <1>8 DEF HandlerReschedules, MarkFailed, Release
<1>9. ASSUME NEW s \in Slots, HandlerRaises(s) PROVE Owned' /\ OverlapNeedsLapse'
  BY <1>9 DEF HandlerRaises, Bury, MarkFailed, Release
<1>10. ASSUME NEW s \in Slots, JobEscapes(s) PROVE Owned' /\ OverlapNeedsLapse'
  BY <1>10 DEF JobEscapes, rows
<1>11. ASSUME NEW s \in Slots, RecoverJob(s) PROVE Owned' /\ OverlapNeedsLapse'
  BY <1>11 DEF RecoverJob, MarkFailed, Release
<1>12. ASSUME NEW s \in Slots, Heartbeat(s) PROVE Owned' /\ OverlapNeedsLapse'
  BY <1>12 DEF Heartbeat, TouchLease, slots
<1>13. ASSUME NEW s \in Slots, RecoverFails(s) PROVE Owned' /\ OverlapNeedsLapse'
  BY <1>13 DEF RecoverFails, rows, Release
<1>14. ASSUME NEW w \in Workers, Crash(w) PROVE Owned' /\ OverlapNeedsLapse'
  BY <1>14 DEF Crash, rows
<1>15. CASE UNCHANGED vars
  BY <1>15 DEF rows, slots, vars
<1>. QED
  BY NextCases, <1>1, <1>2, <1>3, <1>4, <1>5, <1>6, <1>7, <1>8, <1>9, <1>10, <1>11, <1>12,
     <1>13, <1>14, <1>15

\* Attempts only grow, and no verdict is taken from more than were made.
LEMMA GiveUpStep ==
    ASSUME TypeOK, SlotsOK, SeenOK, NoEarlyGiveUp, [Next]_vars
    PROVE  SeenOK' /\ NoEarlyGiveUp'
<1>. USE QueueAssumption DEF TypeOK, SlotsOK, SeenOK, NoEarlyGiveUp, Exhausted
<1>1. ASSUME NEW j \in Jobs, Enqueue(j) PROVE SeenOK' /\ NoEarlyGiveUp'
  BY <1>1 DEF Enqueue, slots
<1>2. ASSUME NEW j \in Jobs, BecomeDue(j) PROVE SeenOK' /\ NoEarlyGiveUp'
  BY <1>2 DEF BecomeDue, slots
<1>3. ASSUME NEW j \in Jobs, LeaseExpires(j) PROVE SeenOK' /\ NoEarlyGiveUp'
  BY <1>3 DEF LeaseExpires, Expire, slots
<1>4. ASSUME NEW j \in Jobs, LeaseLapses(j) PROVE SeenOK' /\ NoEarlyGiveUp'
  BY <1>4 DEF LeaseLapses, Expire, slots
<1>5. ASSUME NEW s \in Slots, Claim(s) PROVE SeenOK' /\ NoEarlyGiveUp'
  BY <1>5 DEF Claim
<1>6. ASSUME NEW s \in Slots, StartJob(s) PROVE SeenOK' /\ NoEarlyGiveUp'
  BY <1>6 DEF StartJob, rows
<1>7. ASSUME NEW s \in Slots, HandlerReturns(s) PROVE SeenOK' /\ NoEarlyGiveUp'
  BY <1>7 DEF HandlerReturns, MarkSucceeded, Release
<1>8. ASSUME NEW s \in Slots, HandlerReschedules(s) PROVE SeenOK' /\ NoEarlyGiveUp'
  BY <1>8 DEF HandlerReschedules, MarkFailed, Release
<1>9. ASSUME NEW s \in Slots, HandlerRaises(s) PROVE SeenOK' /\ NoEarlyGiveUp'
  BY <1>9 DEF HandlerRaises, Bury, MarkFailed, Release
<1>10. ASSUME NEW s \in Slots, JobEscapes(s) PROVE SeenOK' /\ NoEarlyGiveUp'
  BY <1>10 DEF JobEscapes, rows
<1>11. ASSUME NEW s \in Slots, RecoverJob(s) PROVE SeenOK' /\ NoEarlyGiveUp'
  BY <1>11 DEF RecoverJob, MarkFailed, Release
<1>12. ASSUME NEW s \in Slots, Heartbeat(s) PROVE SeenOK' /\ NoEarlyGiveUp'
  BY <1>12 DEF Heartbeat, TouchLease, slots
<1>13. ASSUME NEW s \in Slots, RecoverFails(s) PROVE SeenOK' /\ NoEarlyGiveUp'
  BY <1>13 DEF RecoverFails, rows, Release
<1>14. ASSUME NEW w \in Workers, Crash(w) PROVE SeenOK' /\ NoEarlyGiveUp'
  BY <1>14 DEF Crash, rows
<1>15. CASE UNCHANGED vars
  BY <1>15 DEF rows, slots, vars
<1>. QED
  BY NextCases, <1>1, <1>2, <1>3, <1>4, <1>5, <1>6, <1>7, <1>8, <1>9, <1>10, <1>11, <1>12,
     <1>13, <1>14, <1>15

LEMMA Invariance == Spec => [](TypeOK /\ SlotsOK /\ Inv)
<1>1. Init => TypeOK /\ SlotsOK /\ Inv
  BY QueueAssumption
  DEF Init, TypeOK, SlotsOK, JobStatus, Lease, Phase, Inv, NoStrandedJob, Owned,
      OverlapNeedsLapse, SeenOK, NoEarlyGiveUp
<1>2. TypeOK /\ SlotsOK /\ Inv /\ [Next]_vars => (TypeOK /\ SlotsOK /\ Inv)'
  BY TypeStep, StrandedStep, OwnedStep, GiveUpStep DEF Inv
<1>. QED
  BY <1>1, <1>2, PTL DEF Spec

\* A running row has a lease to expire and an owner, and no other row has
\* either: claim_next_async can always get hold of a row that is not settled.
THEOREM NothingStranded == Spec => []NoStrandedJob
<1>1. Inv => NoStrandedJob
  BY DEF Inv
<1>. QED
  BY Invariance, <1>1, PTL

\* claim_next_async hands out a job that is being executed only after the
\* lease of an execution has lapsed under it.
THEOREM OverlapExplained == Spec => []OverlapNeedsLapse
<1>1. Inv => OverlapNeedsLapse
  BY DEF Inv
<1>. QED
  BY Invariance, <1>1, PTL

\* mark_failed_async writes "failed", and the worker a dead letter, only after
\* max_attempts attempts, stale row objects included.
THEOREM NobodyGivesUpEarly == Spec => []NoEarlyGiveUp
<1>1. Inv => NoEarlyGiveUp
  BY DEF Inv
<1>. QED
  BY Invariance, <1>1, PTL

\* The verdict on a job stays, unless its lease lapsed under a live slot.
THEOREM VerdictsStay == Spec => SettledIsFinal
<1>. DEFINE Stays == \A j \in Jobs :
                (status[j] \in Terminal /\ j \notin lapsed) => status'[j] = status[j]
<1>1. ASSUME TypeOK, SlotsOK, Inv, [Next]_vars PROVE Stays
  <2>. SUFFICES ASSUME NEW k \in Jobs, status[k] \in Terminal, k \notin lapsed
               PROVE  status'[k] = status[k]
    OBVIOUS
  <2>1. \A s \in Slots : task[s] # k
    BY <1>1, QueueAssumption DEF Inv, Owned, Terminal
  <2>. USE <1>1, <2>1 DEF TypeOK, SlotsOK, Terminal
  <2>2. ASSUME NEW j \in Jobs, Enqueue(j) PROVE status'[k] = status[k]
    BY <2>2 DEF Enqueue, slots
  <2>3. ASSUME NEW j \in Jobs, BecomeDue(j) PROVE status'[k] = status[k]
    BY <2>3 DEF BecomeDue, slots
  <2>4. ASSUME NEW j \in Jobs, LeaseExpires(j) PROVE status'[k] = status[k]
    BY <2>4 DEF LeaseExpires, Expire, slots
  <2>5. ASSUME NEW j \in Jobs, LeaseLapses(j) PROVE status'[k] = status[k]
    BY <2>5 DEF LeaseLapses, Expire, slots
  <2>6. ASSUME NEW s \in Slots, Claim(s) PROVE status'[k] = status[k]
    BY <2>6 DEF Claim, Eligible
  <2>7. ASSUME NEW s \in Slots, StartJob(s) PROVE status'[k] = status[k]
    BY <2>7 DEF StartJob, rows
  <2>8. ASSUME NEW s \in Slots, HandlerReturns(s) PROVE status'[k] = status[k]
    BY <2>8 DEF HandlerReturns, MarkSucceeded
  <2>9. ASSUME NEW s \in Slots, HandlerReschedules(s) PROVE status'[k] = status[k]
    BY <2>9 DEF HandlerReschedules, MarkFailed
  <2>10. ASSUME NEW s \in Slots, HandlerRaises(s) PROVE status'[k] = status[k]
    BY <2>10 DEF HandlerRaises, Bury, MarkFailed
  <2>11. ASSUME NEW s \in Slots, JobEscapes(s) PROVE status'[k] = status[k]
    BY <2>11 DEF JobEscapes, rows
  <2>12. ASSUME NEW s \in Slots, RecoverJob(s) PROVE status'[k] = status[k]
    BY <2>12 DEF RecoverJob, MarkFailed
  <2>13. ASSUME NEW s \in Slots, Heartbeat(s) PROVE status'[k] = status[k]
    BY <2>13 DEF Heartbeat, TouchLease, slots
  <2>14. ASSUME NEW s \in Slots, RecoverFails(s) PROVE status'[k] = status[k]
    BY <2>14 DEF RecoverFails, rows
  <2>15. ASSUME NEW w \in Workers, Crash(w) PROVE status'[k] = status[k]
    BY <2>15 DEF Crash, rows
  <2>16. CASE UNCHANGED vars
    BY <2>16 DEF rows, vars
  <2>. QED
    BY NextCases, <2>2, <2>3, <2>4, <2>5, <2>6, <2>7, <2>8, <2>9, <2>10, <2>11, <2>12,
       <2>13, <2>14, <2>15, <2>16
<1>. QED
  BY Invariance, <1>1, PTL DEF Spec, SettledIsFinal

-----------------------------------------------------------------------------
(* The queue implements AtLeastOnce.                                       *)

\* What ends an execution: the slot leaves its job, whose row gets status x.
LEMMA EndOfExecution ==
    ASSUME TypeOK, SlotsOK,
           NEW s \in Slots, task[s] # NoJob,
           NEW x \in JobStatus,
           status' = [status EXCEPT ![task[s]] = x],
           x = "failed" => attempts[task[s]] >= MaxAttempts,
           attempts' = attempts,
           task' = [task EXCEPT ![s] = NoJob]
    PROVE  Promise!Next
<1>. DEFINE j == task[s]
            verdict == IF x = "succeeded" THEN "done" ELSE IF x = "failed" THEN "dead" ELSE "open"
<1>. USE QueueAssumption DEF TypeOK, JobStatus
<1>1. j \in Jobs
  OBVIOUS
<1>2. State' = [State EXCEPT ![j] = verdict]
  BY <1>1 DEF State
<1>3. Executing' = [Executing EXCEPT ![j] = @ \ {s}]
  <2>1. ASSUME NEW k \in Jobs, NEW r \in Slots
        PROVE  task'[r] = k <=> task[r] = k /\ r # s
    BY <2>1
  <2>2. ASSUME NEW k \in Jobs
        PROVE  Executing'[k] = IF k = j THEN Executing[k] \ {s} ELSE Executing[k]
    BY <1>1, <2>1 DEF Executing
  <2>. HIDE DEF TypeOK
  <2>. QED
    BY <1>1, <2>2 DEF Executing
<1>4. s \in Executing[j]
  BY <1>1 DEF Executing
<1>5. Promise!End(j, s, verdict)
  BY <1>2, <1>3, <1>4 DEF Promise!End
<1>. QED
  BY <1>1, <1>5 DEF Promise!Next

\* mark_failed_async, told of no more attempts than were made, ends one.
LEMMA FailureEnds ==
    ASSUME TypeOK, SlotsOK,
           NEW s \in Slots, phase[s] # "idle",
           NEW n \in Nat, n <= attempts[task[s]], MarkFailed(task[s], n),
           task' = [task EXCEPT ![s] = NoJob]
    PROVE  Promise!Next
<1>. DEFINE x == IF Exhausted(n) THEN "failed" ELSE "pending"
<1>1. x \in JobStatus /\ status' = [status EXCEPT ![task[s]] = x] /\ attempts' = attempts
  BY DEF MarkFailed, JobStatus
<1>2. task[s] \in Jobs /\ attempts[task[s]] \in Nat
  BY DEF TypeOK, SlotsOK
<1>3. x = "failed" => attempts[task[s]] >= MaxAttempts
  BY <1>2, QueueAssumption DEF Exhausted
<1>. QED
  BY <1>1, <1>2, <1>3, QueueAssumption, EndOfExecution

\* Steps that change neither the openness of a job nor who executes it.
LEMMA Stutter ==
    ASSUME State' = State, Executing' = Executing, attempts' = attempts
    PROVE  UNCHANGED Promise!vars
  BY DEF Promise!vars

\* Every step of the queue is one of the promise, or none.
LEMMA PromiseStep ==
    ASSUME TypeOK, SlotsOK, Inv, [Next]_vars
    PROVE  [Promise!Next]_(Promise!vars)
<1>. USE QueueAssumption DEF TypeOK, SlotsOK
<1>1. ASSUME NEW j \in Jobs, Enqueue(j) PROVE Promise!Next
  <2>1. State' = [State EXCEPT ![j] = "open"] /\ State[j] = "absent"
    BY <1>1 DEF Enqueue, State
  <2>2. Executing' = Executing /\ attempts' = attempts
    BY <1>1 DEF Enqueue, Executing, slots
  <2>3. Promise!Submit(j)
    BY <2>1, <2>2 DEF Promise!Submit
  <2>. QED
    BY <2>3 DEF Promise!Next
<1>2. ASSUME NEW j \in Jobs, BecomeDue(j) PROVE UNCHANGED Promise!vars
  BY <1>2, Stutter DEF BecomeDue, State, Executing, slots
<1>3. ASSUME NEW j \in Jobs, LeaseExpires(j) PROVE UNCHANGED Promise!vars
  BY <1>3, Stutter DEF LeaseExpires, Expire, State, Executing, slots
<1>4. ASSUME NEW j \in Jobs, LeaseLapses(j) PROVE UNCHANGED Promise!vars
  BY <1>4, Stutter DEF LeaseLapses, Expire, State, Executing, slots
<1>5. ASSUME NEW s \in Slots, Claim(s) PROVE Promise!Next
  <2>1. PICK j \in Jobs :
            /\ Eligible(j)
            /\ status' = [status EXCEPT ![j] = "running"]
            /\ attempts' = [attempts EXCEPT ![j] = @ + 1]
            /\ task' = [task EXCEPT ![s] = j]
    BY <1>5 DEF Claim
  <2>2. State' = State /\ State[j] = "open"
    BY <2>1 DEF Eligible, State
  <2>3. \A k \in Jobs : s \notin Executing[k]
    BY <1>5 DEF Claim, Executing
  <2>4. \A k \in Jobs : Executing'[k] = IF k = j THEN Executing[k] \cup {s} ELSE Executing[k]
    BY <1>5, <2>1 DEF Claim, Executing
  <2>5. /\ Executing = [k \in Jobs |-> Executing[k]]
        /\ Executing' = [k \in Jobs |-> Executing'[k]]
    BY DEF Executing
  <2>6. Executing' = [Executing EXCEPT ![j] = @ \cup {s}]
    BY <2>4, <2>5
  <2>7. Promise!Start(j, s)
    BY <2>1, <2>2, <2>3, <2>6 DEF Promise!Start, Promise!Free
  <2>. QED
    BY <2>7 DEF Promise!Next
<1>6. ASSUME NEW s \in Slots, StartJob(s) PROVE UNCHANGED Promise!vars
  BY <1>6, Stutter DEF StartJob, State, Executing, rows
<1>7. ASSUME NEW s \in Slots, HandlerReturns(s) PROVE Promise!Next
  <2>. DEFINE x == "succeeded"
  <2>1. x \in JobStatus /\ status' = [status EXCEPT ![task[s]] = x]
    BY <1>7 DEF HandlerReturns, MarkSucceeded, JobStatus
  <2>. QED
    BY <1>7, <2>1, EndOfExecution DEF HandlerReturns, MarkSucceeded, Release
<1>8. ASSUME NEW s \in Slots, HandlerReschedules(s) PROVE Promise!Next
  <2>1. PICK n \in Nat : n <= attempts[task[s]] /\ MarkFailed(task[s], n)
    BY <1>8 DEF HandlerReschedules, Inv, SeenOK
  <2>. QED
    BY <1>8, <2>1, FailureEnds DEF HandlerReschedules, Release
<1>9. ASSUME NEW s \in Slots, HandlerRaises(s) PROVE Promise!Next
  <2>1. seen[s] <= attempts[task[s]] /\ MarkFailed(task[s], seen[s])
    BY <1>9 DEF HandlerRaises, Bury, Inv, SeenOK
  <2>. QED
    BY <1>9, <2>1, FailureEnds DEF HandlerRaises, Bury, Release
<1>10. ASSUME NEW s \in Slots, JobEscapes(s) PROVE UNCHANGED Promise!vars
  BY <1>10, Stutter DEF JobEscapes, State, Executing, rows
<1>11. ASSUME NEW s \in Slots, RecoverJob(s) PROVE Promise!Next
  <2>1. MarkFailed(task[s], attempts[task[s]]) /\ phase[s] # "idle"
    BY <1>11 DEF RecoverJob
  <2>2. attempts[task[s]] \in Nat /\ attempts[task[s]] <= attempts[task[s]]
    BY <2>1
  <2>3. task' = [task EXCEPT ![s] = NoJob]
    BY <1>11 DEF RecoverJob, Release
  <2>. QED
    BY <2>1, <2>2, <2>3, FailureEnds
<1>12. ASSUME NEW s \in Slots, Heartbeat(s) PROVE UNCHANGED Promise!vars
  BY <1>12, Stutter DEF Heartbeat, TouchLease, State, Executing, slots
<1>13. ASSUME NEW s \in Slots, RecoverFails(s) PROVE Promise!Next
  <2>1. State' = State /\ attempts' = attempts
    BY <1>13 DEF RecoverFails, State, rows
  <2>2. Executing' = [j \in Jobs |-> Executing[j] \ {s}]
    BY <1>13 DEF RecoverFails, Release, Executing
  <2>3. Promise!Lose({s})
    BY <2>1, <2>2 DEF Promise!Lose
  <2>. QED
    BY <2>3 DEF Promise!Next
<1>14. ASSUME NEW w \in Workers, Crash(w) PROVE Promise!Next
  <2>. DEFINE E == {s \in Slots : WorkerOf[s] = w}
  <2>1. State' = State /\ attempts' = attempts
    BY <1>14 DEF Crash, State, rows
  <2>2. Executing' = [j \in Jobs |-> Executing[j] \ E]
    BY <1>14 DEF Crash, Executing
  <2>3. Promise!Lose(E)
    BY <2>1, <2>2 DEF Promise!Lose
  <2>. QED
    BY <2>3 DEF Promise!Next
<1>15. CASE UNCHANGED vars
  BY <1>15, Stutter DEF State, Executing, vars, rows, slots
<1>. QED
  BY NextCases, <1>1, <1>2, <1>3, <1>4, <1>5, <1>6, <1>7, <1>8, <1>9, <1>10, <1>11, <1>12,
     <1>13, <1>14, <1>15

\* Every behaviour of the table and its workers is one the promise allows.
THEOREM QueueKeepsPromise == Spec => PromiseKept
<1>1. Init => Promise!Init
  BY QueueAssumption DEF Init, Promise!Init, State, Executing
<1>. QED
  BY Invariance, <1>1, PromiseStep, PTL DEF Spec, PromiseKept, Promise!Spec

-----------------------------------------------------------------------------
(* How often a job is started.                                             *)

\* The slots that would let a job go on which has used up its attempts: they have loaded
\* its row before it had.
Stale(j) == {s \in Slots : task[s] = j /\ phase[s] = "handling" /\ seen[s] < MaxAttempts}

\* No claim takes a job out of the hands of a slot, and any other open job may be claimed.
Held(j)      == status[j] = "running" /\ lease[j] = "live" /\ Guarded(j)
Claimable(j) == status[j] \in {"pending", "running"} /\ ~Held(j)
One(b)       == IF b THEN 1 ELSE 0

\* Each slot but the one that holds the job, and then each claim still to come of a job
\* that has used up its attempts, has a fault to answer for.
Credit(j) ==
    /\ IsFiniteSet(Executing[j])
    /\ status[j] = "absent" => attempts[j] = 0
    /\ attempts[j] < MaxAttempts => Cardinality(Executing[j]) <= faults + One(Held(j))
    /\ attempts[j] >= MaxAttempts =>
          attempts[j] + Cardinality(Stale(j)) + One(Claimable(j)) <= MaxAttempts + faults

CreditOK == \A j \in Jobs : Credit(j)

LEMMA CreditTypes ==
    ASSUME TypeOK, NEW j \in Jobs, Credit(j)
    PROVE  /\ attempts[j] \in Nat /\ faults \in Nat /\ MaxAttempts \in Nat \ {0}
           /\ Stale(j) \subseteq Executing[j] /\ IsFiniteSet(Stale(j))
           /\ Cardinality(Executing[j]) \in Nat /\ Cardinality(Stale(j)) \in Nat
           /\ Cardinality(Stale(j)) <= Cardinality(Executing[j])
<1>1. Stale(j) \subseteq Executing[j] /\ IsFiniteSet(Executing[j])
  BY DEF Stale, Executing, Credit
<1>2. IsFiniteSet(Stale(j)) /\ Cardinality(Stale(j)) <= Cardinality(Executing[j])
  BY <1>1, FS_Subset
<1>3. Cardinality(Executing[j]) \in Nat /\ Cardinality(Stale(j)) \in Nat
  BY <1>1, <1>2, FS_CardinalityType
<1>. QED
  BY <1>1, <1>2, <1>3, QueueAssumption DEF TypeOK

\* A step that starts no execution of the job, and after which nothing may claim it that
\* could not before, or that is a fault.
LEMMA CreditKept ==
    ASSUME TypeOK, NEW j \in Jobs, Credit(j), attempts'[j] = attempts[j],
           status'[j] = "absent" => status[j] = "absent",
           Executing'[j] \subseteq Executing[j],
           attempts[j] >= MaxAttempts => Stale(j)' \subseteq Stale(j),
           \/ faults' = faults + 1
           \/ faults' = faults /\ (Held(j) => Held(j)')
                               /\ (attempts[j] >= MaxAttempts /\ Claimable(j)' => Claimable(j))
    PROVE  Credit(j)'
<1>1. IsFiniteSet(Executing'[j]) /\ Cardinality(Executing'[j]) <= Cardinality(Executing[j])
      /\ Cardinality(Executing'[j]) \in Nat
  BY FS_Subset, FS_CardinalityType DEF Credit
<1>2. attempts[j] >= MaxAttempts =>
         Cardinality(Stale(j)') <= Cardinality(Stale(j)) /\ Cardinality(Stale(j)') \in Nat
  BY CreditTypes, FS_Subset, FS_CardinalityType
<1>3. /\ One(Held(j)) \in {0, 1} /\ One(Claimable(j)) \in {0, 1}
      /\ One(Held(j)') \in {0, 1} /\ One(Claimable(j)') \in {0, 1}
  BY DEF One
<1>4. faults' = faults + 1 \/
      (faults' = faults /\ One(Held(j)) <= One(Held(j)')
         /\ (attempts[j] >= MaxAttempts => One(Claimable(j)') <= One(Claimable(j))))
  BY DEF One
<1>5. attempts[j] < MaxAttempts => Cardinality(Executing'[j]) <= faults' + One(Held(j)')
  BY <1>1, <1>3, <1>4, CreditTypes DEF Credit
<1>6. attempts[j] >= MaxAttempts =>
         attempts[j] + Cardinality(Stale(j)') + One(Claimable(j)') <= MaxAttempts + faults'
  BY <1>2, <1>3, <1>4, CreditTypes DEF Credit
<1>. QED
  BY <1>1, <1>5, <1>6 DEF Credit

\* A claim of the job.
LEMMA CreditUsed ==
    ASSUME TypeOK, NEW j \in Jobs, Credit(j), NEW s \in Slots, s \notin Executing[j],
           attempts'[j] = attempts[j] + 1, faults' = faults, status'[j] # "absent",
           Executing'[j] = Executing[j] \cup {s}, Stale(j)' = Stale(j),
           Claimable(j), Held(j)'
    PROVE  Credit(j)'
<1>1. /\ IsFiniteSet(Executing'[j])
      /\ Cardinality(Executing'[j]) = Cardinality(Executing[j]) + 1
  BY FS_AddElement DEF Credit
<1>2. /\ One(Held(j)) = 0 /\ One(Claimable(j)) = 1
      /\ One(Held(j)') = 1 /\ One(Claimable(j)') = 0
  BY DEF One, Claimable
<1>3. /\ attempts[j] \in Nat /\ faults \in Nat /\ MaxAttempts \in Nat \ {0}
      /\ Cardinality(Executing[j]) \in Nat /\ Cardinality(Stale(j)) \in Nat
      /\ Cardinality(Stale(j)) <= Cardinality(Executing[j])
  BY CreditTypes
<1>4. /\ attempts[j] < MaxAttempts => Cardinality(Executing[j]) <= faults + One(Held(j))
      /\ attempts[j] >= MaxAttempts =>
            attempts[j] + Cardinality(Stale(j)) + One(Claimable(j)) <= MaxAttempts + faults
  BY DEF Credit
<1>5. /\ attempts'[j] < MaxAttempts => Cardinality(Executing'[j]) <= faults' + One(Held(j)')
      /\ attempts'[j] >= MaxAttempts =>
           attempts'[j] + Cardinality(Stale(j)') + One(Claimable(j)') <= MaxAttempts + faults'
  <2>. DEFINE n == attempts[j]  e == Cardinality(Executing[j])  t == Cardinality(Stale(j))
              h == One(Held(j))  c == One(Claimable(j))  i == One(Held(j)')  d == One(Claimable(j)')
  <2>1. n < MaxAttempts => e <= faults + h
    BY <1>4
  <2>2. n >= MaxAttempts => n + t + c <= MaxAttempts + faults
    BY <1>4
  <2>3. h = 0 /\ c = 1 /\ i = 1 /\ d = 0
    BY <1>2
  <2>4. attempts'[j] = n + 1 /\ Cardinality(Executing'[j]) = e + 1 /\ Cardinality(Stale(j)') = t
    BY <1>1
  <2>5. n \in Nat /\ e \in Nat /\ t \in Nat /\ t <= e /\ MaxAttempts \in Nat /\ faults \in Nat
    BY <1>3
  <2>. HIDE DEF n, e, t, h, c, i, d
  <2>6. n + 1 < MaxAttempts => e + 1 <= faults + i
    BY <2>1, <2>3, <2>5
  <2>7. n + 1 >= MaxAttempts => n + 1 + t + d <= MaxAttempts + faults
    BY <2>1, <2>2, <2>3, <2>5
  <2>. QED
    BY <2>4, <2>6, <2>7 DEF i, d
<1>. QED
  BY <1>1, <1>5 DEF Credit

\* The end of an execution of the job, on which only a stale slot lets go on a job that
\* has used up its attempts.
LEMMA CreditReturned ==
    ASSUME TypeOK, NEW j \in Jobs, Credit(j), NEW s \in Executing[j],
           attempts'[j] = attempts[j], faults' = faults,
           Executing'[j] = Executing[j] \ {s}, Stale(j)' = Stale(j) \ {s},
           status'[j] \in {"pending", "succeeded", "failed"},
           status'[j] = "pending" => attempts[j] < MaxAttempts \/ s \in Stale(j)
    PROVE  Credit(j)'
<1>1. /\ IsFiniteSet(Executing'[j])
      /\ Cardinality(Executing'[j]) = Cardinality(Executing[j]) - 1
  BY FS_RemoveElement DEF Credit
<1>2. Cardinality(Stale(j)') = IF s \in Stale(j) THEN Cardinality(Stale(j)) - 1
                                                 ELSE Cardinality(Stale(j))
  BY CreditTypes, FS_RemoveElement
<1>3. ~Held(j)'
  BY DEF Held
<1>4. One(Held(j)') = 0 /\ One(Held(j)) \in {0, 1} /\ One(Claimable(j)) \in {0, 1}
      /\ One(Claimable(j)') = IF status'[j] = "pending" THEN 1 ELSE 0
  BY <1>3 DEF One, Claimable
<1>5. attempts[j] < MaxAttempts => Cardinality(Executing'[j]) <= faults' + One(Held(j)')
  BY <1>1, <1>4, CreditTypes DEF Credit
<1>6. attempts[j] >= MaxAttempts =>
         attempts[j] + Cardinality(Stale(j)') + One(Claimable(j)') <= MaxAttempts + faults'
  <2>1. CASE status'[j] = "pending" /\ attempts[j] >= MaxAttempts
    <3>1. s \in Stale(j)
      BY <2>1, CreditTypes
    <3>. QED
      BY <1>2, <1>4, <2>1, <3>1, CreditTypes DEF Credit
  <2>2. CASE status'[j] # "pending"
    BY <1>2, <1>4, <2>2, CreditTypes DEF Credit
  <2>. QED
    BY <2>1, <2>2
<1>. QED
  BY <1>1, <1>5, <1>6 DEF Credit

\* What a slot leaves when it is released from a job.
LEMMA Released ==
    ASSUME TypeOK, NEW s \in Slots, Release(s), NEW j \in Jobs
    PROVE  /\ Executing'[j] = Executing[j] \ {s}
           /\ Stale(j)' = Stale(j) \ {s}
<1>. USE QueueAssumption DEF TypeOK, Release
<1>1. \A r \in Slots : task'[r] = j <=> task[r] = j /\ r # s
  OBVIOUS
<1>2. \A r \in Slots \ {s} : phase'[r] = phase[r] /\ seen'[r] = seen[r]
  OBVIOUS
<1>. HIDE DEF TypeOK, Release
<1>. QED
  BY <1>1, <1>2 DEF Executing, Stale

\* The release of another job's slot.
LEMMA OthersRelease ==
    ASSUME TypeOK, NEW s \in Slots, Release(s), NEW j \in Jobs, task[s] # j, Credit(j),
           attempts'[j] = attempts[j], status'[j] = status[j], lease'[j] = lease[j],
           claimedBy'[j] = claimedBy[j], faults' = faults
    PROVE  Credit(j)'
<1>1. Executing'[j] \subseteq Executing[j] /\ Stale(j)' \subseteq Stale(j)
  BY Released
<1>2. Guarded(j) <=> Guarded(j)'
  BY QueueAssumption DEF Guarded, Release, TypeOK
<1>3. (Held(j) => Held(j)') /\ (Claimable(j)' => Claimable(j))
  BY <1>2 DEF Held, Claimable
<1>. QED
  BY <1>1, <1>3, CreditKept

\* The end of an execution, with a verdict mark_failed_async or mark_succeeded_async gives.
LEMMA CreditEnds ==
    ASSUME TypeOK, SlotsOK, CreditOK, NEW s \in Slots, phase[s] # "idle", Release(s),
           UNCHANGED <<attempts, faults>>,
           NEW x \in {"pending", "succeeded", "failed"},
           status' = [status EXCEPT ![task[s]] = x],
           lease' = [lease EXCEPT ![task[s]] = "none"],
           claimedBy' = [claimedBy EXCEPT ![task[s]] = NoWorker],
           x = "pending" => attempts[task[s]] < MaxAttempts \/ s \in Stale(task[s])
    PROVE  CreditOK'
<1>1. PICK j \in Jobs : j = task[s]
  BY DEF TypeOK, SlotsOK
<1>2. ASSUME NEW k \in Jobs, k # j PROVE Credit(k)'
  <2>1. /\ attempts'[k] = attempts[k] /\ status'[k] = status[k] /\ lease'[k] = lease[k]
        /\ claimedBy'[k] = claimedBy[k] /\ faults' = faults
    BY <1>1, <1>2 DEF TypeOK
  <2>2. Credit(k) /\ task[s] # k
    BY <1>1, <1>2 DEF CreditOK
  <2>. QED
    BY <2>1, <2>2, OthersRelease
<1>3. Credit(j)'
  <2>1. s \in Executing[j] /\ Credit(j)
    BY <1>1 DEF Executing, CreditOK
  <2>2. attempts'[j] = attempts[j] /\ status'[j] = x /\ faults' = faults
    BY <1>1 DEF TypeOK
  <2>3. Executing'[j] = Executing[j] \ {s} /\ Stale(j)' = Stale(j) \ {s}
    BY Released
  <2>4. x = "pending" => attempts[j] < MaxAttempts \/ s \in Stale(j)
    BY <1>1
  <2>. QED
    BY <2>1, <2>2, <2>3, <2>4, CreditReturned
<1>. QED
  BY <1>2, <1>3 DEF CreditOK

LEMMA FailureCredit ==
    ASSUME TypeOK, SlotsOK, CreditOK, NEW s \in Slots, phase[s] # "idle", Release(s), faults' = faults,
           NEW n \in Nat, MarkFailed(task[s], n),
           n = attempts[task[s]] \/ (phase[s] = "handling" /\ n = seen[s])
    PROVE  CreditOK'
<1>. DEFINE x == IF Exhausted(n) THEN "failed" ELSE "pending"
<1>1. task[s] \in Jobs /\ attempts[task[s]] \in Nat
  BY DEF TypeOK, SlotsOK
<1>2. x = "pending" => attempts[task[s]] < MaxAttempts \/ s \in Stale(task[s])
  BY <1>1, QueueAssumption DEF Exhausted, Stale
<1>3. /\ x \in {"pending", "succeeded", "failed"} /\ attempts' = attempts
      /\ status' = [status EXCEPT ![task[s]] = x]
      /\ lease' = [lease EXCEPT ![task[s]] = "none"]
      /\ claimedBy' = [claimedBy EXCEPT ![task[s]] = NoWorker]
  BY DEF MarkFailed
<1>. HIDE DEF x
<1>. QED
  BY <1>2, <1>3, CreditEnds

LEMMA ClaimCredit ==
    ASSUME TypeOK, SlotsOK, NoStrandedJob, CreditOK, NEW s \in Slots, Claim(s)
    PROVE  CreditOK'
<1>. USE QueueAssumption
<1>1. PICK j \in Jobs :
         /\ Eligible(j)
         /\ status' = [status EXCEPT ![j] = "running"]
         /\ claimedBy' = [claimedBy EXCEPT ![j] = WorkerOf[s]]
         /\ lease' = [lease EXCEPT ![j] = "live"]
         /\ attempts' = [attempts EXCEPT ![j] = @ + 1]
         /\ task' = [task EXCEPT ![s] = j]
  BY DEF Claim
<1>2. task[s] = NoJob /\ phase' = [phase EXCEPT ![s] = "claimed"] /\ UNCHANGED <<seen, faults>>
      /\ phase[s] = "idle"
  BY DEF Claim, SlotsOK
<1>3. ASSUME NEW k \in Jobs
      PROVE  /\ Stale(k)' = Stale(k)
             /\ Executing'[k] = IF k = j THEN Executing[k] \cup {s} ELSE Executing[k]
             /\ s \notin Executing[k]
  <2>1. \A r \in Slots \ {s} : task'[r] = task[r] /\ phase'[r] = phase[r]
    BY <1>1, <1>2 DEF TypeOK
  <2>2. task'[s] = j /\ phase'[s] = "claimed"
    BY <1>1, <1>2 DEF TypeOK
  <2>. QED
    BY <1>2, <2>1, <2>2 DEF Stale, Executing
<1>4. ASSUME NEW k \in Jobs, k # j PROVE Credit(k)'
  <2>1. /\ attempts'[k] = attempts[k] /\ status'[k] = status[k] /\ lease'[k] = lease[k]
        /\ claimedBy'[k] = claimedBy[k]
    BY <1>1, <1>4 DEF TypeOK
  <2>2. Guarded(k) <=> Guarded(k)'
    BY <1>1, <1>2, <1>4, <2>1 DEF Guarded, TypeOK
  <2>3. (Held(k) => Held(k)') /\ (Claimable(k)' => Claimable(k))
    BY <2>1, <2>2 DEF Held, Claimable
  <2>4. Credit(k)
    BY DEF CreditOK
  <2>5. Executing'[k] \subseteq Executing[k] /\ Stale(k)' \subseteq Stale(k) /\ faults' = faults
    BY <1>2, <1>3, <1>4
  <2>. QED
    BY <2>1, <2>3, <2>4, <2>5, CreditKept
<1>5. Credit(j)'
  <2>1. Claimable(j)
    BY <1>1 DEF Eligible, Claimable, Held
  <2>2. Held(j)'
    BY <1>1 DEF Held, Guarded, TypeOK
  <2>3. attempts'[j] = attempts[j] + 1 /\ status'[j] # "absent" /\ Credit(j) /\ faults' = faults
    BY <1>1, <1>2 DEF TypeOK, CreditOK
  <2>4. s \notin Executing[j] /\ Executing'[j] = Executing[j] \cup {s} /\ Stale(j)' = Stale(j)
    BY <1>3
  <2>. QED
    BY <2>1, <2>2, <2>3, <2>4, CreditUsed
<1>. QED
  BY <1>4, <1>5 DEF CreditOK

LEMMA CreditStep ==
    ASSUME TypeOK, SlotsOK, NoStrandedJob, CreditOK, [Next]_vars
    PROVE  CreditOK'
<1>. USE QueueAssumption
<1>a. ASSUME NEW k \in Jobs, attempts'[k] = attempts[k], status'[k] = status[k], task' = task,
             faults' = faults, \A s \in Slots : phase'[s] = "handling" => phase[s] = "handling",
             seen' = seen, claimedBy'[k] = claimedBy[k],
             lease'[k] = lease[k] \/ lease'[k] = "live" \/ ~Guarded(k)
      PROVE  Credit(k)'
  <2>1. Guarded(k) <=> Guarded(k)'
    BY <1>a DEF Guarded
  <2>2. (Held(k) => Held(k)') /\ (Claimable(k)' => Claimable(k))
    BY <1>a, <2>1 DEF Held, Claimable
  <2>3. Executing'[k] \subseteq Executing[k] /\ Stale(k)' \subseteq Stale(k) /\ Credit(k)
    BY <1>a DEF Executing, Stale, CreditOK
  <2>. QED
    BY <1>a, <2>2, <2>3, CreditKept
<1>f. ASSUME NEW k \in Jobs, attempts'[k] = attempts[k], status'[k] = status[k], faults' = faults + 1,
             \A s \in Slots : \/ task'[s] = task[s] /\ phase'[s] = phase[s] /\ seen'[s] = seen[s]
                              \/ task'[s] = NoJob
      PROVE  Credit(k)'
  <2>1. Executing'[k] \subseteq Executing[k] /\ Stale(k)' \subseteq Stale(k) /\ Credit(k)
    BY <1>f DEF Executing, Stale, CreditOK
  <2>. QED
    BY <1>f, <2>1, CreditKept
<1>1. ASSUME NEW j \in Jobs, Enqueue(j) PROVE CreditOK'
  <2>1. ASSUME NEW k \in Jobs, k # j PROVE Credit(k)'
    BY <1>1, <1>a, <2>1 DEF Enqueue, slots, TypeOK
  <2>2. Credit(j)'
    <3>1. Credit(j) /\ attempts'[j] = attempts[j] /\ attempts[j] < MaxAttempts /\ status'[j] = "pending"
      BY <1>1 DEF Enqueue, CreditOK, Credit, TypeOK
    <3>2. ~Held(j) /\ faults' = faults /\ attempts[j] \in Nat /\ Executing'[j] \subseteq Executing[j]
      BY <1>1 DEF Enqueue, Held, slots, Executing, TypeOK
    <3>3. ~(attempts[j] >= MaxAttempts)
      BY <3>1, <3>2
    <3>. QED
      BY <3>1, <3>2, <3>3, CreditKept
  <2>. QED
    BY <2>1, <2>2 DEF CreditOK
<1>2. ASSUME NEW j \in Jobs, BecomeDue(j) PROVE CreditOK'
  <2>1. UNCHANGED <<attempts, status, task, faults, phase, seen, claimedBy, lease>>
    BY <1>2 DEF BecomeDue, slots
  <2>. QED
    BY <1>a, <2>1 DEF CreditOK
<1>3. ASSUME NEW j \in Jobs, LeaseExpires(j) PROVE CreditOK'
  <2>1. /\ UNCHANGED <<attempts, status, task, faults, phase, seen, claimedBy>>
        /\ \A k \in Jobs : lease'[k] = lease[k] \/ ~Guarded(k)
    BY <1>3 DEF LeaseExpires, Expire, slots, TypeOK
  <2>. QED
    BY <1>a, <2>1 DEF CreditOK
<1>4. ASSUME NEW j \in Jobs, LeaseLapses(j) PROVE CreditOK'
  BY <1>4, <1>f DEF LeaseLapses, Expire, slots, CreditOK
<1>5. ASSUME NEW s \in Slots, Claim(s) PROVE CreditOK'
  BY <1>5, ClaimCredit
<1>6. ASSUME NEW s \in Slots, StartJob(s) PROVE CreditOK'
  <2>1. /\ UNCHANGED <<status, attempts, claimedBy, lease, task, faults>>
        /\ \A r \in Slots \ {s} : phase'[r] = phase[r] /\ seen'[r] = seen[r]
        /\ seen'[s] = attempts[task[s]]
    BY <1>6 DEF StartJob, rows, TypeOK
  <2>2. ASSUME NEW k \in Jobs PROVE Credit(k)'
    <3>1. Guarded(k) <=> Guarded(k)'
      BY <2>1 DEF Guarded
    <3>2. (Held(k) => Held(k)') /\ (Claimable(k)' => Claimable(k))
      BY <2>1, <3>1 DEF Held, Claimable
    <3>3. attempts[k] \in Nat
      BY DEF TypeOK
    <3>4. attempts[k] >= MaxAttempts => Stale(k)' \subseteq Stale(k)
      <4>1. ASSUME NEW r \in Stale(k)', attempts[k] >= MaxAttempts PROVE r \in Stale(k)
        <5>1. r \in Slots /\ task[r] = k /\ phase'[r] = "handling" /\ seen'[r] < MaxAttempts
          BY <2>1, <4>1 DEF Stale
        <5>2. r # s
          BY <2>1, <3>3, <4>1, <5>1
        <5>. QED
          BY <2>1, <5>1, <5>2 DEF Stale
      <4>. QED
        BY <4>1
    <3>5. Executing'[k] \subseteq Executing[k] /\ Credit(k)
      BY <2>1 DEF Executing, CreditOK
    <3>. QED
      BY <2>1, <3>2, <3>4, <3>5, CreditKept
  <2>. QED
    BY <2>2 DEF CreditOK
<1>7. ASSUME NEW s \in Slots, HandlerReturns(s) PROVE CreditOK'
  BY <1>7, CreditEnds DEF HandlerReturns, MarkSucceeded
<1>8. ASSUME NEW s \in Slots, HandlerReschedules(s) \/ HandlerRaises(s) \/ RecoverJob(s) PROVE CreditOK'
  <2>1. phase[s] # "idle" /\ Release(s) /\ faults' = faults
    BY <1>8 DEF HandlerReschedules, HandlerRaises, RecoverJob
  <2>2. PICK n \in {seen[s], attempts[task[s]]} :
           MarkFailed(task[s], n) /\ (n = attempts[task[s]] \/ (phase[s] = "handling" /\ n = seen[s]))
    BY <1>8 DEF HandlerReschedules, HandlerRaises, RecoverJob
  <2>3. n \in Nat
    BY <2>1 DEF TypeOK, SlotsOK
  <2>. QED
    BY <2>1, <2>2, <2>3, FailureCredit
<1>9. ASSUME NEW s \in Slots, JobEscapes(s) PROVE CreditOK'
  <2>1. /\ UNCHANGED <<attempts, status, task, faults, seen, claimedBy, lease>>
        /\ \A r \in Slots : phase'[r] = "handling" => phase[r] = "handling"
    BY <1>9 DEF JobEscapes, rows, TypeOK
  <2>. QED
    BY <1>a, <2>1 DEF CreditOK
<1>10. ASSUME NEW s \in Slots, Heartbeat(s) PROVE CreditOK'
  <2>1. /\ UNCHANGED <<attempts, status, task, faults, phase, seen, claimedBy>>
        /\ \A k \in Jobs : lease'[k] = lease[k] \/ lease'[k] = "live"
    BY <1>10 DEF Heartbeat, TouchLease, slots, TypeOK
  <2>. QED
    BY <1>a, <2>1 DEF CreditOK
<1>11. ASSUME NEW s \in Slots, RecoverFails(s) PROVE CreditOK'
  <2>1. UNCHANGED <<attempts, status>> /\ faults' = faults + 1
    BY <1>11 DEF RecoverFails, rows
  <2>2. \A r \in Slots : \/ task'[r] = task[r] /\ phase'[r] = phase[r] /\ seen'[r] = seen[r]
                         \/ task'[r] = NoJob
    BY <1>11 DEF RecoverFails, Release, TypeOK
  <2>. QED
    BY <1>f, <2>1, <2>2 DEF CreditOK
<1>12. ASSUME NEW w \in Workers, Crash(w) PROVE CreditOK'
  <2>1. UNCHANGED <<attempts, status>> /\ faults' = faults + 1
    BY <1>12 DEF Crash, rows
  <2>2. \A r \in Slots : \/ task'[r] = task[r] /\ phase'[r] = phase[r] /\ seen'[r] = seen[r]
                         \/ task'[r] = NoJob
    BY <1>12 DEF Crash
  <2>. QED
    BY <1>f, <2>1, <2>2 DEF CreditOK
<1>13. CASE UNCHANGED vars
  BY <1>13, <1>a DEF rows, slots, vars, CreditOK
<1>. QED
  BY NextCases, <1>1, <1>2, <1>3, <1>4, <1>5, <1>6, <1>7, <1>8, <1>9, <1>10, <1>11, <1>12, <1>13

\* Each lapsed lease, crash and failed recovery costs a job at most one execution beyond
\* its max_attempts.
THEOREM StartsBounded == Spec => []StartsAreBounded
<1>1. Init => CreditOK
  <2>. SUFFICES ASSUME Init, NEW j \in Jobs PROVE Credit(j)
    BY DEF CreditOK
  <2>1. Executing[j] = {} /\ attempts[j] = 0 /\ faults = 0 /\ status[j] = "absent"
    BY QueueAssumption DEF Init, Executing
  <2>2. One(Held(j)) \in {0, 1} /\ IsFiniteSet({}) /\ Cardinality({}) = 0
    BY FS_EmptySet DEF One
  <2>. QED
    BY <2>1, <2>2, QueueAssumption DEF Credit
<1>2. TypeOK /\ SlotsOK /\ Inv /\ CreditOK /\ [Next]_vars => CreditOK'
  BY CreditStep DEF Inv
<1>3. TypeOK /\ CreditOK => StartsAreBounded
  <2>. SUFFICES ASSUME TypeOK, NEW j \in Jobs, Credit(j) PROVE attempts[j] <= MaxAttempts + faults
    BY DEF CreditOK, StartsAreBounded
  <2>1. One(Claimable(j)) \in {0, 1}
    BY DEF One
  <2>. QED
    BY <2>1, CreditTypes DEF Credit
<1>. QED
  BY Invariance, <1>1, <1>2, <1>3, PTL DEF Spec

==============================================================================
