------------------------------ MODULE JobQueue ------------------------------
(***************************************************************************)
(* The Postgres-backed job queue: the rows of the `jobs' table             *)
(* (JobRepository, storage/repositories.py) and the worker processes that  *)
(* claim and execute them (workers/worker.py).                             *)
(*                                                                         *)
(* A job is identified with its (job_type, idempotency_key) pair: the      *)
(* unique index makes a second enqueue of the same pair fail without any   *)
(* change to the table.  A slot is one unit of a worker's concurrency      *)
(* semaphore, and every slot of a process shares that process's worker_id. *)
(*                                                                         *)
(* Clocks are abstracted to what the queries compare them with: a row is   *)
(* due or not (available_at <= now), its lease is absent, live or expired  *)
(* (lease_expires_at <= now), and `ahead' keeps the order of available_at  *)
(* that ORDER BY uses.                                                     *)
(***************************************************************************)
EXTENDS Naturals

CONSTANTS
    Jobs,         \* the (job_type, idempotency_key) pairs producers use
    Webhooks,     \* the jobs whose type starts with "webhook."
    Workers,      \* worker ids (host:pid, or settings.worker_id)
    Slots,        \* units of concurrency, over all processes
    WorkerOf,     \* the process each slot belongs to
    MaxAttempts,  \* max_attempts of a row
    MaxFaults,    \* bound: lapsed leases, crashes and failed recoveries
    NoJob,        \* an idle slot
    NoWorker      \* claimed_by IS NULL

ASSUME QueueAssumption ==
    /\ Webhooks \subseteq Jobs
    /\ WorkerOf \in [Slots -> Workers]
    /\ MaxAttempts \in Nat \ {0}
    /\ MaxFaults \in Nat
    /\ NoJob \notin Jobs
    /\ NoWorker \notin Workers

VARIABLES
    status,       \* jobs.status, "absent" before the insert
    attempts,     \* jobs.attempts
    due,          \* available_at <= now, for a row that can still run
    ahead,        \* the due rows with an earlier available_at
    claimedBy,    \* jobs.claimed_by
    lease,        \* jobs.lease_expires_at against the clock
    task,         \* the job each slot executes
    phase,        \* where _run_claimed stands in each slot
    seen,         \* attempts as the slot's session loaded it
    deadLetters,  \* dead_letters rows written for each job
    lapsed,       \* history: jobs whose lease expired under a live slot
    faults        \* number of faults injected so far

rows  == <<status, attempts, due, ahead, claimedBy, lease>>
slots == <<task, phase, seen>>
vars  == <<rows, slots, deadLetters, lapsed, faults>>

JobStatus == {"pending", "running", "succeeded", "failed"}
Terminal  == {"succeeded", "failed"}
Lease     == {"none", "live", "expired"}
Phase     == {"idle", "claimed", "handling", "recovering"}

TypeOK ==
    /\ status \in [Jobs -> JobStatus \cup {"absent"}]
    /\ attempts \in [Jobs -> Nat]
    /\ due \in [Jobs -> BOOLEAN]
    /\ ahead \in [Jobs -> SUBSET Jobs]
    /\ claimedBy \in [Jobs -> Workers \cup {NoWorker}]
    /\ lease \in [Jobs -> Lease]
    /\ task \in [Slots -> Jobs \cup {NoJob}]
    /\ phase \in [Slots -> Phase]
    /\ seen \in [Slots -> Nat]
    /\ deadLetters \in [Jobs -> Nat]
    /\ lapsed \in SUBSET Jobs
    /\ faults \in Nat

Init ==
    /\ status = [j \in Jobs |-> "absent"]
    /\ attempts = [j \in Jobs |-> 0]
    /\ due = [j \in Jobs |-> FALSE]
    /\ ahead = [j \in Jobs |-> {}]
    /\ claimedBy = [j \in Jobs |-> NoWorker]
    /\ lease = [j \in Jobs |-> "none"]
    /\ task = [s \in Slots |-> NoJob]
    /\ phase = [s \in Slots |-> "idle"]
    /\ seen = [s \in Slots |-> 0]
    /\ deadLetters = [j \in Jobs |-> 0]
    /\ lapsed = {}
    /\ faults = 0

-----------------------------------------------------------------------------
(* The order of available_at.                                              *)

JoinLine(j) ==
    /\ due' = [due EXCEPT ![j] = TRUE]
    /\ ahead' = [ahead EXCEPT ![j] = {k \in Jobs : due[k]}]

LeaveLine(j) ==
    /\ due' = [due EXCEPT ![j] = FALSE]
    /\ ahead' = [k \in Jobs |-> IF k = j THEN {} ELSE ahead[k] \ {j}]

(* The operations of JobRepository.                                        *)

\* Mutant: a second insert of the pair starts the row afresh.
EnqueueUpserts(j) ==
    /\ status[j] # "running"
    /\ status' = [status EXCEPT ![j] = "pending"]
    /\ JoinLine(j)
    /\ UNCHANGED <<attempts, claimedBy, lease, slots, deadLetters, lapsed, faults>>

\* enqueue_async, with available_at = now as every caller has it.  A second
\* insert of the same pair raises job_already_enqueued: no step at all.
Enqueue(j) ==
    /\ status[j] = "absent"
    /\ status' = [status EXCEPT ![j] = "pending"]
    /\ JoinLine(j)
    /\ UNCHANGED <<attempts, claimedBy, lease, slots, deadLetters, lapsed, faults>>

\* Mutants: the claim query does not look at the lease of a running row, or
\* does not select running rows at all.
EligibleUnderLease(j) ==
    \/ status[j] = "pending" /\ due[j] /\ lease[j] # "live"
    \/ status[j] = "running"

EligiblePendingOnly(j) == status[j] = "pending" /\ due[j] /\ lease[j] # "live"

\* The WHERE clause of claim_next_async.
Eligible(j) ==
    \/ status[j] = "pending" /\ due[j] /\ lease[j] # "live"
    \/ status[j] = "running" /\ lease[j] = "expired"

\* FOR UPDATE SKIP LOCKED passes over a row another transaction holds: only
\* the transactions of a slot still executing that job lock it.
MayBeLocked(j) == \E s \in Slots : task[s] = j

\* claim_next_async, run by an idle slot.
Claim(s) ==
    /\ phase[s] = "idle"
    /\ \E j \in Jobs :
        /\ Eligible(j)
        /\ \A k \in ahead[j] : Eligible(k) => MayBeLocked(k)
        /\ status' = [status EXCEPT ![j] = "running"]
        /\ claimedBy' = [claimedBy EXCEPT ![j] = WorkerOf[s]]
        /\ lease' = [lease EXCEPT ![j] = "live"]
        /\ attempts' = [attempts EXCEPT ![j] = @ + 1]
        /\ task' = [task EXCEPT ![s] = j]
    /\ phase' = [phase EXCEPT ![s] = "claimed"]
    /\ UNCHANGED <<due, ahead, seen, deadLetters, lapsed, faults>>

\* Mutant: the row gets a status that JobStatus does not list.
MarkDone(j) ==
    /\ status' = [status EXCEPT ![j] = "done"]
    /\ lease' = [lease EXCEPT ![j] = "none"]
    /\ claimedBy' = [claimedBy EXCEPT ![j] = NoWorker]
    /\ LeaveLine(j)
    /\ UNCHANGED attempts

\* mark_succeeded_async: by id only, whoever holds the claim.
MarkSucceeded(j) ==
    /\ status' = [status EXCEPT ![j] = "succeeded"]
    /\ lease' = [lease EXCEPT ![j] = "none"]
    /\ claimedBy' = [claimedBy EXCEPT ![j] = NoWorker]
    /\ LeaveLine(j)
    /\ UNCHANGED attempts

\* Mutant: the last attempt is not made.
ExhaustedEarly(n) == n + 1 >= MaxAttempts

\* mark_failed_async, when the row object it reads shows n attempts.
Exhausted(n) == n >= MaxAttempts

\* Mutant: the lease is kept.
MarkFailedUnderLease(j, n) ==
    /\ status' = [status EXCEPT ![j] = IF Exhausted(n) THEN "failed" ELSE "pending"]
    /\ claimedBy' = [claimedBy EXCEPT ![j] = NoWorker]
    /\ LeaveLine(j)
    /\ UNCHANGED <<attempts, lease>>

MarkFailed(j, n) ==
    /\ status' = [status EXCEPT ![j] = IF Exhausted(n) THEN "failed" ELSE "pending"]
    /\ lease' = [lease EXCEPT ![j] = "none"]
    /\ claimedBy' = [claimedBy EXCEPT ![j] = NoWorker]
    /\ LeaveLine(j)
    /\ UNCHANGED attempts

-----------------------------------------------------------------------------
(* The worker: _process_one_job inside _run_claimed.                       *)

Release(s) ==
    /\ task' = [task EXCEPT ![s] = NoJob]
    /\ phase' = [phase EXCEPT ![s] = "idle"]
    /\ seen' = [seen EXCEPT ![s] = 0]

\* A new session loads the row and the handler starts.
StartJob(s) ==
    /\ phase[s] = "claimed"
    /\ phase' = [phase EXCEPT ![s] = "handling"]
    /\ seen' = [seen EXCEPT ![s] = attempts[task[s]]]
    /\ UNCHANGED <<rows, task, deadLetters, lapsed, faults>>

\* touch_lease_async: the row must be running and claimed by the worker's id.
TouchLease(j, w) ==
    /\ status[j] = "running"
    /\ claimedBy[j] = w
    /\ lease' = [lease EXCEPT ![j] = "live"]

\* One turn of _lease_heartbeat that finds the lease expired.
Heartbeat(s) ==
    /\ phase[s] = "handling"
    /\ lease[task[s]] = "expired"
    /\ TouchLease(task[s], WorkerOf[s])
    /\ UNCHANGED <<status, attempts, due, ahead, claimedBy, slots, deadLetters, lapsed, faults>>

\* The handler returns: its writes and the success commit together.
HandlerReturns(s) ==
    /\ phase[s] = "handling"
    /\ MarkSucceeded(task[s])
    /\ Release(s)
    /\ UNCHANGED <<deadLetters, lapsed, faults>>

\* JobReschedule.  The row object is stale if the handler had committed
\* (rollback is then a no-op and session.get answers from the identity map),
\* and is read again otherwise.
HandlerReschedules(s) ==
    /\ phase[s] = "handling"
    /\ \E n \in {seen[s], attempts[task[s]]} : MarkFailed(task[s], n)
    /\ Release(s)
    /\ UNCHANGED <<deadLetters, lapsed, faults>>

\* A webhook job that has used up its attempts leaves a dead letter.
Bury(j, n) ==
    deadLetters' = [deadLetters EXCEPT ![j] = IF Exhausted(n) /\ j \in Webhooks THEN @ + 1 ELSE @]

\* Any other exception, when the row object survives the rollback: the
\* failure and the dead letter commit together.
HandlerRaises(s) ==
    /\ phase[s] = "handling"
    /\ MarkFailed(task[s], seen[s])
    /\ Bury(task[s], seen[s])
    /\ Release(s)
    /\ UNCHANGED <<lapsed, faults>>

\* An exception leaves _process_one_job itself: the Llama client cannot be
\* built, the commit fails because the handler left the session rollback-only,
\* the expired row cannot be reloaded, or the dead letter cannot be written.
JobEscapes(s) ==
    /\ phase[s] \in {"claimed", "handling"}
    /\ phase' = [phase EXCEPT ![s] = "recovering"]
    /\ UNCHANGED <<rows, task, seen, deadLetters, lapsed, faults>>

\* Mutant: what escapes from _process_one_job is taken for permanent.
RecoverForGood(s) ==
    /\ phase[s] = "recovering"
    /\ MarkFailed(task[s], MaxAttempts)
    /\ Release(s)
    /\ UNCHANGED <<deadLetters, lapsed, faults>>

\* The except branch of _run_claimed: mark_failed_async in a new session.
RecoverJob(s) ==
    /\ phase[s] = "recovering"
    /\ MarkFailed(task[s], attempts[task[s]])
    /\ Release(s)
    /\ UNCHANGED <<deadLetters, lapsed, faults>>

\* ... which fails too, is logged and leaves the row to its lease.
RecoverFails(s) ==
    /\ phase[s] = "recovering"
    /\ faults < MaxFaults
    /\ faults' = faults + 1
    /\ Release(s)
    /\ UNCHANGED <<rows, deadLetters, lapsed>>

\* A worker process dies, or is cancelled, and is restarted idle.
Crash(w) ==
    /\ \E s \in Slots : WorkerOf[s] = w /\ task[s] # NoJob
    /\ faults < MaxFaults
    /\ faults' = faults + 1
    /\ task' = [s \in Slots |-> IF WorkerOf[s] = w THEN NoJob ELSE task[s]]
    /\ phase' = [s \in Slots |-> IF WorkerOf[s] = w THEN "idle" ELSE phase[s]]
    /\ seen' = [s \in Slots |-> IF WorkerOf[s] = w THEN 0 ELSE seen[s]]
    /\ UNCHANGED <<rows, deadLetters, lapsed>>

-----------------------------------------------------------------------------
(* Time.                                                                   *)

\* available_at of a rescheduled row is reached.
BecomeDue(j) ==
    /\ status[j] = "pending"
    /\ ~due[j]
    /\ JoinLine(j)
    /\ UNCHANGED <<status, attempts, claimedBy, lease, slots, deadLetters, lapsed, faults>>

Guarded(j) == \E s \in Slots : task[s] = j /\ WorkerOf[s] = claimedBy[j]

Expire(j) ==
    /\ status[j] = "running"
    /\ lease[j] = "live"
    /\ lease' = [lease EXCEPT ![j] = "expired"]
    /\ UNCHANGED <<status, attempts, due, ahead, claimedBy, slots, deadLetters>>

\* The lease of a row nobody renews runs out.
LeaseExpires(j) ==
    /\ ~Guarded(j)
    /\ Expire(j)
    /\ UNCHANGED <<lapsed, faults>>

\* The lease of a row runs out although its slot is alive: the heartbeat's
\* errors are swallowed, and a paused process does not run it.
LeaseLapses(j) ==
    /\ Guarded(j)
    /\ faults < MaxFaults
    /\ Expire(j)
    /\ lapsed' = lapsed \cup {j}
    /\ faults' = faults + 1

-----------------------------------------------------------------------------

Execute(s) ==
    \/ StartJob(s)
    \/ HandlerReturns(s)
    \/ HandlerReschedules(s)
    \/ HandlerRaises(s)
    \/ JobEscapes(s)
    \/ RecoverJob(s)

Next ==
    \/ \E j \in Jobs : Enqueue(j) \/ BecomeDue(j) \/ LeaseExpires(j) \/ LeaseLapses(j)
    \/ \E s \in Slots : Claim(s) \/ Execute(s) \/ Heartbeat(s) \/ RecoverFails(s)
    \/ \E w \in Workers : Crash(w)

Spec == Init /\ [][Next]_vars

\* Workers poll and handlers end; clocks advance.  Nobody has to enqueue, and
\* no fault has to happen.
Fairness ==
    /\ \A s \in Slots : WF_vars(Claim(s)) /\ WF_vars(Execute(s))
    /\ \A j \in Jobs : WF_vars(BecomeDue(j)) /\ WF_vars(LeaseExpires(j))

FairSpec == Spec /\ Fairness

-----------------------------------------------------------------------------
(* The abstract specification.                                             *)

\* An open job is pending or running.
State ==
    [j \in Jobs |-> CASE status[j] = "absent"    -> "absent"
                      [] status[j] = "succeeded" -> "done"
                      [] status[j] = "failed"    -> "dead"
                      [] OTHER                   -> "open"]

\* A slot is an executor from its claim to its release.
Executing == [j \in Jobs |-> {s \in Slots : task[s] = j}]

Promise ==
    INSTANCE AtLeastOnce WITH
        Given <- {}, Executors <- Slots, Limit <- MaxAttempts,
        state <- State, executing <- Executing, starts <- attempts

\* Every behaviour of the table and the workers is one the promise allows:
\* a job is settled only by the end of an execution of it, is started only
\* while open, and is abandoned only after max_attempts starts.
PromiseKept == Promise!Spec

-----------------------------------------------------------------------------
(* Properties.                                                             *)

\* A row the claim query could never select again is lost for good: a running
\* row always has a lease to expire and an owner, and any other row has
\* neither (a pending row under a live lease would not be eligible).
\* claim_next_async, touch_lease_async, mark_succeeded_async and
\* mark_failed_async write the three columns separately from one another.
NoStrandedJob ==
    \A j \in Jobs :
        /\ status[j] = "running" <=> lease[j] # "none"
        /\ status[j] = "running" <=> claimedBy[j] # NoWorker

\* Two slots execute the same job only if its lease ran out under one of
\* them: crashes, reschedules and failed recoveries alone never make
\* claim_next_async hand out a job that is being executed.
OverlapNeedsLapse ==
    \A r, s \in Slots :
        (r # s /\ task[r] = task[s] /\ task[r] # NoJob) => task[r] \in lapsed

\* mark_succeeded_async and mark_failed_async do not check who owns the row,
\* so a slot whose lease lapsed can undo another slot's verdict; without a
\* lapse a settled job stays settled.
SettledIsFinal ==
    [][\A j \in Jobs :
        (status[j] \in Terminal /\ j \notin lapsed) => status'[j] = status[j]]_vars

\* Neither a failed row nor a dead letter is ever written for a job that has
\* not been attempted max_attempts times, although mark_failed_async may
\* decide from a row object another worker has made stale.
NoEarlyGiveUp ==
    \A j \in Jobs :
        (status[j] = "failed" \/ deadLetters[j] > 0) => attempts[j] >= MaxAttempts

\* A job is started beyond its max_attempts only as often as something went wrong: a
\* lease that lapsed, a crash and a failed recovery cost at most one execution each,
\* the ones that a stale row object gives away (mark_failed_async) included.
StartsAreBounded == \A j \in Jobs : attempts[j] <= MaxAttempts + faults

\* Every enqueued job settles although workers crash, leases lapse and
\* recoveries fail: the reclaim of expired leases and the attempt count get
\* it out of every intermediate state.
EveryJobSettles ==
    \A j \in Jobs : (status[j] # "absent") ~> (status[j] \in Terminal)

=============================================================================
