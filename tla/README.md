# MyloWare: specifications, model checking and proofs

This directory holds TLA+ models of MyloWare, the TLC configurations that check
them on small instances, and TLAPS proofs of the results that hold for every
instance.  Paths are relative to the repository; `…/` stands for
`src/src/myloware/`.

## 1. The system

MyloWare turns a brief into a published short video.  A *run* is a row of the
`runs` table and a LangGraph thread of the same id; agents produce ideas, Sora
clips, a render and an upload, two human gates sit in between, and everything
slow is answered later by a webhook or found by a poll.

| Component | State it keeps | Operations | Talks to |
|---|---|---|---|
| Job queue (`…/storage/repositories.py`, `…/storage/models.py`) | `jobs`, `dead_letters` | enqueue, claim, touch_lease, mark_succeeded, mark_failed | every producer of jobs, workers |
| Worker (`…/workers/worker.py`) | claimed jobs, a semaphore, one heartbeat per job | claim loop, execute, recover | queue, handlers |
| Handlers (`…/workers/handlers.py`) | none of their own | run.execute, sora.poll, remotion.poll, resume.videos, resume.render, hitl_resume, webhook.sora, webhook.remotion | `runs`, `artifacts`, `jobs`, the graph, providers |
| Graph (`…/workflows/langgraph/graph.py`, `nodes.py`, `state.py`) | the checkpointed thread | ideation → gate → production → wait → editing → wait → gate → publishing | agents, `runs`, `artifacts` |
| Resume and HITL helpers (`resume.py`, `hitl.py`) | none | find the interrupt, answer it | graph, `runs` |
| Operator actions (`workflow.py`) | none | repair clips or render, resume, fork | graph, Sora, render service |
| Webhook routes (`…/api/routes/webhooks.py`) | none | verify, resolve the run, enqueue | queue |
| API, public demo, Telegram, chat, feedback, media routes | a TTL cache of Telegram updates | start a run, decide a gate, look | queue, graph |
| Clean-up, dead-letter replay | none | time out stuck runs, replay webhooks | `runs`, handlers |
| Safety (`…/safety`, `safety_cache.py`, middleware) | cached verdicts | check input and output | Llama Stack |
| Circuit breaker, retries (`…/resilience`, `…/workflows/retry*.py`) | breaker state shared by threads | call, success, failure | Llama Stack |
| Tools (`…/tools`) | artifacts that make them idempotent | sora_generate, remotion_render, upload_post, analyze_media | providers |
| Services, knowledge, agents, observability, config, CLI, notifications | files, vector store, logs | I/O | – |
| Render service (`src/services/remotion`) | in-memory render jobs | render, status, output | webhooks |
| Demo page (`src/web/demo/app.js`) | active run, panel, buttons, saved runs | start, poll, decide, switch runs | the public demo's routes |

What makes these parts correct, and what is hard about them:

* **Queue and worker.**  A job is executed at least once, settles, is not given
  up early, and its verdict is final.  Hard: leases that expire under a live
  worker, crashes, endings that do not check ownership, row objects that go
  stale over a rollback, a recovery path apart from the normal one.
* **A run and its thread.**  Nothing is spent before its gate is approved,
  nothing is spent twice, a finished thread is shown as finished, an accepted
  run gets going.  Hard: LangGraph does not lock a thread, calls look up an
  interrupt and use it later, several writers share `runs.status`, jobs repeat.
* **Clips.**  The resume job is queued when the clips of the active manifest
  are stored, and only then.  Hard: a webhook and the poll ingest the same task
  at once, a webhook is lost or late, repairs replace the manifest.
* **Render.**  The video of a render is stored once, only if its submission was
  recorded, and gets to the thread.  Hard: one callback without a repetition, a
  poll beside it, operators who go back while the first render is under way.
* **Turns and the breaker.**  No agent acts before a shield has passed its
  input, no session is left behind, an open circuit recovers.  Hard: the breaker
  is shared by threads without a lock, and endings come late.
* **Doors.**  A message starts one run, an accepted run has an executor, its row
  mirrors its thread, the budget holds.  Hard: every check awaits something
  before its result is used, caches expire, each door does it differently, and an
  error after the row's commit may end its executor without a word in the row.
* **Demo page.**  The visitor acts on the run he sees.  Hard: replies come in any
  order and are applied to whatever run is active by then, and a run the page has
  seen to end may go on.

`PROJECT.json` lists each hazard at its line with the properties that cover it.

## 2. Modules

| Module | Kind | Models |
|---|---|---|
| `AtLeastOnce` | abstract | what the queue promises, without rows, leases or clocks |
| `VideoRun` | abstract | the order in which a run is approved, paid for, published and shown |
| `JobQueue` | detailed | the `jobs` table and the workers; implements `AtLeastOnce` |
| `RunWorkflow` | detailed | one run: thread, row, jobs and callers; implements `VideoRun`, relies on `AtLeastOnce` |
| `ClipIngest` | detailed | the clips of one run: manifests, webhooks, polling, repairs; relies on `AtLeastOnce` |
| `RenderIngest` | detailed | the renders of one run: editor, service, callbacks, polling, operators; relies on `AtLeastOnce` |
| `CircuitBreaker` | component | the breaker at the grain of its unlocked reads and writes |
| `AgentTurn` | composition | shields, sessions and turns over `CircuitBreaker`; implements its specification |
| `RunBudget` | abstract | the budget of new runs as counts and requests |
| `RunStart` | detailed | the five doors by which runs come in; implements `RunBudget` |
| `DemoPage` | detailed | the page of the public demo against its server |
| `MCJobQueue`, `MCRunWorkflow`, `MCClipIngest`, `MCRenderIngest`, `MCAgentTurn`, `MCRunStart`, `MCDemoPage` | instances | what TLC checks |
| `JobQueue_proofs`, `RunWorkflow_proofs`, `ClipIngest_proofs`, `RunBudget_proofs`, `AgentTurn_proofs`, `RunStart_proofs`, `RenderIngest_proofs`, `DemoPage_proofs` | proofs | section 4 |

The modules overlap where components meet.  `RunWorkflow` has the whole life of
a run with its details of polls, webhooks and operators left open; `ClipIngest`
and `RenderIngest` have those details for the two waits and keep the thread in a
few values; `RunStart` has the beginning for every door.

### JobQueue

A job is its (job_type, idempotency_key) pair.  The table is one function per
column (`status`, `attempts`, `claimedBy`, `lease`); `due` and `ahead` hold what
the claim query sees of `available_at`; `lease` is the lease compared with the
clock.  A *slot* is a unit of a worker's semaphore; slots of one process share
its `worker_id`.  `Claim` is `claim_next_async` on PostgreSQL (a row locked by
another transaction is passed over); `StartJob`, `HandlerReturns`,
`HandlerReschedules`, `HandlerRaises`, `JobEscapes`, `RecoverJob` and
`RecoverFails` are the paths through `_process_one_job` and `_run_claimed`;
`Heartbeat`, `LeaseExpires`, `LeaseLapses`, `BecomeDue` and `Crash` are the
environment and the clock.

`seen` is `attempts` as the slot's session loaded it.  After a rollback
SQLAlchemy expires the row object; if the handler had committed, the rollback is
a no-op and the identity map answers with the old object, so `HandlerReschedules`
may decide from either value.  A handler that caught a failed flush leaves the
session rollback-only: the success commit raises and `JobEscapes` follows.

### AtLeastOnce and its refinements

A job is absent (or in `Given`, which the producer has enqueued before the model
starts), open, done or dead; executors start on open jobs, an ending settles, an
abandonment needs `Limit` starts; `Attempt` is an execution that another caller
can see nothing of.  `JobQueue!PromiseKept` maps pending and running to open, a
slot to an executor from its claim to its release, and `attempts` to starts.  An
executor may still change the verdict of a settled job: that is what the code
allows, and `SettledIsFinal` says when.

This specification is also what joins the modules.  `RunWorkflow`, `ClipIngest`
and `RenderIngest` keep the queue in a few values per job; each of them has
`PromiseRelied`, which maps those values and the callers that execute a job to
`AtLeastOnce`.  The queue keeps the promise, and the three rely on no more: none
of them settles a job nobody executes, gives one up early or brings one back
that the queue would not.

### VideoRun

Approvals, submissions of clips, renders, uploads, the URL and the final status,
with the order among them and nothing else.  `RunWorkflow!OrderKept` is its
specification with `completed` for `status = "completed"`; the other variables
are those of `RunWorkflow` with the same names, the histories of what people did
and what was paid for.

### RunWorkflow

`cp` is the latest checkpoint (next node, whether it is parked on an interrupt,
the interrupt's identity, the values guards and routes read); `status` is
`runs.status`; `jobs` and `tries` abstract the queue as `AtLeastOnce` allows;
`call` is what each caller is doing: a handler before its check, after it,
holding an interrupt id, inside a node, after its agent's turn, polling,
returned, raised.  A node is split where other calls can see the difference:
before its turn, after it (the tool has spent), and at its final commit.

LangGraph itself is modelled from how the code uses it: a resume with an id that
is not pending any more is ignored and the pending nodes run as they are; a
router that names a destination its path map lacks raises; fresh input keeps the
other values of the thread.  Agents may or may not use their tool; safety
verdicts, provider answers and exceptions are nondeterministic.

An answer to an interrupt that is already answered stays with the thread: a
second answer to a wait node is returned unread, and the first counts.

### ClipIngest

A task is a video index and the submission it belongs to; `manifest` is the
active CLIP_MANIFEST, `clips` the committed VIDEO_CLIP rows, `hook`, `poll` and
`resume` the jobs, `thread` what RunWorkflow calls the checkpoint, in four
values.  A webhook execution is split at its database steps: `HookBegins` checks
for a stored clip (download and transcode follow), `HookInserts` inserts,
`HookCounts` obtains the row lock and counts, `HookCommits` commits.  The poll is
split at `PollBegins` (everything it goes by is read), `PollInserts` (the first
insert) and its commit, in `PollFails`, `PollCompletes` or `PollWaits`.

With the background dispatcher there is no queue: the request of Sora's event
does the same itself (`RequestBegins` … `RequestCommits`) and resumes the thread
once it has answered; Sora may deliver again while the first request
transcodes.  With the fake provider the tool delivers every event itself,
before it stores its manifest, and nothing polls.  `sora_generate` answers a
call it has made before from the manifest with its idempotency key (`NewRequest`),
and a turn may make a second, different call; the node then writes the pending
tasks of either (`Answers`).

The locks are those of PostgreSQL: an uncommitted insert shares the run row
through its foreign key, `SELECT … FOR UPDATE` waits for all sharers, an update
waits for FOR UPDATE only.  Two webhook executions that have both inserted
therefore wait for each other, and PostgreSQL aborts one: `HookDeadlocks`.  The
second resume job of a run is caught with `pass`, but its failed flush makes the
commit fail, and the clip with it.

### RenderIngest

Renders are numbered.  The service's table of jobs (`Submit`, `RenderStarts`,
`RenderEnds`, `ServiceForgets`) is in memory and bounded; its callback is sent
once, and may be lost or come before the render's id is committed.  The editor
is split at the submission, the artifact, and the commit of the status;
`HookBegins`/`HookEnds` and `PollBegins`/`PollEnds` have a call to the service
in between.  `AnswersWait` is what a resumed thread makes of an answer, with the
snapshot of `_GraphWrapper`; `ResumeRender` and `BackgroundResume` are the two
ways it gets there.  Operators decide an interrupt, repair, resume
(`OperatorReads` and `OperatorResumes` are two steps, as in the code) and fork.
The service renders one video at a time here; it is deployed with two places
(`CONCURRENCY`).  No property depends on which of two renders ends first.

### CircuitBreaker and AgentTurn

`CircuitBreaker` follows a thread through `CircuitBreaker.call` with a program
counter at every place where another thread can come between a read and a write
of the breaker's fields: the lazy OPEN→HALF_OPEN in the `state` property, the
count of half-open calls, the failure counter, the time stamp and the state.
`AgentTurn` puts turns over it: shields first (asked past the breaker, each
verdict, timeout or exception nondeterministic), then session, turn, clean-up
and the shield on the output, for nodes and for the supervisor's routes.
`TurnsRefineBreaker` shows that nothing in it touches the breaker otherwise.

### RunStart and RunBudget

A request is a coroutine: counted, in a supervisor's turn, past the tool's
look-up, about to run the graph, getting its checkpointer (`opening`), in the
graph, back from it.  `TelegramWebhook`,
`Chat`, `CountRuns`, `PublicDemoStart` are the doors; `StartRun`,
`StartGraphRun`, `StartWorkflow` commit the row; the graph is followed to its
first gate, and what comes after it as far as the doors look at it
(`Continue`).  After the commit of the row an error may end whatever executes
the run without reaching the row, and `Drops` and `JobDrops` are these: the
visibility check of `runs.py:162-201` answers 500, so that the background task is
not run; `run_workflow_async` returns early (`workflow.py:963-975`); the
checkpointer or graph cannot be had, outside the `try` of `start_run`
(`langgraph.py:263-269`); or the failure of a node cannot be written.  `ImplementsBudget` maps the committed young runs and the requests
past the guard to `RunBudget`: two counts and a set, in which the overdraft is
bounded by the requests in flight.

### DemoPage

The page is one thread: a handler runs to its next `await`.  A fetch is handled
by the server and its reply comes in later, in any order, or fails.  The server
is its routes, `RunMoves` for everybody else who moves a run, and `RunRevives`
for those who take one on after its end: cleanup fails a run whose resume is
queued, an operator repairs or forks, and the graph's snapshots are written
without a look at the row.  `SubmitBlank` is the submit without a brief, which
stops the timer and nothing else.  A fetch for the list of runs is out like any
other, and its reply (`ListComes`) touches the list alone.

## 3. What the runs show

| Run | What it shows |
|---|---|
| `queue` | No job is stranded; overlap and changed verdicts need a lapsed lease; no early give-up; the promise is kept; every job settles. |
| `workflow` | Gates, spending and the final status when approvals, an API call, retries and a crash or lapsed lease race. |
| `workflow_starts` | Without crashes an accepted run reaches its first interrupt or fails, rejections and failures of providers included. |
| `workflow_crash` (violated) | One crash in run.execute leaves the run running for ever. |
| `agents` | No turn without a shield, no session forgotten, the circuit is stuck only after two threads crossed, and recovers otherwise. |
| `clips` | Webhooks, requests, the last poll and a repair or second call: the last clip wakes the thread, a second clip needs a race, an early resume needs a race or another submission, old clips never stand in for new ones. |
| `clips_live` | With a crash and a failure: polling ends the wait or uses up its attempts, whatever webhooks are lost; delivered webhooks end it where no poll does. |
| `renders` | A render's video is stored once and only if recorded; the gate is reached with a video or after a stray decision; the row follows the thread. |
| `renders_live` | A lost callback, a crash or a failure do not keep a thread waiting. |
| `renders_again` (violated) | After fork_from_clips the finished render never gets to the thread. |
| `starts` | One run per update unless a key lapsed and two turns crossed; rows mirror threads and no run is orphaned, but for crashes and the errors that reach no row; the budget is overdrawn by the requests in flight at most. |
| `demo` | A gate that is painted is offered; the run shown is the run acted on; the saved list is true; the page goes on watching — each unless a call went astray, the last two unless the run was revived after its end, the last unless a blank submit has stopped it. |

The violated runs state what a document or comment promises, and TLC's
counterexample is a behaviour of the code; `PROJECT.json` quotes the promise.
A run answers several questions about one instance, and a question that needs
the same instance joins it.

### What else the models show

Each of these is a behaviour of a module; it has no run of its own.

*Queue.*  The reclaim of an expired lease (`repositories.py:966`) does not look
at `max_attempts`; a job may be started more often than `models.py:236` says.
When `_run_claimed` has to recover (`worker.py:237`) and the attempts are used
up, no dead letter is written, although `models.py:352` says there is one.  The
replay of dead letters (`dlq_replay.py:47`) reads event fields the worker has
stored one level down, and raises for every letter it wrote.

*Decisions.*  An approval and a rejection of the publish gate together may upload
twice (`UploadedOnce`); so may two calls of upload_post in one publisher turn,
because the stored URL is written when the node ends.  An output of the
publisher that the shield blocks fails a run whose video is already uploaded.  A
rejection at a wait node does not end the workflow (`RejectionEndsWorkflow`):
the wait keeps it as its first answer and returns the next one unread
(`nodes.py:751`).  `hitl.approve_gate` and the tool over it ("Approve a HITL gate and
continue the workflow") record an approval and resume nothing.

*Clips.*  webhook.sora and sora.poll may store two clips of one task: both look
before they download (`handlers.py:629`).  A repair takes index 0 for missing
whatever is stored (`OnlyMissingResubmitted`), submits before it checks that its
manifest is complete (`workflow.py:211`, `:266`), and a poll overwrites the pending tasks it
wrote (`PendingMatchesManifest`).  After a repair clips of replaced tasks count,
and resume.videos may find a clip missing and fail the run (`ResumeHasAllClips`).
Rescheduling uses up a poll's attempts (`WaitingEnds`).  production_node may
overwrite a failure reported while its agent's turn was on, and fails after an
earlier error of the tool although a later call succeeded; after two different
calls the pending tasks may not be those of the active manifest.  A partial
submission is replayed by its key as if it were complete.  With the background
dispatcher a resume that crashes, or finds no interrupt in time, is lost.  With
the fake provider an event that could not be posted is never posted again, and
two runs at once share task ids, so that events of one reach the other.

*Renders.*  A callback of an older render that failed fails a run waiting for a
newer one; resume_run may go on with the older video.  A repair, forced or not,
can set awaiting_render on a thread that is past its wait.  A late resume of the
first render answers the wait of a forked thread with the old video.  A service
whose table is full of unfinished jobs refuses everything until one ends.

*Turns.*  Failures in the middle of a stream are no failures to the breaker.
More threads than the half-open limit can keep opening the circuit again (the
second disjunct of `Recovers`).  The cached verdicts `safety_cache.py:3-6`
speaks of are never among the values a node returns, so every execution asks
again.  The output of the editor and of the supervisor is not shown to a shield.
`CircuitBreaker.reset` and the retry helpers have no caller.

*Doors.*  The demo's and the supervisor's runs ask for no budget.  The tool's
look-up ignores runs in awaiting_publish, and finds a run whose process died as
well as a live one; within one turn a failed run may be started again.  A
visibility check that fails in `runs.py` answers 500 for a run that exists; with
the background dispatcher nobody runs it any more, and it stays pending, as does
one `run_workflow_async` does not find.  A run of the langgraph door whose
checkpointer or graph cannot be had stays running without a thread.  A brief blocked inside the graph leaves its row running, except for the langgraph
door, which writes its result; that write may overwrite a decision taken in the
meantime.

*Demo page.*  A decision's floor for the panel is deleted by the status that
comes with it; the buttons of a gate stay disabled after a success, for the next
run too (`index.html:43-46`).  Decisions name no gate, so that a stale panel of
the ideas can approve publishing.  One failed poll stops the timer and paints and
saves the run as failed; a failed start paints another viewed run as failed.  A
reply for the run the visitor has left is painted and saved under the new token,
and if it is terminal it stops the new run's timer.  A submit without a brief
stops the timer of the run that is being watched.  A run that was seen to end, and
goes on after a late resume or a repair, does so unseen.

### Bounds

* Queue: two jobs are enough for the claim order (`ahead`) and for one job to be
  passed over; w1's two slots share an id, w2 has another; two attempts give one
  retry.  One fault gives each of a lapse, a crash and a failed recovery; the
  safety properties and the refinement are proved for any number.
* Workflow: two callers suffice for every race of two calls on one thread;
  three would only queue behind them.  `workflow` has retries, a fault and an
  API call, `workflow_starts` rejections and failures.
* Clips: two videos give a last clip and one before it; two workers or requests
  give every race of two.  `MaxTries` is 2 for 5 and `MaxPolls` 1 or 2 for 240:
  a bound that is reached shows what reaching it does.  `MaxRepairs = 1` is one
  submission after the first, by a repair or by a second call.  `clips` has the
  repair and both dispatchers and providers, `clips_live` the crash and the
  failure.  Liveness is stated for the database dispatcher: requests that lock
  each other out have no queue to come back from, only Sora's next delivery,
  and may do so again and again.
* Renders: two renders are an old and a new one, two actions let an operator
  undo what another did, one fault and one failure.  `MaxTries` is 1 for safety,
  where every failed attempt is reached with it, and 2 for liveness, where a
  retry has to help.  `renders_live` has a service with one place.
* Agents: three kinds of turn (a node with output shield, a node without, a
  route); threshold 2 and three failures open the circuit twice; one half-open
  call and two callers make it overlimit.
* Starts: two handlers, two rows, one update and one chat, two deliveries, one
  crash.  Requests, expiries and ageing are followed while a row is left that
  they might create; the executor of a run gets it to its gate within a day.
* Demo: two runs, two fetches out at once, one of them for the list (`OneList`).
  `Skipped` names statuses no run stops at, which leaves pending, the publish gate,
  failed and rejected: a status that goes on, a gate, and the ends both ways.
  `OneIsSound` prunes states in which each run has had a call astray or two
  at once, or was revived, where most of what is claimed is claimed of neither,
  and `AstrayIsEnough` those in which one run has had both; what follows them is
  not explored.  The proofs have no such bound.
* Counters are bounded by the finite number of jobs, tries and calls; the other
  runs use no state constraint.  Workers, callers, handlers, runs and fetches are symmetric in
  safety runs where the specification tells them apart by nothing; no liveness
  run uses symmetry.

### Fairness

Workers poll in a loop and handlers have timeouts, so claims and the steps of an
execution are weakly fair; clocks advance, so rows become due and leases expire.
Nobody has to enqueue a job or decide a gate, and no fault has to happen.  In
`RunWorkflow` callers take jobs and finish their calls, and providers answer.

In `ClipIngest` workers take and finish jobs, Sora settles its tasks, the
producer's turn ends and resume.videos runs.  Webhooks need not be delivered;
`WebhooksEndWait` has their delivery as its hypothesis, because Sora repeats an
event until it is acknowledged.  In `RenderIngest` the editor, the service, the
workers and the resume job go on; a callback need not arrive.  In `AgentTurn`
calls end and the clock passes the recovery timeout; that calls keep coming is
the hypothesis of `Recovers`.  Operators, visitors and faults are never fair.

Deadlock is not checked: all jobs settled, or a run that is over, is a proper
end of these systems.

### Properties outside the runs

`StartsAreBounded`, `OrderKept`, `ThreadGoesForward`, `CompletedIsWhole`,
`WaitHasPoll`, `WaitIsWorkedOn`, `RowsGoForward`, `RoutersKeepLimit`,
`ThresholdTrips` and the three `PromiseRelied` are theorems (section 4).  TLC found them true on the instances of
the runs, or smaller ones, before they were proved; no run repeats that, because
the proofs hold for every instance.

## 4. What is proved

All theorems hold for every value of the constants that the named assumptions
(`QueueAssumption`, `WorkflowAssumption`, `BreakerAssumption`, `TurnAssumption`,
`BudgetAssumption`, `StartAssumption`, `RendersAssumption`, `PageAssumption`, `ClipsAssumption`) allow.

* `JobQueue_proofs`.  The inductive invariant is `TypeOK`, `SlotsOK` (a slot
  has a job exactly when it is not idle) and `Inv`: `NoStrandedJob`, `Owned` (a
  slot whose job never lapsed still owns it, and the row is running),
  `OverlapNeedsLapse`, `SeenOK` (a row object never shows more attempts than
  the row) and `NoEarlyGiveUp`.  `OverlapNeedsLapse` alone is not inductive: a
  claim is only known to leave executing jobs alone because such a job is
  running under a live lease, which is `Owned`.  `NoEarlyGiveUp` needs `SeenOK`,
  since the decision is taken from the row object.  The refinement theorem
  `QueueKeepsPromise` goes action by action, in `PromiseStep`.  `StartsBounded`
  answers what the missing check of `max_attempts` in the reclaim costs: each
  start beyond it has a fault of its own.  `Credit` counts, per job, what may still
  start it again: while attempts are left, every slot that executes it but the one
  that holds it has a fault to answer for; after that, so has every slot with a
  stale row object (`Stale`) and every claim still to come (`Claimable`).
* `RunWorkflow_proofs`.  `TypeCorrect`, then `GatesHold`
  (`Spec => []NothingUnapproved`).  Its invariant `GateInv` says what the thread
  and each call may carry: a checkpoint or a call beyond a gate has *earned* it
  (`Earned`), a call that found a gate's interrupt and would approve it is backed
  by an approval as long as the id it holds is the pending one (`Backed`), and
  an approving job that exists was requested (`Requested`).  The matching of
  ids is what makes a late approval of one gate harmless to the other.
  On top of it, `SpendingTwiceNeedsRace` and `EndingIsProjected`.  Neither
  property says where the thread is, so neither is inductive.  `RaceInv` has two
  layers.  `Local` holds of every call, races or not: a job that executes has been
  enqueued, the values know of clips only once run.resume_videos exists.  The rest
  holds as long as no two calls have raced: at most one call is inside the thread
  (`Alone`) and the thread stands where it works (`Seat`), so an interrupt that a
  call has found is still pending when it answers it; a node that was left in the
  middle lets nobody in any more; and the thread only moves forward, so that each
  paying node is entered once (`Once`).  `Late` keeps sora.poll from completing a
  run that has gone past its clips, which `Ending` needs.
  `ThreadsGoForward` follows from `RaceInv` by the order of the graph's nodes
  (`Place`).  `CompletedRunsAreWhole` has no such hypothesis: it holds with any
  number of calls that race, so `WholeInv` says of each thing that exists, a job, a
  value of the thread or the result of an agent's turn, what it presupposes
  (`Chain`, `Known`, `Whole`), and never where the other calls are.
  `RunsKeepOrder` takes the guards of `VideoRun` from it and from `GateInv`; each
  action is one step of the abstract run or none.  `JobsKeepPromise` rests on the
  types and on `FreeIsOut`: a caller that is free executes nothing.
* `AgentTurn_proofs`.  `StampInv`, the breaker's invariant: unless two threads
  crossed, whoever is about to write OPEN has left a failure time, and an open
  circuit without one has a thread about to write it.  `TurnsRefineBreaker` carries it from
  the breaker to the composition; `TurnInv` relates step, verdicts and session
  and gives `ShieldsHold` and `SessionsEnd`.  `BreakerTrips`: a circuit with too
  many failures is closed only while a thread is about to open it; it is inductive
  given the types, and `TurnsTrip` is the same of the composition.
* `RunBudget_proofs`.  The overdraft's bound is inductive given the types: a
  request that passes has read a count below the limit.
* `RunStart_proofs`.  `StartInv`: a row that is not there has left no trace
  (`FreshRows`), whoever executes a graph does so for a run (`HoldersHaveRuns`),
  a run with a job is left to the worker (`OneExecutor`), whose queued job
  nobody overtakes (`QueuedIsPending`), and a run that is pending or running is
  executed or blocked, but for those whose last write by `start_run` was missed
  (`NoEarlyOrphan`).
  `MirrorInv` adds that a run has one executor, that nobody moves its thread
  before the executor returns (`HoldersAlone`), and that the row of a run
  back from its graph is past running unless it is blocked (`SettledRows`), which
  gives `RowMirrorsThread` and, with `StartInv`, `NoOrphan`.
  Both except runs whose process died and those an error dropped: the theorems say
  that these, which the code does nothing about, are all there are.
  `OneTurn` (a key that has not lapsed admits one turn) and `OneLive` give
  `OneRunPerUpdate`; most steps only shrink what they speak of
  (`ShrinkingKeeps`).  `DoorsImplementBudget` is the refinement, over the sizes
  of the sets the mapping counts; `LimitsHold` takes `OverdraftIsBounded` of
  `RunBudget_proofs` through it and says it of the rows.  `RowsNeverGoBack` needs
  `RowIsBehind`: a row that differs from its thread is still to be written, so a
  decision, which moves the thread from where it stands, moves the row forward too.
* `RenderIngest_proofs`.  `RenderInv` puts the four properties of the run beside
  what their preservation needs: whoever may store or answer with a video (jobs,
  executions, resume.render, background tasks, the operator) has it from a recorded
  render (`JobsOK`, `CallsOK`, `AnswersOK`); the editor works while the thread is
  at its node (`EditorOK`); and videos are stored along one path only
  (`OnePath`): with jobs, by whichever commits resume.render, before which nothing
  is stored; without, by the route, which looks first.  That one video per render
  rests on the key of resume.render, and on nothing the handlers read, is what the
  proof shows.  `FreshIsFree` uses that numbers are well founded.
  `WaitingRunsAreWorkedOn` is the safety half of the liveness that TLC checks: a
  wait always has somebody who can end it.  `JobsKeepPromise` maps both kinds of
  jobs, a poll that is rescheduled being an execution that leaves its job open.
* `DemoPage_proofs`.  `PageInv` puts the properties of the run beside what they
  rest on: the floor of a decision gives way in the step that sets it, so the panel
  is always that of the painted status (`PaintOK`); busy buttons have a decision
  that is out (`ButtonsOK`); a fetch that was answered "over" stays true
  (`RepliesOK`); two fetches for one run are marked as overlapping (`OverlapOK`);
  and the timer is off only for a run that is over and whose pending replies say
  so, or while a start is out, or after a blank submit (`WatchOK`), which gives
  `KeepsWatching`.  Runs that were revived after their end are excepted in both:
  nothing tells the page of them.  TLC's run bounds the page with `OneIsSound` and `AstrayIsEnough`; the proof has no bound.
* `ClipIngest_proofs`.  `ClipInv`: who has counted under the lock is alone in it,
  and what it has counted is still true when it commits (`LockOK`), since whatever
  changes clips or manifest waits for the row; that is `LastClipIsNoticed`.  A task
  that two calls ingest, or one that is stored while it is ingested, is contested
  (`RacesOK`), from which one clip per task follows.  What the code does by counting
  is compared with what it means by cardinalities: without races the clips are a
  sequence without repetition in the manifest, so it is the whole manifest as soon
  as it is as long (`EnoughAreAll`, `ChosenAreAll`); a poll may count with what it
  read at its beginning because clips only grow.  `OneSubmission` and `BegunOK` keep
  tasks of different submissions apart.  `WaitingRunsHavePoll` is the safety half of
  `PollingEndsWait`, with its hypotheses; a repair, which queues no new poll, is why it
  speaks of the first submission.  `JobsKeepPromise` maps the jobs of the events and
  the poll.

The proofs compose in two places: the breaker's and the budget's theorems are taken
through a refinement instead of proved again.

TLC checked each property, and each inductive invariant of the runs' properties, before it was proved.  Only model-checked:
liveness and `Recovers`, `PollingEndsWait`, `WebhooksEndWait`,
`RenderEndsWait`, `EveryJobSettles` (fairness is out of the prover's reach).

## 5. Not modelled

* The SQLite claim, telemetry, artifact contents, and the fake-provider
  shortcuts of the editing and publishing nodes.
* `approved=False` and `data` of `/approve`; the read-only routes; the expiry of
  a demo run; streaming chat, feedback and media.
* `continue_after_ideation` and `continue_after_publish_approval` check the row
  and do what an approval does; the other continue_after_* have no caller.
* Two calls in the editing node at once are `RunWorkflow`'s subject; a render that
  outlives its sandbox, the service's files and their pruning are nobody's.
* `RunWorkflow` does not count the attempts of sora.poll (`ClipIngest` does);
  `ProductionEnds` of both merges the status commit and the enqueue of the poll,
  which commit the same status.
* In `ClipIngest`: Sora's progress events (they are ignored), a producer that
  dies between submission and manifest (RunWorkflow has the crash), and rows
  whose `created_at` and commit order differ.
* Telegram decisions of `RunWorkflow` do not look at the run's status first; its
  buttons exist only for a gate that was shown, and a late delivery covers a
  late press.
* The signature check of webhooks, with its replay window: arithmetic on one
  request.
* Pure I/O: knowledge base, observability and evaluation, configuration, CLI,
  notifications, transcoding, storage.

## 6. Plan

What is left, in order:

1. The expiry of demo runs and streaming chat, as more doors of `RunStart`.
2. The fake-provider shortcuts of editing and publishing.
3. An abstract specification of a wait (results arrive in any order, one answer
   takes the thread on) that `ClipIngest` and `RenderIngest` both implement, as
   `RunWorkflow` implements `VideoRun`.
