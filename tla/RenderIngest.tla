---------------------------- MODULE RenderIngest ----------------------------
(***************************************************************************)
(* How the final video of one run gets from the Remotion service into the  *)
(* thread: editing_node submits a render (nodes.py, tools/remotion.py),    *)
(* the service keeps its jobs in memory, renders them and calls back once  *)
(* (services/remotion/api), the webhook route and the jobs webhook.remotion*)
(* and remotion.poll store the video, resume.render answers the thread     *)
(* (workers/handlers.py, resume.py), and operators repair, resume, fork    *)
(* and decide (workflow.py, api/routes/langgraph.py).                      *)
(*                                                                         *)
(* Renders are numbered as they are submitted; 0 is no render.  The node   *)
(* editing_node is executed once at a time here; several callers in one    *)
(* thread are the subject of RunWorkflow.                                  *)
(***************************************************************************)
EXTENDS Naturals, SequencesExt

CONSTANTS
    Workers,      \* executions of webhook.remotion and remotion.poll in flight
    Dispatchers,  \* settings.workflow_dispatcher: "db", or "inprocess" without jobs
    MaxJobs,      \* the size of the service's table of jobs (at least 100)
    MaxTries,     \* max_attempts of webhook.remotion and resume.render (5)
    MaxPolls,     \* max_attempts of a remotion.poll job (180)
    MaxRenders,   \* bound: renders submitted
    MaxActions,   \* bound: what operators do
    MaxFaults,    \* bound: crashes, lapsed leases, service restarts, expired jobs
    MaxFailures   \* bound: failures of renders, of the editor and of publishing

ASSUME RendersAssumption ==
    /\ Dispatchers \subseteq {"db", "inprocess"}
    /\ \A n \in {MaxJobs, MaxTries, MaxPolls, MaxRenders} : n \in Nat \ {0}
    /\ \A n \in {MaxActions, MaxFaults, MaxFailures} : n \in Nat

Renders == 1 .. MaxRenders

VARIABLES
    dispatcher,  \* how jobs are dispatched
    status,      \* runs.status; "later" is any status after the publish gate
    thread,      \* where the thread is
    stray,       \* the interrupt at wait_for_render has had an answer already
    final,       \* final_video_url of the thread: whose video it is
    editor,      \* how far editing_node is, and the render it has submitted
    outputs,     \* render_job_id of the EDITOR_OUTPUT artifacts, oldest first
    rendered,    \* render_job_id of the RENDERED_VIDEO artifacts, oldest first
    job,         \* the jobs of the service
    outcome,     \* how a render has ended
    callback,    \* renders whose callback is on its way
    hook, tries, \* the webhook.remotion job of each render, and its attempts
    poll, polled,\* the remotion.poll job of each render, and its attempts
    resume,      \* the resume.render job, its attempts and its video
    background,  \* videos that background tasks resume the thread with
    call,        \* what each worker executes
    operator,    \* the video resume_run has decided on
    strayed,     \* history: a decision has been given to the wait
    forked,      \* history: fork_from_clips has gone back
    actions, faults, failures

thr     == <<thread, stray, final>>
stored  == <<outputs, rendered>>
service == <<job, outcome, callback>>
jobs    == <<hook, tries, poll, polled, resume, background>>
history == <<strayed, forked>>
bounds  == <<actions, faults, failures>>
vars    == <<dispatcher, status, thr, editor, stored, service, jobs, call, operator,
             history, bounds>>

Status == {"awaiting_render", "awaiting_publish_approval", "later", "rejected", "failed"}
Job    == {"absent", "open", "done", "dead"}
Call   == [op : {"none", "hook", "poll"}, of : {0} \cup Renders,
           render : {0} \cup Renders, known : BOOLEAN]
NoCall == [op |-> "none", of |-> 0, render |-> 0, known |-> FALSE]

TypeOK ==
    /\ dispatcher \in Dispatchers
    /\ status \in Status
    /\ thread \in {"editing", "waiting", "gate", "past"}
    /\ stray \in BOOLEAN /\ final \in {0} \cup Renders
    /\ editor \in [pc : {"idle", "running", "submitted", "stored"}, render : {0} \cup Renders]
    /\ outputs \in Seq(Renders) /\ rendered \in Seq(Renders)
    /\ job \in [Renders -> {"none", "queued", "rendering", "ended", "gone"}]
    /\ outcome \in [Renders -> {"none", "done", "error"}]
    /\ callback \subseteq Renders
    /\ hook \in [Renders -> Job] /\ tries \in [Renders -> Nat]
    /\ poll \in [Renders -> Job] /\ polled \in [Renders -> Nat]
    /\ resume \in [state : Job, tries : Nat, video : {0} \cup Renders]
    /\ background \subseteq Renders
    /\ call \in [Workers -> Call]
    /\ operator \in {0} \cup Renders
    /\ strayed \in BOOLEAN /\ forked \in BOOLEAN
    /\ actions \in Nat /\ faults \in Nat /\ failures \in Nat

\* resume.videos has answered wait_for_videos and editing_node begins; the row
\* has been set to awaiting_render when the last clip was stored.
Init ==
    /\ dispatcher \in Dispatchers
    /\ status = "awaiting_render"
    /\ thread = "editing" /\ stray = FALSE /\ final = 0
    /\ editor = [pc |-> "running", render |-> 0]
    /\ outputs = <<>> /\ rendered = <<>>
    /\ job = [r \in Renders |-> "none"] /\ outcome = job /\ callback = {}
    /\ hook = [r \in Renders |-> "absent"] /\ tries = [r \in Renders |-> 0]
    /\ poll = [r \in Renders |-> "absent"] /\ polled = [r \in Renders |-> 0]
    /\ resume = [state |-> "absent", tries |-> 0, video |-> 0]
    /\ background = {}
    /\ call = [w \in Workers |-> NoCall]
    /\ operator = 0
    /\ strayed = FALSE /\ forked = FALSE
    /\ actions = 0 /\ faults = 0 /\ failures = 0

Fail   == failures < MaxFailures /\ failures' = failures + 1
Fault  == faults < MaxFaults /\ faults' = faults + 1
Act    == actions < MaxActions /\ actions' = actions + 1
Recorded == Range(outputs)
Videos   == Range(rendered)
-----------------------------------------------------------------------------
(* The Remotion service.                                                   *)

Kept == {r \in Renders : job[r] \notin {"none", "gone"}}
Full == Cardinality(Kept) >= MaxJobs

\* The next render to be submitted.
Fresh == CHOOSE r \in Renders : job[r] = "none" /\ \A s \in Renders : s < r => job[s] # "none"
CanSubmit == \E r \in Renders : job[r] = "none"

\* enqueue accepts the render, unless the table is full.
Enqueues(r) == ~Full /\ job' = [job EXCEPT ![r] = "queued"]

\* The provider's POST to the service.
Submit == CanSubmit /\ Enqueues(Fresh)

\* The queue starts the renders one after the other.
RenderStarts(r) ==
    /\ job[r] = "queued"
    /\ \A s \in Renders : job[s] # "rendering" /\ (s < r => job[s] # "queued")
    /\ job' = [job EXCEPT ![r] = "rendering"]
    /\ UNCHANGED <<dispatcher, status, thr, editor, stored, outcome, callback, jobs, call,
                   operator, history, bounds>>

\* A render ends, and its callback is sent: once, whatever becomes of it.
RenderEnds(r) ==
    /\ job[r] = "rendering"
    /\ job' = [job EXCEPT ![r] = "ended"]
    /\ \/ outcome' = [outcome EXCEPT ![r] = "done"] /\ UNCHANGED failures
       \/ outcome' = [outcome EXCEPT ![r] = "error"] /\ Fail
    /\ callback' = callback \cup {r}
    /\ UNCHANGED <<dispatcher, status, thr, editor, stored, jobs, call, operator, history,
                   actions, faults>>

\* The service restarts and has forgotten its jobs, or one has expired.
ServiceForgets ==
    /\ Fault
    /\ \/ Kept # {} /\ job' = [r \in Renders |-> IF r \in Kept THEN "gone" ELSE job[r]]
       \/ \E r \in Renders : /\ job[r] = "ended"
                             /\ job' = [job EXCEPT ![r] = "gone"]
    /\ UNCHANGED <<dispatcher, status, thr, editor, stored, outcome, callback, jobs, call,
                   operator, history, actions, failures>>
-----------------------------------------------------------------------------
(* editing_node.                                                           *)

\* The editor uses remotion_render in its turn.
EditorSubmits ==
    /\ editor.pc = "running"
    /\ Submit
    /\ editor' = [pc |-> "submitted", render |-> Fresh]
    /\ UNCHANGED <<dispatcher, status, thr, stored, outcome, callback, jobs, call, operator,
                   history, bounds>>

\* The node commits the EDITOR_OUTPUT with the job id of the render.
EditorStores ==
    /\ editor.pc = "submitted"
    /\ outputs' = Append(outputs, editor.render)
    /\ status' = "awaiting_render"
    /\ editor' = [editor EXCEPT !.pc = "stored"]
    /\ UNCHANGED <<dispatcher, thr, rendered, service, jobs, call, operator, history, bounds>>

Polling(r) == IF dispatcher = "db" THEN [poll EXCEPT ![r] = "open"] ELSE poll

\* It queues remotion.poll and returns; the thread parks at wait_for_render,
\* and the snapshot after the resume puts the thread's status into the row.
EditorParks ==
    /\ editor.pc = "stored"
    /\ poll' = Polling(editor.render)
    /\ thread' = "waiting" /\ stray' = FALSE
    /\ status' = "awaiting_render"
    /\ editor' = [pc |-> "idle", render |-> 0]
    /\ UNCHANGED <<dispatcher, final, stored, service, hook, tries, polled, resume, background,
                   call, operator, history, bounds>>

\* The turn fails, or the service refuses: the thread is left at the node, and
\* resume.videos fails the run, which a fork does not.  Or the process dies.
EditorFails ==
    /\ editor.pc \in {"running", "submitted"} /\ Fail
    /\ status' = IF forked THEN status ELSE "failed"
    /\ editor' = [pc |-> "idle", render |-> 0]
    /\ UNCHANGED <<dispatcher, thr, stored, service, jobs, call, operator, history, actions,
                   faults>>

EditorDies ==
    /\ editor.pc # "idle" /\ Fault
    /\ editor' = [pc |-> "idle", render |-> 0]
    /\ UNCHANGED <<dispatcher, status, thr, stored, service, jobs, call, operator, history,
                   actions, failures>>
-----------------------------------------------------------------------------
(* The webhook route.                                                      *)

\* Mutant: the job id in the callback is not looked up.
AcceptsAny(r) == status \in {"awaiting_render", "awaiting_publish_approval", "later"}

\* A callback is accepted for a run that waits or has gone on (published, of the
\* later statuses), and for a render whose job id the run has recorded; a stored
\* video is left alone.
Accepts(r) ==
    /\ status \in {"awaiting_render", "awaiting_publish_approval", "later"}
    /\ r \in Recorded

\* With the dispatcher "db", the event is queued under the key of the render.
CallbackQueued(r) ==
    /\ dispatcher = "db"
    /\ hook' = [hook EXCEPT ![r] = IF @ = "absent" THEN "open" ELSE @]
    /\ UNCHANGED <<status, rendered, background>>

\* Without it, the route stores the video and leaves the rest to a background
\* task, or fails the run.
CallbackHandled(r) ==
    /\ dispatcher = "inprocess"
    /\ \/ /\ outcome[r] = "error"
          /\ status' = "failed"
          /\ UNCHANGED <<rendered, background>>
       \/ /\ outcome[r] = "done"
          /\ rendered' = Append(rendered, r)
          /\ background' = background \cup {r}
          /\ UNCHANGED status
    /\ UNCHANGED hook

RemotionWebhook(r) ==
    /\ r \in callback
    /\ callback' = callback \ {r}
    /\ Accepts(r) /\ r \notin Videos
    /\ CallbackQueued(r) \/ CallbackHandled(r)
    /\ UNCHANGED <<dispatcher, thr, editor, outputs, job, outcome, tries, poll, polled, resume, call,
                   operator, history, bounds>>

\* It is refused or ignored, or it never gets there; nobody sends it again.
CallbackLost(r) ==
    /\ r \in callback
    /\ callback' = callback \ {r}
    /\ UNCHANGED <<dispatcher, status, thr, editor, stored, job, outcome, jobs, call, operator,
                   history, bounds>>
-----------------------------------------------------------------------------
(* webhook.remotion and remotion.poll.  Either stores the video and queues  *)
(* resume.render, whose key belongs to the run: where that job exists, the  *)
(* insert is caught with `pass', the commit fails and nothing is stored.    *)

Idle(w)   == call[w] = NoCall
Hangup(w) == call' = [call EXCEPT ![w] = NoCall]

\* A job is claimed again while it executes only after its lease has lapsed.
MayRun(op, r) ==
    IF \E w \in Workers : call[w].op = op /\ call[w].of = r THEN Fault ELSE UNCHANGED faults

Retried(j, n, max, r) == [j EXCEPT ![r] = IF n[r] >= max THEN "dead" ELSE "open"]

\* Mutant: a second resume.render is swallowed and the commit goes through.
CommitPasses == FALSE

CommitFails == resume.state # "absent"

Stores(r) ==
    /\ ~CommitFails
    /\ rendered' = Append(rendered, r)
    /\ resume' = IF resume.state = "absent" THEN [state |-> "open", tries |-> 0, video |-> r]
                                            ELSE resume

\* A failed render fails the run, whichever render it is; of a finished one the
\* stored videos are read.
HookBegins(w, r) ==
    /\ Idle(w) /\ hook[r] = "open"
    /\ MayRun("hook", r)
    /\ tries' = [tries EXCEPT ![r] = @ + 1]
    /\ \/ /\ outcome[r] = "error"
          /\ status' = "failed"
          /\ hook' = [hook EXCEPT ![r] = "done"]
          /\ UNCHANGED call
       \/ /\ outcome[r] = "done"
          /\ call' = [call EXCEPT ![w] = [op |-> "hook", of |-> r, render |-> r,
                                          known |-> r \in Videos]]
          /\ UNCHANGED <<status, hook>>
    /\ UNCHANGED <<dispatcher, thr, editor, stored, service, poll, polled, resume, background,
                   operator, history, actions, failures>>

HookEnds(w, r) ==
    /\ call[w].op = "hook" /\ call[w].of = r
    /\ \/ call[w].known /\ hook' = [hook EXCEPT ![r] = "done"] /\ UNCHANGED <<rendered, resume>>
       \/ ~call[w].known /\ Stores(r) /\ hook' = [hook EXCEPT ![r] = "done"]
       \/ /\ ~call[w].known /\ CommitFails
          /\ hook' = Retried(hook, tries, MaxTries, r)
          /\ UNCHANGED <<rendered, resume>>
    /\ Hangup(w)
    /\ UNCHANGED <<dispatcher, status, thr, editor, outputs, service, tries, poll, polled,
                   background, operator, history, bounds>>

\* The poll of render r asks for the render recorded last.
PollBegins(w, r) ==
    /\ Idle(w) /\ poll[r] = "open"
    /\ MayRun("poll", r)
    /\ polled' = [polled EXCEPT ![r] = @ + 1]
    /\ \/ /\ status = "awaiting_render"
          /\ call' = [call EXCEPT ![w] = [op |-> "poll", of |-> r, render |-> Last(outputs),
                                          known |-> Last(outputs) \in Videos]]
          /\ UNCHANGED poll
       \/ /\ status # "awaiting_render"
          /\ poll' = [poll EXCEPT ![r] = "done"]
          /\ UNCHANGED call
    /\ UNCHANGED <<dispatcher, status, thr, editor, stored, service, hook, tries, resume,
                   background, operator, history, actions, failures>>

\* Mutant: a poll that has found nothing yet is not rescheduled.
PollStops(r) == [poll EXCEPT ![r] = "done"]

\* Rescheduling counts as a failed attempt.
PollAgain(r) == Retried(poll, polled, MaxPolls, r)

\* What the service answers; it does not know a render it has forgotten.
Answered(w, o) == job[call[w].render] = "ended" /\ outcome[call[w].render] = o

PollEnds(w, r) ==
    /\ call[w].op = "poll" /\ call[w].of = r
    /\ \/ /\ Answered(w, "done")
          /\ \/ call[w].known /\ UNCHANGED <<rendered, resume>>
             \/ ~call[w].known /\ Stores(call[w].render)
          /\ poll' = [poll EXCEPT ![r] = "done"]
          /\ UNCHANGED status
       \/ /\ Answered(w, "error")
          /\ status' = "failed"
          /\ poll' = [poll EXCEPT ![r] = "done"]
          /\ UNCHANGED <<rendered, resume>>
       \/ /\ \/ job[call[w].render] # "ended"
             \/ Answered(w, "done") /\ ~call[w].known /\ CommitFails
          /\ poll' = PollAgain(r)
          /\ UNCHANGED <<status, rendered, resume>>
    /\ Hangup(w)
    /\ UNCHANGED <<dispatcher, thr, editor, outputs, service, hook, tries, polled, background,
                   operator, history, bounds>>

\* A worker dies in a job, which stays open until its lease has lapsed.
Crash(w) ==
    /\ ~Idle(w) /\ Fault
    /\ Hangup(w)
    /\ UNCHANGED <<dispatcher, status, thr, editor, stored, service, jobs, operator, history,
                   actions, failures>>
-----------------------------------------------------------------------------
(* The thread is resumed.                                                  *)

\* The node takes the video and the thread goes on to the publish gate.
TakesVideo(v) ==
    /\ thread = "waiting" /\ ~stray
    /\ final' = v /\ thread' = "gate"
    /\ UNCHANGED stray

\* A first answer without a video is kept waiting for another ...
KeepsWaiting ==
    /\ thread = "waiting" /\ ~stray
    /\ stray' = TRUE
    /\ UNCHANGED <<thread, final>>

\* ... which the node returns as it is: it has no field of the state, and the
\* thread goes on without it or raises (see RunWorkflow).
DropsAnswer ==
    /\ thread = "waiting" /\ stray
    /\ stray' = FALSE /\ thread' = "gate"
    /\ UNCHANGED final

Raises == thread = "waiting" /\ stray /\ UNCHANGED thr

\* Mutants: the answer has no URL; the snapshot of the thread is not taken, or
\* it puts the thread's step into the status.
AnswersWithoutUrl(v) ==
    \/ KeepsWaiting /\ UNCHANGED status
    \/ DropsAnswer /\ status' = "awaiting_render"

AnswersUnprojected(v) == (TakesVideo(v) \/ DropsAnswer) /\ UNCHANGED status

AnswersWithStep(v) == TakesVideo(v) /\ status' = "publish_approval"

\* Command(resume = {interrupt: {"video_url": v}}) at wait_for_render, and the
\* snapshot, which puts the thread's status into the row.
AnswersWait(v) ==
    \/ TakesVideo(v) /\ status' = "awaiting_publish_approval"
    \/ DropsAnswer /\ status' = "awaiting_render"

\* resume_after_render skips a thread that is past the wait: the step of a
\* thread that went on without a video is still wait_for_render.
PastWait == thread = "past" \/ (thread = "gate" /\ final # 0)

\* resume.render; away from the wait, and not past it, it is tried again.
ResumeRender ==
    /\ resume.state = "open"
    /\ \/ /\ AnswersWait(resume.video)
          /\ resume' = [resume EXCEPT !.state = "done"]
       \/ /\ Raises /\ status' = "failed"
          /\ resume' = [resume EXCEPT !.state = "done"]
       \/ /\ thread # "waiting" /\ PastWait
          /\ resume' = [resume EXCEPT !.state = "done"]
          /\ UNCHANGED <<status, thr>>
       \/ /\ thread # "waiting" /\ ~PastWait
          /\ resume' = [resume EXCEPT !.tries = @ + 1,
                          !.state = IF resume.tries + 1 >= MaxTries THEN "dead" ELSE "open"]
          /\ UNCHANGED <<status, thr>>
    /\ UNCHANGED <<dispatcher, editor, stored, service, hook, tries, poll, polled, background,
                   call, operator, history, bounds>>

\* The route's background task gives up on a thread that is not waiting.
BackgroundResume(v) ==
    /\ v \in background
    /\ background' = background \ {v}
    /\ \/ AnswersWait(v)
       \/ Raises /\ status' = "failed"
       \/ thread # "waiting" /\ UNCHANGED <<status, thr>>
    /\ UNCHANGED <<dispatcher, editor, stored, service, hook, tries, poll, polled, resume,
                   call, operator, history, bounds>>
-----------------------------------------------------------------------------
(* Operators.                                                              *)

\* resume_run, action "render": the video stored last, or else what the service
\* has for the render recorded last.
LatestVideo ==
    IF rendered # <<>> THEN Last(rendered)
    ELSE IF outputs # <<>> /\ job[Last(outputs)] = "ended" /\ outcome[Last(outputs)] = "done"
           THEN Last(outputs)
           ELSE 0

OperatorReads ==
    /\ operator = 0 /\ LatestVideo # 0
    /\ Act
    /\ operator' = LatestVideo
    /\ UNCHANGED <<dispatcher, status, thr, editor, stored, service, jobs, call, history,
                   faults, failures>>

\* It then answers the wait; anywhere else, or when the node raises, the operator
\* is told.
OperatorResumes ==
    /\ operator # 0
    /\ operator' = 0
    /\ \/ AnswersWait(operator)
       \/ Raises /\ UNCHANGED status
       \/ thread # "waiting" /\ UNCHANGED <<status, thr>>
    /\ UNCHANGED <<dispatcher, editor, stored, service, jobs, call, strayed, forked, bounds>>

\* The thread goes through the publish gate; without a video nothing can be published.
AnswersGate(approved) ==
    /\ thread = "gate"
    /\ thread' = "past"
    /\ status' = CASE ~approved -> "rejected"
                   [] approved /\ final # 0 -> "later"
                   [] approved /\ final = 0 -> "failed"

\* A decision (approve, reject, or resume_run's "publish") answers whichever
\* interrupt is pending.  A reject marks the row afterwards, unless it has raised.
Decide(approved) ==
    /\ Act
    /\ \/ /\ KeepsWaiting \/ DropsAnswer
          /\ status' = IF approved THEN "awaiting_render" ELSE "rejected"
          /\ strayed' = TRUE
       \/ /\ Raises
          /\ UNCHANGED <<status, strayed>>
       \/ /\ AnswersGate(approved)
          /\ UNCHANGED <<stray, final, strayed>>
    /\ UNCHANGED <<dispatcher, editor, stored, service, jobs, call, operator, forked,
                   faults, failures>>

\* The new render is made of the stored clips, texts and template.
Resubmits == outputs # <<>> /\ Submit

\* repair_render locks the row while it submits the render; the commit may fail
\* or the process die, and the render has been submitted all the same.
RepairRender(force) ==
    /\ Act
    /\ status \in {"awaiting_render", "failed"} \/ force
    /\ Resubmits
    /\ \/ /\ outputs' = Append(outputs, Fresh)
          /\ status' = "awaiting_render"
          /\ poll' = Polling(Fresh)
          /\ UNCHANGED faults
       \/ Fault /\ UNCHANGED <<outputs, status, poll>>
    /\ UNCHANGED <<dispatcher, thr, editor, rendered, outcome, callback, hook, tries, polled,
                   resume, background, call, operator, history, failures>>

\* fork_from_clips answers wait_for_videos once more, in the checkpoint where the
\* thread waited for the clips: whatever came after it is gone.
ForkFromClips ==
    /\ Act
    /\ editor.pc = "idle"
    /\ thread' = "editing" /\ stray' = FALSE /\ final' = 0
    /\ editor' = [pc |-> "running", render |-> 0]
    /\ forked' = TRUE
    /\ UNCHANGED <<dispatcher, status, stored, service, jobs, call, operator, strayed,
                   faults, failures>>

\* Publishing fails.
LaterFails ==
    /\ status = "later" /\ Fail
    /\ status' = "failed"
    /\ UNCHANGED <<dispatcher, thr, editor, stored, service, jobs, call, operator, history,
                   actions, faults>>
-----------------------------------------------------------------------------
Work(w) == \E r \in Renders : HookBegins(w, r) \/ HookEnds(w, r) \/ PollBegins(w, r) \/ PollEnds(w, r)

Next ==
    \/ EditorSubmits \/ EditorStores \/ EditorParks \/ EditorFails \/ EditorDies
    \/ \E r \in Renders : RenderStarts(r) \/ RenderEnds(r)
    \/ ServiceForgets
    \/ \E r \in Renders : RemotionWebhook(r) \/ CallbackLost(r) \/ BackgroundResume(r)
    \/ \E w \in Workers : Work(w) \/ Crash(w)
    \/ ResumeRender
    \/ OperatorReads \/ OperatorResumes
    \/ \E b \in BOOLEAN : Decide(b) \/ RepairRender(b)
    \/ ForkFromClips
    \/ LaterFails

Spec == Init /\ [][Next]_vars

\* The editor's turn ends, the service renders what it has queued, the workers
\* run their jobs.  Nothing delivers callbacks for certain and nobody has to
\* operate.
Fairness ==
    /\ WF_vars(EditorSubmits \/ EditorStores \/ EditorParks)
    /\ \A r \in Renders : WF_vars(RenderStarts(r)) /\ WF_vars(RenderEnds(r))
    /\ \A w \in Workers : WF_vars(Work(w))
    /\ WF_vars(ResumeRender)

FairSpec == Spec /\ Fairness
-----------------------------------------------------------------------------
(* The abstract specification of the jobs.                                 *)

\* The webhook.remotion jobs, one for each render ...
HookPromise ==
    INSTANCE AtLeastOnce WITH
        Jobs <- Renders, Given <- {}, Executors <- Workers, Limit <- MaxTries,
        state <- hook,
        executing <- [r \in Renders |-> {w \in Workers : call[w].op = "hook" /\ call[w].of = r}],
        starts <- tries

\* ... and the remotion.poll jobs, which the queue takes as often as they are rescheduled.
PollPromise ==
    INSTANCE AtLeastOnce WITH
        Jobs <- Renders, Given <- {}, Executors <- Workers, Limit <- MaxPolls,
        state <- poll,
        executing <- [r \in Renders |-> {w \in Workers : call[w].op = "poll" /\ call[w].of = r}],
        starts <- polled

\* Whatever the two jobs do between their claim and their end, they rely on no more
\* than the queue promises, a poll job is queued once for each render, and an operator's
\* repair takes no liberty with the jobs there are.
PromiseRelied == HookPromise!Spec /\ PollPromise!Spec

-----------------------------------------------------------------------------
(* Properties.                                                             *)

\* However a callback, its retries and the polls of one render cross, its video
\* is stored once (_process_job; the reads for it are not what ensures this).
OneVideoPerRender == IsInjective(rendered)

\* Whatever calls back, only renders the run has recorded give it a video: a
\* render whose submission was not committed never gets to the gate.
VideosAreRecorded == Videos \cup ({final} \ {0}) \subseteq Recorded

\* The thread gets past its wait without a video only after a decision has been
\* given to the wait (wait_for_render_node).
GateHasVideo == (thread \in {"gate", "past"} /\ final = 0) => strayed

\* The row of a run waits for publish approval while its thread is at the gate
\* with a video, and a thread at the gate has left awaiting_render, unless an
\* operator went back, submitted again or gave a decision to the wait.
RowFollowsThread ==
    /\ status = "awaiting_publish_approval" => (thread = "gate" /\ final # 0) \/ forked
    /\ (thread = "gate" /\ status = "awaiting_render") => strayed \/ Len(outputs) > 1

\* Until an operator acts, a run that waits for its render has failed, or the poll of the
\* render recorded last or the resume job is still to come, or has used up its attempts.
\* No poll settles itself and leaves the run to the callback, which nobody sends again.
WaitIsWorkedOn ==
    (dispatcher = "db" /\ thread = "waiting" /\ actions = 0) =>
        \/ status = "failed"
        \/ resume.state \in {"open", "dead"}
        \/ outputs # <<>> /\ poll[Last(outputs)] \in {"open", "dead"}

\* Without an operator, and though its callback may never get there, the render
\* is found by remotion.poll and the thread goes on, or the run fails; unless
\* the service forgot the render, or the poll or the resume job used up its
\* attempts.
RenderEndsWait ==
    (dispatcher = "db" /\ thread = "waiting") ~>
        \/ thread # "waiting" \/ status = "failed" \/ actions > 0
        \/ resume.state = "dead" \/ \E r \in Renders : job[r] = "gone" \/ poll[r] = "dead"

\* nodes.py:1057 on remotion.poll: it "advances the workflow once the output is
\* ready".  Not after fork_from_clips: the key of resume.render is the run's and
\* has been used, so the poll fails in every one of its attempts.
PollAdvances ==
    (/\ dispatcher = "db" /\ thread = "waiting"
     /\ LET r == Last(outputs) IN poll[r] = "open" /\ polled[r] = 0 /\ job[r] = "ended"
                                  /\ outcome[r] = "done")
        ~> thread # "waiting"
=============================================================================
