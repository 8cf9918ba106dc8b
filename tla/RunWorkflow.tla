---------------------------- MODULE RunWorkflow ----------------------------
(***************************************************************************)
(* One run of the video workflow with real providers and the database      *)
(* dispatcher: the LangGraph thread (graph.py, nodes.py), the row of the   *)
(* `runs' table that projects it, and the callers that drive the thread    *)
(* (workers/handlers.py, resume.py, hitl.py, api/routes/langgraph.py).     *)
(*                                                                         *)
(* LangGraph does not lock a thread.  A call loads the latest checkpoint,  *)
(* runs nodes on its own copy of the values and writes a checkpoint after  *)
(* each; a node that interrupts parks the thread.  Jobs are delivered at   *)
(* least once, as module AtLeastOnce has it.                               *)
(***************************************************************************)
EXTENDS Naturals

CONSTANTS
    Callers,      \* worker slots and API requests that can be in flight
    Decisions,    \* the gate decisions people queue
    MaxTries,     \* max_attempts of the jobs, those of sora.poll apart
    MaxFaults,    \* bound: crashed calls and leases lapsed under a live call
    MaxApiCalls,  \* bound: calls of the /approve and /reject routes
    MaxFailures   \* bound: provider failures and clean-up timeouts

Gates    == {"ideation", "publish"}
HitlJobs == {"approve_ideation", "reject_ideation", "approve_publish", "reject_publish"}
JobNames == HitlJobs \cup {"execute", "poll", "videos", "render"}
ApiOps   == {"api_approve", "api_reject"}

ASSUME WorkflowAssumption ==
    /\ Decisions \subseteq HitlJobs
    /\ MaxTries \in Nat \ {0}
    /\ MaxFaults \in Nat
    /\ MaxApiCalls \in Nat
    /\ MaxFailures \in Nat

VARIABLES
    status,       \* runs.status
    ideas,        \* run.artifacts holds the ideator's output
    cp,           \* the latest checkpoint of the thread
    jobs,         \* the state of each job of the run
    tries,        \* jobs.attempts
    call,         \* what each caller is doing
    submissions,  \* number of submissions sora_generate has made
    renders,      \* number of renders remotion_render has started
    uploads,      \* number of uploads upload_post has made
    clipsIn,      \* all clips of the run are stored
    published,    \* a PUBLISHED_URL artifact of the final video is stored
    approvals,    \* history: the gates somebody has approved
    raced,        \* history: a call entered the thread while another was driving it
    faults, apiCalls, failures

spent   == <<submissions, renders, uploads>>
stored  == <<ideas, clipsIn, published>>
history == <<approvals, raced>>
bounds  == <<faults, apiCalls, failures>>
vars    == <<status, cp, jobs, tries, call, spent, stored, history, bounds>>

Terminal == {"completed", "failed", "rejected"}
RunStatus ==
    {"pending", "running", "awaiting_ideation_approval",
     "awaiting_video_generation", "awaiting_render", "awaiting_publish",
     "awaiting_publish_approval"} \cup Terminal

WorkNodes  == {"ideation", "production", "editing", "publishing"}
Waits      == {"wait_for_videos", "wait_for_render"}
Interrupts == {"ideation_approval", "publish_approval"} \cup Waits
Nodes      == WorkNodes \cup Interrupts \cup {"START", "END"}
Steps      == {"ideation", "production", "wait_for_videos", "editing",
               "wait_for_render", "publish_approval", "publishing", "completed"}

\* The part of VideoWorkflowState that guards and routes read.
Values ==
    [status: RunStatus, step: Steps, ideasOk: BOOLEAN, clips: BOOLEAN,
     final: BOOLEAN, publishOk: BOOLEAN]

InitialValues ==
    [status |-> "running", step |-> "ideation", ideasOk |-> FALSE,
     clips |-> FALSE, final |-> FALSE, publishOk |-> FALSE]

\* id stands for the identity of the pending interrupt; LangGraph keeps with it
\* an answer that a wait node had no use for (stray).
Checkpoint == [next: Nodes, parked: BOOLEAN, id: Nat, stray: BOOLEAN, values: Values]

GateOf(j)     == IF j \in {"approve_ideation", "reject_ideation"} THEN "ideation" ELSE "publish"
Approves(o)   == o \in {"approve_ideation", "approve_publish", "api_approve"}
GateNode(g)   == IF g = "ideation" THEN "ideation_approval" ELSE "publish_approval"
GateStatus(g) == IF g = "ideation" THEN "awaiting_ideation_approval"
                                   ELSE "awaiting_publish_approval"

\* pc: a handler has begun, checked the row and found an interrupt; then the
\* graph stands before, inside, polling in or after the code of node `at';
\* then ainvoke has returned or raised.
Call ==
    [op: JobNames \cup ApiOps \cup {"none"},
     pc: {"idle", "begun", "checked", "found", "node", "acted", "polling",
          "concluded", "returned", "raised"},
     at: Nodes, id: Nat, used: BOOLEAN, values: Values]

NoCall ==
    [op |-> "none", pc |-> "idle", at |-> "START", id |-> 0, used |-> FALSE,
     values |-> InitialValues]

TypeOK ==
    /\ status \in RunStatus
    /\ cp \in Checkpoint
    /\ jobs \in [JobNames -> {"absent", "open", "done", "dead"}]
    /\ tries \in [JobNames -> Nat]
    /\ call \in [Callers -> Call]
    /\ submissions \in Nat /\ renders \in Nat /\ uploads \in Nat
    /\ ideas \in BOOLEAN /\ clipsIn \in BOOLEAN /\ published \in BOOLEAN
    /\ approvals \in SUBSET Gates
    /\ raced \in BOOLEAN
    /\ faults \in Nat /\ apiCalls \in Nat /\ failures \in Nat

\* start_run has committed the pending row and its run.execute job.
Init ==
    /\ status = "pending"
    /\ cp = [next |-> "START", parked |-> FALSE, id |-> 0, stray |-> FALSE,
             values |-> InitialValues]
    /\ jobs = [j \in JobNames |-> IF j = "execute" THEN "open" ELSE "absent"]
    /\ tries = [j \in JobNames |-> 0]
    /\ call = [c \in Callers |-> NoCall]
    /\ submissions = 0 /\ renders = 0 /\ uploads = 0
    /\ ideas = FALSE /\ clipsIn = FALSE /\ published = FALSE
    /\ approvals = {} /\ raced = FALSE
    /\ faults = 0 /\ apiCalls = 0 /\ failures = 0
-----------------------------------------------------------------------------
(* Delivery of jobs.                                                       *)

Free(c)      == call[c].pc = "idle"
Executing(j) == \E c \in Callers : call[c].op = j
Enqueued(j)  == [jobs EXCEPT ![j] = IF @ = "absent" THEN "open" ELSE @]

\* A worker claims an open job, one that is still executed only after its
\* lease has lapsed.
TakeJob(c, j) ==
    /\ Free(c)
    /\ jobs[j] = "open"
    /\ \/ ~Executing(j) /\ UNCHANGED faults
       \/ Executing(j) /\ faults < MaxFaults /\ faults' = faults + 1
    /\ tries' = [tries EXCEPT ![j] = IF j = "poll" THEN 0 ELSE @ + 1]
    /\ call' = [call EXCEPT ![c] = [NoCall EXCEPT !.op = j, !.pc = "begun"]]
    /\ UNCHANGED <<status, cp, jobs, spent, stored, history, apiCalls, failures>>

Hangup(c) == call' = [call EXCEPT ![c] = NoCall]

\* The handler returns: mark_succeeded_async.
JobDone(c) ==
    /\ Hangup(c)
    /\ jobs' = IF call[c].op \in JobNames THEN [jobs EXCEPT ![call[c].op] = "done"] ELSE jobs

\* The handler raises: mark_failed_async.
JobRetried(c) ==
    /\ Hangup(c)
    /\ jobs' = IF call[c].op \in JobNames
                 THEN [jobs EXCEPT ![call[c].op] =
                        IF tries[call[c].op] >= MaxTries THEN "dead" ELSE "open"]
                 ELSE jobs
-----------------------------------------------------------------------------
(* The beginnings of the handlers.                                         *)

At(c, o, p) == call[c].pc = p /\ call[c].op \in o

\* A handler goes on if the row has status s, and is skipped otherwise.
CheckRow(c, o, s) ==
    /\ At(c, o, "begun")
    /\ IF status = s
         THEN call' = [call EXCEPT ![c].pc = "checked"] /\ UNCHANGED jobs
         ELSE JobDone(c)
    /\ UNCHANGED <<status, cp, tries, spent, stored, history, bounds>>

CheckExecute(c) == CheckRow(c, {"execute"}, "pending")
CheckPoll(c)    == CheckRow(c, {"poll"}, "awaiting_video_generation")
CheckGate(c)    == \E g \in Gates :
                      CheckRow(c, {j \in HitlJobs : GateOf(j) = g}, GateStatus(g))

\* From its check of the row or the thread until it is back, a call relies on
\* nobody else driving the thread.
Driving(c) == call[c].op # "poll" /\ call[c].pc \notin {"idle", "begun"}

\* A call enters the thread.
Enter(c) == raced' = (raced \/ \E d \in Callers \ {c} : Driving(d))

\* run_workflow_async: RUNNING is committed and the graph is entered with
\* fresh input, which leaves the other values of the thread as they are.
StartGraph(c) ==
    /\ At(c, {"execute"}, "checked")
    /\ status' = "running"
    /\ LET v == [cp.values EXCEPT !.status = "running", !.step = "ideation"] IN
        /\ cp' = [cp EXCEPT !.next = "ideation", !.parked = FALSE, !.stray = FALSE,
                           !.values = v]
        /\ call' = [call EXCEPT ![c].pc = "node", ![c].at = "ideation", ![c].values = v]
    /\ Enter(c)
    /\ UNCHANGED <<jobs, tries, spent, stored, approvals, bounds>>

\* Mutant: a decision answers whatever interrupt is pending.
FindGateAnywhere(c) ==
    /\ At(c, HitlJobs, "checked")
    /\ IF cp.parked
         THEN /\ call' = [call EXCEPT ![c].pc = "found", ![c].id = cp.id]
              /\ UNCHANGED jobs
         ELSE JobRetried(c)
    /\ UNCHANGED <<status, cp, tries, spent, stored, history, bounds>>

\* resume_hitl_gate: the pending interrupt must be that gate's.
FindGate(c) ==
    /\ At(c, HitlJobs, "checked")
    /\ IF cp.parked /\ cp.next = GateNode(GateOf(call[c].op))
         THEN /\ call' = [call EXCEPT ![c].pc = "found", ![c].id = cp.id]
              /\ UNCHANGED jobs
         ELSE JobRetried(c)
    /\ UNCHANGED <<status, cp, tries, spent, stored, history, bounds>>

\* The polling loop of resume_after_videos and resume_after_render.
WaitNode(j)  == IF j = "videos" THEN "wait_for_videos" ELSE "wait_for_render"
WaitSteps(j) == IF j = "videos" THEN {"production", "wait_for_videos"}
                                ELSE {"editing", "wait_for_render"}
PastWait(j) ==
    /\ cp.next # "START"
    /\ cp.values.status \in Terminal \/ cp.values.step \notin WaitSteps(j)

\* Mutant: without its interrupt, the job resumes a thread that is not past it.
FindWaitAnywhere(c) ==
    /\ At(c, {"videos", "render"}, "begun")
    /\ IF PastWait(call[c].op)
         THEN JobDone(c)
         ELSE /\ call' = [call EXCEPT ![c].pc = "found", ![c].id = cp.id]
              /\ UNCHANGED jobs
    /\ UNCHANGED <<status, cp, tries, spent, stored, history, bounds>>

FindWait(c) ==
    /\ At(c, {"videos", "render"}, "begun")
    /\ LET j == call[c].op IN
        \/ /\ cp.parked /\ cp.next = WaitNode(j)
           /\ call' = [call EXCEPT ![c].pc = "found", ![c].id = cp.id]
           /\ UNCHANGED jobs
        \/ /\ ~(cp.parked /\ cp.next = WaitNode(j))
           /\ PastWait(j)
           /\ JobDone(c)      \* skipping resume
        \/ /\ ~(cp.parked /\ cp.next = WaitNode(j))
           /\ ~PastWait(j)
           /\ JobRetried(c)   \* ResumeRetryableError
    /\ UNCHANGED <<status, cp, tries, spent, stored, history, bounds>>

\* approve_interrupt and reject_interrupt: whatever interrupt is pending.
ApiCall(c, o) ==
    /\ Free(c)
    /\ apiCalls < MaxApiCalls
    /\ apiCalls' = apiCalls + 1
    /\ cp.parked
    /\ call' = [call EXCEPT ![c] = [NoCall EXCEPT !.op = o, !.pc = "found", !.id = cp.id]]
    /\ approvals' = approvals \cup
            {g \in Gates : o = "api_approve" /\ cp.next = GateNode(g)}
    /\ UNCHANGED <<status, cp, jobs, tries, spent, stored, raced, faults, failures>>

\* public_demo_approve, public_demo_reject and the Telegram callback queue a
\* decision on the gate the run's status names.
RequestGate(j) ==
    /\ status = GateStatus(GateOf(j))
    /\ jobs[j] = "absent"
    /\ jobs' = Enqueued(j)
    /\ approvals' = IF Approves(j) THEN approvals \cup {GateOf(j)} ELSE approvals
    /\ UNCHANGED <<status, cp, tries, call, spent, stored, raced, bounds>>
-----------------------------------------------------------------------------
(* The graph.                                                              *)

\* The thread reaches node n with values v.
Proceed(c, n, v) ==
    /\ cp' = [next |-> n, parked |-> n \in Interrupts,
              id |-> IF n \in Interrupts THEN cp.id + 1 ELSE cp.id, stray |-> FALSE,
              values |-> v]
    /\ call' = [call EXCEPT ![c].pc = IF n \in WorkNodes THEN "node" ELSE "returned",
                            ![c].at = n, ![c].used = FALSE, ![c].values = v]

\* The approval and wait nodes, once answered, and the edges out of them.
AnswerIdeation(c, v) ==
    IF Approves(call[c].op)
      THEN Proceed(c, "production", [v EXCEPT !.ideasOk = TRUE, !.step = "production"])
      ELSE Proceed(c, "END", [v EXCEPT !.ideasOk = FALSE, !.status = "rejected"])

\* Mutant: the node goes on whatever the answer is.
AnswerPublishUnread(c, v) ==
    Proceed(c, "publishing", [v EXCEPT !.publishOk = TRUE, !.step = "publishing"])

AnswerPublish(c, v) ==
    IF Approves(call[c].op)
      THEN Proceed(c, "publishing", [v EXCEPT !.publishOk = TRUE, !.step = "publishing"])
      ELSE Proceed(c, "END", [v EXCEPT !.publishOk = FALSE, !.status = "rejected"])

AnswerVideos(c, v) ==
    Proceed(c, "editing", [v EXCEPT !.clips = TRUE, !.step = "editing", !.status = "running"])

AnswerRender(c, v) ==
    Proceed(c, "publish_approval",
            [v EXCEPT !.final = TRUE, !.step = "publish_approval",
                      !.status = "awaiting_publish_approval"])

\* A decision is no answer to a wait: without URLs the node interrupts again ...
KeepWaiting(c, v) ==
    /\ call' = [call EXCEPT ![c].pc = "returned", ![c].values = v]
    /\ cp' = [cp EXCEPT !.stray = TRUE]

\* ... and returns what the second interrupt yields as it is.  Neither URLs nor
\* a decision are fields of the state: the thread goes on without the URLs, or
\* (LangGraph has changed in this; any version from 0.2.0 will do) raises.
StopWaiting(c, v) ==
    \/ Proceed(c, IF cp.next = "wait_for_videos" THEN "editing" ELSE "publish_approval", v)
    \/ call' = [call EXCEPT ![c].pc = "raised"] /\ UNCHANGED cp

Answer(c) ==
    LET v == cp.values
        o == call[c].op
    IN  CASE cp.next = "ideation_approval" -> AnswerIdeation(c, v)
          [] cp.next = "publish_approval" -> AnswerPublish(c, v)
          [] cp.next \in Waits /\ cp.stray -> StopWaiting(c, v)
          [] cp.next = "wait_for_videos" /\ ~cp.stray /\ o = "videos" -> AnswerVideos(c, v)
          [] cp.next = "wait_for_render" /\ ~cp.stray /\ o = "render" -> AnswerRender(c, v)
          [] OTHER -> KeepWaiting(c, v)

IdIsPending(c) == cp.parked /\ cp.id = call[c].id

\* ainvoke(Command(resume = {id: answer})) on the latest checkpoint.  An id
\* that is not pending any more is ignored and the pending nodes run as they
\* are: an interrupt parks again, a work node is executed once more.
Resume(c) ==
    /\ call[c].pc = "found"
    /\ \/ IdIsPending(c) /\ Answer(c)
       \/ /\ ~IdIsPending(c)
          /\ call' = [call EXCEPT ![c].pc = IF cp.next \in WorkNodes THEN "node" ELSE "returned",
                                  ![c].at = cp.next, ![c].values = cp.values]
          /\ UNCHANGED cp
    /\ Enter(c)
    /\ UNCHANGED <<status, jobs, tries, spent, stored, approvals, bounds>>

In(c, n, p) == call[c].pc = p /\ call[c].at = n

\* A node's turn of its agent has ended, in which the agent may or may not
\* have used the tool.
Acted(c, used) == call' = [call EXCEPT ![c].pc = "acted", ![c].used = used]

\* A node returns; v is the state with its update.
Conclude(c, v) == call' = [call EXCEPT ![c].pc = "concluded", ![c].values = v]

\* A node raises, or its router names a destination its path map lacks: the
\* node is not checkpointed and ainvoke raises.
Raise(c) == call' = [call EXCEPT ![c].pc = "raised"]

\* The checkpoint after a node, and the edge out of it.
Successor(n) == CASE n = "ideation"   -> "ideation_approval"
                  [] n = "production" -> "wait_for_videos"
                  [] n = "editing"    -> "wait_for_render"
                  [] OTHER            -> "END"

Advance(c) ==
    /\ call[c].pc = "concluded"
    /\ Proceed(c, Successor(call[c].at), call[c].values)
    /\ UNCHANGED <<status, jobs, tries, spent, stored, history, bounds>>

\* ideation_node.  A blocked brief or output is returned as a failed status,
\* which the edge to ideation_approval does not look at.
Ideation(c) ==
    /\ In(c, "ideation", "node")
    /\ \/ /\ status' = "awaiting_ideation_approval"
          /\ ideas' = TRUE
          /\ Conclude(c, [call[c].values EXCEPT !.step = "ideation",
                                                !.status = "awaiting_ideation_approval"])
       \/ /\ Conclude(c, [call[c].values EXCEPT !.status = "failed"])
          /\ UNCHANGED <<status, ideas>>
       \/ /\ Raise(c)
          /\ UNCHANGED <<status, ideas>>
    /\ UNCHANGED <<cp, jobs, tries, spent, clipsIn, published, history, bounds>>

\* production_node up to the end of the producer's turn.
ProductionTurn(c) ==
    /\ In(c, "production", "node")
    /\ call[c].values.ideasOk /\ ideas
    /\ status' = "awaiting_video_generation"
    /\ \E used \in BOOLEAN :
        /\ Acted(c, used)
        /\ submissions' = IF used THEN submissions + 1 ELSE submissions
    /\ UNCHANGED <<cp, jobs, tries, renders, uploads, stored, history, bounds>>

\* production_node refuses: not approved, no ideas, or blocked input.  Its
\* router then names END, which the path map of "production" lacks.
ProductionRefused(c) ==
    /\ In(c, "production", "node")
    /\ Raise(c)
    /\ UNCHANGED <<status, cp, jobs, tries, spent, stored, history, bounds>>

\* production_node after the turn: submitted tasks (of this turn, or of the
\* manifest of an earlier one), a turn without any, blocked output or an
\* exception.
ProductionEnds(c) ==
    /\ In(c, "production", "acted")
    /\ \/ /\ call[c].used \/ submissions > 0
          /\ status' = "awaiting_video_generation"
          /\ jobs' = Enqueued("poll")
          /\ Conclude(c, [call[c].values EXCEPT !.step = "wait_for_videos",
                                                !.status = "awaiting_video_generation"])
       \/ /\ status' = "failed"
          /\ Raise(c)
          /\ UNCHANGED jobs
       \/ /\ Raise(c)
          /\ UNCHANGED <<status, jobs>>
    /\ UNCHANGED <<cp, tries, spent, stored, history, bounds>>

\* editing_node: the editor's turn, then awaiting_render or a failure whose
\* route to END is missing from the path map too.
EditingTurn(c) ==
    /\ In(c, "editing", "node")
    /\ call[c].values.clips /\ clipsIn
    /\ \E used \in BOOLEAN :
        /\ Acted(c, used)
        /\ renders' = IF used THEN renders + 1 ELSE renders
    /\ UNCHANGED <<status, cp, jobs, tries, submissions, uploads, stored, history, bounds>>

EditingEnds(c) ==
    /\ \/ /\ In(c, "editing", "acted") /\ call[c].used
          /\ status' = "awaiting_render"
          /\ Conclude(c, [call[c].values EXCEPT !.step = "wait_for_render",
                                                !.status = "awaiting_render"])
       \/ /\ In(c, "editing", "node") \/ In(c, "editing", "acted")
          /\ Raise(c)
          /\ UNCHANGED status
    /\ UNCHANGED <<cp, jobs, tries, spent, stored, history, bounds>>

\* The POST to Upload-Post.  Whatever comes back (a URL, a request id, a refusal, no
\* JSON, nothing) is the tool's answer; the upload may have been made by then.
Upload == uploads' = uploads + 1

\* upload_post answers with the stored URL of the video if it finds one, and uploads
\* the video otherwise.
UploadPost == IF published THEN UNCHANGED uploads ELSE Upload

\* publishing_node: the publisher's turn (or the direct fallback) ...
PublishingTurn(c) ==
    /\ In(c, "publishing", "node")
    /\ call[c].values.publishOk /\ call[c].values.final
    /\ \E used \in BOOLEAN :
        /\ Acted(c, used)
        /\ IF used THEN UploadPost ELSE UNCHANGED uploads
    /\ UNCHANGED <<status, cp, jobs, tries, submissions, renders, stored, history, bounds>>

\* ... an upload without a URL yet is polled in the node ...
PublishingPolls(c) ==
    /\ In(c, "publishing", "acted") /\ call[c].used
    /\ status' = "awaiting_publish"
    /\ call' = [call EXCEPT ![c].pc = "polling"]
    /\ UNCHANGED <<cp, jobs, tries, spent, stored, history, bounds>>

\* Where a URL may come from: the tool's answer, or the status that is polled.
UrlKnown(c) == (In(c, "publishing", "acted") /\ call[c].used) \/ In(c, "publishing", "polling")

\* ... and the node ends with a URL, which it stores, ...
PublishingCompletes(c) ==
    /\ UrlKnown(c)
    /\ status' = "completed"
    /\ published' = TRUE
    /\ Conclude(c, [call[c].values EXCEPT !.status = "completed", !.step = "completed"])

\* ... without one, which it commits as a failure, ...
PublishingFails(c) ==
    /\ In(c, "publishing", "acted") \/ In(c, "publishing", "polling")
    /\ status' = "failed"
    /\ Conclude(c, [call[c].values EXCEPT !.status = "failed"])
    /\ UNCHANGED published

\* ... or with an answer of the tool, a blocked text or an exception that only the
\* result of the node tells of.
PublishingStops(c) ==
    /\ \E p \in {"node", "acted", "polling"} : In(c, "publishing", p)
    /\ Conclude(c, [call[c].values EXCEPT !.status = "failed"])
    /\ UNCHANGED <<status, published>>

PublishingEnds(c) ==
    /\ PublishingCompletes(c) \/ PublishingFails(c) \/ PublishingStops(c)
    /\ UNCHANGED <<cp, jobs, tries, spent, ideas, clipsIn, history, bounds>>

\* Mutants: no snapshot after a decision, or one with a status that is not one.
ReturnUnprojected(c) ==
    /\ call[c].pc = "returned"
    /\ status' = IF call[c].op \in {"videos", "render"} THEN call[c].values.status ELSE status
    /\ JobDone(c)
    /\ UNCHANGED <<cp, tries, spent, stored, history, bounds>>

ReturnStep(c) ==
    /\ call[c].pc = "returned"
    /\ status' = call[c].values.step
    /\ JobDone(c)
    /\ UNCHANGED <<cp, tries, spent, stored, history, bounds>>

\* ainvoke has returned.  _GraphWrapper writes the status of the result into
\* the row after a resume, and reject_interrupt then writes "rejected".
Return(c) ==
    /\ call[c].pc = "returned"
    /\ status' = CASE call[c].op = "execute"    -> status
                   [] call[c].op = "api_reject" -> "rejected"
                   [] OTHER                     -> call[c].values.status
    /\ JobDone(c)
    /\ UNCHANGED <<cp, tries, spent, stored, history, bounds>>

\* Mutant: the exception of a run is swallowed without failing it.
ReturnErrorSwallowed(c) ==
    /\ call[c].pc = "raised"
    /\ JobDone(c)
    /\ UNCHANGED <<status, cp, tries, spent, stored, history, bounds>>

\* ainvoke has raised.  run_workflow_async and the resume helpers fail the
\* run and swallow the exception; the gate handler lets the worker retry.
ReturnError(c) ==
    /\ call[c].pc = "raised"
    /\ IF call[c].op \in {"execute", "videos", "render"}
         THEN status' = "failed" /\ JobDone(c)
         ELSE JobRetried(c) /\ UNCHANGED status
    /\ UNCHANGED <<cp, tries, spent, stored, history, bounds>>

\* The process of a call dies.  A job stays open until its lease expires.
Crash(c) ==
    /\ ~Free(c)
    /\ faults < MaxFaults
    /\ faults' = faults + 1
    /\ Hangup(c)
    /\ UNCHANGED <<status, cp, jobs, tries, spent, stored, history, apiCalls, failures>>
-----------------------------------------------------------------------------
(* Providers and operators.                                                *)

\* webhook.sora stores the last clip, under a lock on the row.
ClipsArrive ==
    /\ submissions > 0 /\ ~clipsIn
    /\ clipsIn' = TRUE
    /\ IF status = "failed"
         THEN UNCHANGED <<status, jobs>>
         ELSE /\ status' = IF status = "awaiting_video_generation" THEN "awaiting_render" ELSE status
              /\ jobs' = Enqueued("videos")
    /\ UNCHANGED <<cp, tries, call, spent, ideas, published, history, bounds>>

\* The rest of sora.poll, which goes by the status it read before it asked
\* the provider and transcoded: not ready yet (or the resume job exists and
\* the commit fails), complete, or failed.
PollEnds(c) ==
    /\ At(c, {"poll"}, "checked")
    /\ \/ /\ Hangup(c)
          /\ UNCHANGED <<status, jobs, clipsIn, failures>>
       \/ /\ jobs["videos"] = "absent"
          /\ Hangup(c)
          /\ jobs' = [jobs EXCEPT !["videos"] = "open", !["poll"] = "done"]
          /\ clipsIn' = TRUE
          /\ status' = "awaiting_render"
          /\ UNCHANGED failures
       \/ /\ ~clipsIn
          /\ failures < MaxFailures
          /\ failures' = failures + 1
          /\ JobDone(c)
          /\ status' = "failed"
          /\ UNCHANGED clipsIn
    /\ UNCHANGED <<cp, tries, spent, ideas, published, history, faults, apiCalls>>

\* The render is stored (webhook.remotion, remotion.poll).
RenderArrives ==
    /\ renders > 0
    /\ status \in {"awaiting_render", "awaiting_publish_approval", "completed"}
    /\ jobs["render"] = "absent"
    /\ jobs' = Enqueued("render")
    /\ UNCHANGED <<status, cp, tries, call, spent, stored, history, bounds>>

\* get_stuck_runs; how long the run has been waiting is left out.
Stuck == status \in {"awaiting_video_generation", "awaiting_render"}

\* A webhook reports a failure, or timeout_stuck_runs gives the run up.
RunFails ==
    /\ failures < MaxFailures
    /\ failures' = failures + 1
    /\ \/ submissions > 0 \/ renders > 0
       \/ Stuck
    /\ status' = "failed"
    /\ UNCHANGED <<cp, jobs, tries, call, spent, stored, history, faults, apiCalls>>
-----------------------------------------------------------------------------

Step(c) ==
    \/ CheckExecute(c) \/ StartGraph(c) \/ CheckGate(c) \/ FindGate(c) \/ FindWait(c)
    \/ CheckPoll(c) \/ PollEnds(c)
    \/ Resume(c) \/ Advance(c) \/ Ideation(c)
    \/ ProductionTurn(c) \/ ProductionRefused(c) \/ ProductionEnds(c)
    \/ EditingTurn(c) \/ EditingEnds(c)
    \/ PublishingTurn(c) \/ PublishingPolls(c) \/ PublishingEnds(c)
    \/ Return(c) \/ ReturnError(c)

Take(c) == \E j \in JobNames : TakeJob(c, j)

Next ==
    \/ \E c \in Callers : Take(c) \/ Step(c) \/ Crash(c) \/ \E o \in ApiOps : ApiCall(c, o)
    \/ \E j \in Decisions : RequestGate(j)
    \/ ClipsArrive \/ RenderArrives \/ RunFails

Spec == Init /\ [][Next]_vars

\* Workers take jobs and calls end; the providers answer.  Nobody has to
\* decide a gate, and no fault has to happen.
Fairness ==
    /\ \A c \in Callers : WF_vars(Take(c)) /\ WF_vars(Step(c))
    /\ WF_vars(ClipsArrive) /\ WF_vars(RenderArrives)

FairSpec == Spec /\ Fairness
-----------------------------------------------------------------------------
(* The abstract specification of the jobs.                                 *)

\* The attempts of sora.poll are not counted here; ClipIngest counts them.
Delivered == JobNames \ {"poll"}

\* A caller executes a job from its claim until its handler is back.
Promise ==
    INSTANCE AtLeastOnce WITH
        Jobs <- Delivered, Given <- {"execute"}, Executors <- Callers, Limit <- MaxTries,
        state <- [j \in Delivered |-> jobs[j]],
        executing <- [j \in Delivered |-> {c \in Callers : call[c].op = j}],
        starts <- [j \in Delivered |-> tries[j]]

\* The handlers and the graph take no liberty with a job that the queue does not
\* promise: whatever a handler does before it returns or raises, its job is
\* settled once it is back and not before, a job nobody executes is left alone,
\* and none is given up before its last attempt.
PromiseRelied == Promise!Spec

\* What the whole of it comes to for those who pay for a run and decide on it.
Video == INSTANCE VideoRun WITH completed <- status = "completed"

\* However many calls drive the thread at once, whatever is delivered twice and whatever
\* crashes: the guards of the nodes, the ids of the interrupts and the values of the
\* thread together keep the order of VideoRun, step by step.
OrderKept == Video!Spec
-----------------------------------------------------------------------------
(* Properties.                                                             *)

\* No clip is paid for before somebody has approved the ideas, and nothing is
\* uploaded before both gates have been approved, whatever calls race on the
\* thread, whatever is delivered twice and whatever crashes: interrupt ids,
\* the values in the checkpoint and the guards of production_node and
\* publishing_node together keep the two HITL gates shut.
NothingUnapproved ==
    /\ submissions > 0 => "ideation" \in approvals
    /\ uploads > 0 => approvals = Gates

\* The providers are paid a second time for one run only if two calls drove
\* its thread at once.  Crashes, retries of run.execute and of the resume and
\* gate jobs, repeated decisions and failed nodes alone never repeat a turn
\* that used its tool: every way back into the thread is barred by the row's
\* status or by the missing interrupt.
SecondSpendNeedsRace ==
    (submissions > 1 \/ renders > 1 \/ uploads > 1) => raced

Quiet == \A c \in Callers : Free(c)

\* Without races and crashes, the row of a run whose thread has reached END
\* shows how it ended once every call is back: the commits of the nodes, the
\* snapshot of _GraphWrapper and the writers outside of the graph
\* (webhook.sora, sora.poll, remotion, clean-up) do not leave it waiting.
EndIsProjected ==
    (cp.next = "END" /\ Quiet /\ ~raced /\ faults = 0) => status \in Terminal

\* The way of a thread through the graph (build_video_workflow).
Place(n) ==
    CASE n = "START" -> 0              [] n = "ideation" -> 1
      [] n = "ideation_approval" -> 2  [] n = "production" -> 3
      [] n = "wait_for_videos" -> 4    [] n = "editing" -> 5
      [] n = "wait_for_render" -> 6    [] n = "publish_approval" -> 7
      [] n = "publishing" -> 8         [] n = "END" -> 9

\* Until two calls have raced, a thread never goes back, and one that has ended stays as
\* it is: a second delivery of run.execute, a retry, a late decision or a resume with an
\* interrupt that is not pending any more finds the thread where it was left.
ThreadGoesForward ==
    [][~raced' =>
        /\ cp'.next # cp.next => Place(cp.next) < Place(cp'.next)
        /\ cp.next = "END" => cp' = cp]_vars

\* A run is completed only when the whole of it has happened: both gates approved, clips
\* and a render made, and the video uploaded, with its URL stored.  This holds with any
\* number of calls at once; no two of them together take a thread past a node that
\* neither has executed, and no snapshot completes a row whose thread has not.
CompletedIsWhole ==
    status = "completed" =>
        /\ published /\ approvals = Gates
        /\ submissions > 0 /\ renders > 0 /\ uploads > 0

\* A run that has been accepted gets as far as a first interrupt, or fails.
\* docs/explanation/scaling.md: "If a worker crashes mid-job, the job lease
\* expires and another worker retries.  LangGraph checkpoints provide state
\* persistence between attempts."
AcceptedRunsGetGoing ==
    (status = "pending") ~> (cp.parked \/ status \in Terminal)

-----------------------------------------------------------------------------
(* Statements of the code's comments that do not hold; no run checks them. *)

\* tools/publish.py: "if this video_url was already published for this
\* run_id, returns the existing published_url instead of re-publishing".
UploadedOnce == uploads <= 1

\* api/routes/langgraph.py on reject_interrupt: "Reject an interrupt and end
\* workflow."
RejectionEndsWorkflow == [][status = "rejected" => status' = "rejected"]_vars

=============================================================================
