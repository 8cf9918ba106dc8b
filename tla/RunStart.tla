------------------------------ MODULE RunStart ------------------------------
(***************************************************************************)
(* How runs come into being, with real providers: the five doors of the    *)
(* API process (runs.py, langgraph.py, public_demo.py, telegram.py and     *)
(* chat.py, the last two through the supervisor's start_workflow tool),    *)
(* the two dispatchers, and the first node of the graph up to its gate.    *)
(*                                                                         *)
(* A handler of the API is a coroutine or a thread: between two of its     *)
(* steps it awaits, and other handlers go on.  What happens to a run after *)
(* its first gate is module RunWorkflow's subject; here it is followed     *)
(* only as far as the doors look at runs.status again.  Workflows run in   *)
(* the background, as disable_background_workflows is off outside tests.   *)
(***************************************************************************)
EXTENDS Naturals, FiniteSets

CONSTANTS
    Handlers,     \* the requests the API can have in flight
    Runs,         \* the rows of the `runs' table there may be
    Updates,      \* messages sent to the Telegram webhook
    Chats,        \* messages sent to the supervisor's chat route
    MaxRuns,      \* the runs either limit allows in 24 hours, the smaller one
    MaxMessages,  \* bound: deliveries of messages
    MaxCrashes,   \* bound: crashes of the API or of a worker
    NoRun, NoMessage

Messages == Updates \cup Chats
Doors    == {"runs", "langgraph", "demo", "supervisor"}
Budgeted == {"runs", "langgraph"}   \* the doors that look at the budget

ASSUME StartAssumption ==
    /\ IsFiniteSet(Handlers) /\ Handlers # {}
    /\ IsFiniteSet(Runs) /\ NoRun \notin Runs
    /\ Updates \cap Chats = {} /\ NoMessage \notin Messages
    /\ MaxRuns \in Nat /\ MaxMessages \in Nat /\ MaxCrashes \in Nat

VARIABLES
    dispatcher,   \* settings.workflow_dispatcher
    req,          \* what each handler is doing
    status,       \* runs.status, "none" without a row
    door,         \* the door a run came in by
    about,        \* the message whose brief and user the row carries
    thread,       \* the status in the run's graph state, "none" before it
    job,          \* the run.execute job of each run
    young,        \* the runs created in the last 24 hours
    keys,         \* _idempotency_cache of this process
    messages,     \* number of messages delivered
    lapsed,       \* history: updates whose key has expired or was lost
    twins,        \* history: updates with two turns between look-up and insert
    outrun,       \* history: runs that start_run's last write did not leave as their thread
    lost,         \* history: runs whose executing process died
    dropped,      \* history: runs that an error left without a word in their row
    crashes

history == <<lapsed, twins, outrun, lost, dropped>>
vars == <<dispatcher, req, status, door, about, thread, job, young, keys, messages,
          history, crashes>>

Gate == "awaiting_ideation_approval"

\* awaiting_video_generation stands for all the statuses between the first gate
\* and the upload; the doors do not tell them apart.
Statuses == {"pending", "running", Gate, "awaiting_video_generation", "awaiting_publish",
             "completed", "failed", "rejected"}

\* _dedupe of StartWorkflowTool, whose list lacks awaiting_publish.
Deduped == {"pending", "running", Gate, "awaiting_video_generation", "completed"}

\* pc: past the budget guard, in a supervisor's turn, past the look-up of the
\* tool, about to run the graph (in a task or a tool, or in the request itself),
\* in the graph, back from it (langgraph).
Request ==
    [pc: {"idle", "counted", "turn", "looked", "task", "opening", "graph", "returned"},
     door: Doors, msg: Messages \cup {NoMessage}, run: Runs \cup {NoRun},
     result: Statuses]

NoRequest ==
    [pc |-> "idle", door |-> "runs", msg |-> NoMessage, run |-> NoRun, result |-> "running"]

TypeOK ==
    /\ dispatcher \in {"db", "background"}
    /\ req \in [Handlers -> Request]
    /\ status \in [Runs -> Statuses \cup {"none"}]
    /\ door \in [Runs -> Doors]
    /\ about \in [Runs -> Messages \cup {NoMessage}]
    /\ thread \in [Runs -> Statuses \cup {"none"}]
    /\ job \in [Runs -> {"none", "queued", "taken", "done"}]
    /\ young \in SUBSET Runs
    /\ keys \in SUBSET Updates
    /\ messages \in Nat
    /\ lapsed \in SUBSET Updates /\ twins \in SUBSET Messages
    /\ outrun \in SUBSET Runs /\ lost \in SUBSET Runs /\ dropped \in SUBSET Runs
    /\ crashes \in Nat

Init ==
    /\ dispatcher \in {"db", "background"}
    /\ req = [h \in Handlers |-> NoRequest]
    /\ status = [r \in Runs |-> "none"]
    /\ door = [r \in Runs |-> "runs"]
    /\ about = [r \in Runs |-> NoMessage]
    /\ thread = [r \in Runs |-> "none"]
    /\ job = [r \in Runs |-> "none"]
    /\ young = {} /\ keys = {}
    /\ messages = 0
    /\ lapsed = {} /\ twins = {} /\ outrun = {} /\ lost = {} /\ dropped = {}
    /\ crashes = 0

rows == <<status, door, about, thread, job, young>>

Executed(r) ==
    \/ job[r] \in {"queued", "taken"}
    \/ \E h \in Handlers : req[h].run = r /\ req[h].pc \in {"task", "opening", "graph", "returned"}
-----------------------------------------------------------------------------
(* Requests come in.                                                       *)

At(h, p)   == req[h].pc = p
From(h, d) == req[h].door = d
Goes(h, p) == req' = [req EXCEPT ![h].pc = p]
Ends(h)    == req' = [req EXCEPT ![h] = NoRequest]

\* Bound: requests are followed while a row is left that they might create.
RowLeft == \E r \in Runs : status[r] = "none"

Turn(h, m) ==
    req' = [req EXCEPT ![h] = [NoRequest EXCEPT !.pc = "turn", !.door = "supervisor", !.msg = m]]

\* Mutant: the turn is started without the look into the cache.
TelegramUnkeyed(h, m) ==
    /\ At(h, "idle") /\ RowLeft
    /\ messages < MaxMessages
    /\ messages' = messages + 1
    /\ keys' = keys \cup {m}
    /\ Turn(h, m)
    /\ UNCHANGED <<dispatcher, rows, history, crashes>>

\* telegram_webhook: Telegram delivers an update again until it is answered,
\* and the answer comes after the supervisor's turn.
TelegramWebhook(h, m) ==
    /\ At(h, "idle") /\ RowLeft
    /\ messages < MaxMessages
    /\ messages' = messages + 1
    /\ keys' = keys \cup {m}
    /\ IF m \in keys THEN UNCHANGED req ELSE Turn(h, m)
    /\ UNCHANGED <<dispatcher, rows, history, crashes>>

\* The entry of the cache is 60 seconds old; the turn may well take longer.
\* Bound: it does not matter once the last message has been delivered.
KeyExpires(m) ==
    /\ m \in keys
    /\ messages < MaxMessages
    /\ keys' = keys \ {m}
    /\ lapsed' = lapsed \cup {m}
    /\ UNCHANGED <<dispatcher, req, rows, messages, twins, outrun, lost, dropped, crashes>>

\* chat_with_supervisor.
Chat(h, m) ==
    /\ At(h, "idle") /\ RowLeft
    /\ messages < MaxMessages
    /\ messages' = messages + 1
    /\ Turn(h, m)
    /\ UNCHANGED <<dispatcher, rows, keys, history, crashes>>

\* Mutant: the count is read but not compared.
CountUnchecked(h, d) ==
    /\ At(h, "idle") /\ RowLeft
    /\ d \in Budgeted
    /\ req' = [req EXCEPT ![h] = [NoRequest EXCEPT !.pc = "counted", !.door = d]]
    /\ UNCHANGED <<dispatcher, rows, keys, messages, history, crashes>>

\* A request for a run gets past the shield (langgraph) and the budget guard,
\* which counts the committed runs of the last 24 hours, of all doors.
CountRuns(h, d) ==
    /\ At(h, "idle") /\ RowLeft
    /\ d \in Budgeted
    /\ Cardinality(young) < MaxRuns
    /\ req' = [req EXCEPT ![h] = [NoRequest EXCEPT !.pc = "counted", !.door = d]]
    /\ UNCHANGED <<dispatcher, rows, keys, messages, history, crashes>>

\* The shield rejects the brief (runs), the database or the agent fails, or the
\* supervisor's turn is over.
Refuse(h) ==
    /\ req[h].pc \in {"counted", "turn", "looked"}
    /\ Ends(h)
    /\ UNCHANGED <<dispatcher, rows, keys, messages, history, crashes>>
-----------------------------------------------------------------------------
(* Runs are created.                                                       *)

\* Row and, for the database dispatcher, job are committed together.
NewRun(r, d, m, s) ==
    /\ status[r] = "none"
    /\ status' = [status EXCEPT ![r] = s]
    /\ door' = [door EXCEPT ![r] = d]
    /\ about' = [about EXCEPT ![r] = m]
    /\ young' = young \cup {r}

\* In the background mode the handler runs the graph once it has answered.
Dispatch(h, r) ==
    IF dispatcher = "db"
      THEN Ends(h) /\ job' = [job EXCEPT ![r] = "queued"]
      ELSE req' = [req EXCEPT ![h].pc = "task", ![h].door = door'[r], ![h].run = r] /\ UNCHANGED job

\* Mutant: the insert of the job is lost with the pass that ignores its error.
StartRunUnqueued(h, r) ==
    /\ At(h, "counted") /\ From(h, "runs")
    /\ NewRun(r, "runs", NoMessage, "pending")
    /\ Ends(h)
    /\ UNCHANGED <<dispatcher, thread, job, keys, messages, history, crashes>>

StartRun(h, r) ==
    /\ At(h, "counted") /\ From(h, "runs")
    /\ NewRun(r, "runs", NoMessage, "pending")
    /\ Dispatch(h, r)
    /\ UNCHANGED <<dispatcher, thread, keys, messages, history, crashes>>

\* No budget here; the shield has let the brief pass.
PublicDemoStart(h, r) ==
    /\ At(h, "idle")
    /\ NewRun(r, "demo", NoMessage, "pending")
    /\ Dispatch(h, r)
    /\ UNCHANGED <<dispatcher, thread, keys, messages, history, crashes>>

\* start_run of the langgraph router commits a running row without a job and
\* goes on to drive the graph itself.
StartGraphRun(h, r) ==
    /\ At(h, "counted") /\ From(h, "langgraph")
    /\ NewRun(r, "langgraph", NoMessage, "running")
    /\ req' = [req EXCEPT ![h].pc = "opening", ![h].run = r]
    /\ UNCHANGED <<dispatcher, thread, job, keys, messages, history, crashes>>

\* StartWorkflowTool: an earlier run of this brief and user answers the call,
\* and the turn goes on as it was.
Look(h) ==
    /\ At(h, "turn")
    /\ \A r \in Runs : about[r] = req[h].msg => status[r] \notin Deduped
    /\ Goes(h, "looked")
    /\ UNCHANGED <<dispatcher, rows, keys, messages, history, crashes>>

\* run_workflow commits the pending row in a session of its own.
StartWorkflow(h, r) ==
    /\ At(h, "looked")
    /\ NewRun(r, "supervisor", req[h].msg, "pending")
    /\ req' = [req EXCEPT ![h].pc = "task", ![h].run = r]
    /\ twins' = IF \E g \in Handlers \ {h} : At(g, "looked") /\ req[g].msg = req[h].msg
                  THEN twins \cup {req[h].msg} ELSE twins
    /\ UNCHANGED <<dispatcher, thread, job, keys, messages, lapsed, outrun, lost,
                   dropped, crashes>>

\* count_runs_since_async no longer sees the run.  Bounds: whoever executes a
\* run up to its gate does so within the 24 hours, and it matters only while a
\* row is left.
RunAges(r) ==
    /\ r \in young /\ ~Executed(r) /\ RowLeft
    /\ young' = young \ {r}
    /\ UNCHANGED <<dispatcher, req, status, door, about, thread, job, keys, messages,
                   history, crashes>>
-----------------------------------------------------------------------------
(* The graph runs up to its first gate.                                    *)

Running(r) ==
    /\ status' = [status EXCEPT ![r] = "running"]
    /\ thread' = [thread EXCEPT ![r] = "running"]

\* run_workflow_async in a background task or in the tool's thread.
RunTask(h) ==
    /\ At(h, "task")
    /\ Running(req[h].run)
    /\ Goes(h, "graph")
    /\ UNCHANGED <<dispatcher, door, about, job, young, keys, messages, history, crashes>>

\* start_run has the checkpointer and the graph, and invokes it.
Opens(h) ==
    /\ At(h, "opening")
    /\ thread' = [thread EXCEPT ![req[h].run] = "running"]
    /\ Goes(h, "graph")
    /\ UNCHANGED <<dispatcher, status, door, about, job, young, keys, messages, history, crashes>>

\* run.execute: a worker claims the job and skips it unless the run is pending.
TakeJob(r) ==
    /\ job[r] = "queued"
    /\ IF status[r] = "pending"
         THEN Running(r) /\ job' = [job EXCEPT ![r] = "taken"]
         ELSE job' = [job EXCEPT ![r] = "done"] /\ UNCHANGED <<status, thread>>
    /\ UNCHANGED <<dispatcher, req, door, about, young, keys, messages, history, crashes>>

\* ideation_node and the interrupt after it: ideas and the gate; or the
\* shields block the brief or the ideas, which is noted in the graph's state
\* alone and parks the thread all the same; or the node raises, and whoever
\* runs the graph fails the run.
Ideation(r) ==
    \/ /\ status' = [status EXCEPT ![r] = Gate]
       /\ thread' = [thread EXCEPT ![r] = Gate]
    \/ /\ thread' = [thread EXCEPT ![r] = "failed"]
       /\ UNCHANGED status
    \/ /\ status' = [status EXCEPT ![r] = "failed"]
       /\ UNCHANGED thread

\* Mutant: the result is read with .get("status") though there may be none.
GraphReturnsBare(h) ==
    /\ At(h, "graph")
    /\ LET r == req[h].run IN
        /\ Ideation(r)
        /\ IF From(h, "langgraph")
             THEN req' = [req EXCEPT ![h].pc = "returned",
                                     ![h].result = IF thread'[r] = "running" THEN "none" ELSE thread'[r]]
             ELSE Ends(h)
    /\ UNCHANGED <<dispatcher, door, about, job, young, keys, messages, history, crashes>>

\* The tool hands its result to the turn; start_run goes on with the result
\* unless it got an exception; a background task is over.
GraphReturns(h) ==
    /\ At(h, "graph")
    /\ LET r == req[h].run IN
        /\ Ideation(r)
        /\ CASE From(h, "supervisor") ->
                    req' = [req EXCEPT ![h].pc = "turn", ![h].run = NoRun]
             [] From(h, "langgraph") /\ thread'[r] # "running" ->
                    req' = [req EXCEPT ![h].pc = "returned", ![h].result = thread'[r]]
             [] OTHER -> Ends(h)
    /\ UNCHANGED <<dispatcher, door, about, job, young, keys, messages, history, crashes>>

JobReturns(r) ==
    /\ job[r] = "taken"
    /\ Ideation(r)
    /\ job' = [job EXCEPT ![r] = "done"]
    /\ UNCHANGED <<dispatcher, req, door, about, young, keys, messages, history, crashes>>

\* An error ends what executes the run and does not reach its row.  In "task":
\* the row is not visible when the route or run_workflow_async looks, or the
\* database fails there, so that the task is never run or returns at once.  In
\* "opening": the checkpointer or the graph is not to be had, outside the try of
\* start_run.  In "graph": the node raises, and the write of the failure does too.
Drops(h) ==
    /\ req[h].pc \in {"task", "opening", "graph"}
    /\ dropped' = dropped \cup {req[h].run}
    /\ IF From(h, "supervisor")
         THEN req' = [req EXCEPT ![h].pc = "turn", ![h].run = NoRun]
         ELSE Ends(h)
    /\ UNCHANGED <<dispatcher, rows, keys, messages, lapsed, twins, outrun, lost, crashes>>

\* The same in a worker.  A job that raises is tried again, and then finds its
\* run no longer pending.
JobDrops(r) ==
    /\ dropped' = dropped \cup {r}
    /\ \/ /\ job[r] = "queued" /\ status[r] = "pending"
          /\ job' = [job EXCEPT ![r] = "done"]
       \/ /\ job[r] = "taken"
          /\ job' = [job EXCEPT ![r] = "queued"]
    /\ UNCHANGED <<dispatcher, req, status, door, about, thread, young, keys, messages,
                   lapsed, twins, outrun, lost, crashes>>

\* Mutant: the result is taken for one without a status.
PersistDefault(h) ==
    /\ At(h, "returned")
    /\ status' = [status EXCEPT ![req[h].run] = "running"]
    /\ Ends(h)
    /\ UNCHANGED <<dispatcher, door, about, thread, job, young, keys, messages, history, crashes>>

\* start_run writes the status of ainvoke's result into the row, in a session
\* of its own, or fails to and ignores it; or it cannot read the thread's state
\* first, and fails a run whose thread waits at its gate.
Persist(h) ==
    /\ At(h, "returned")
    /\ \/ /\ status' = [status EXCEPT ![req[h].run] = req[h].result]
          /\ UNCHANGED outrun
       \/ /\ outrun' = outrun \cup {req[h].run}
          /\ status' \in {status, [status EXCEPT ![req[h].run] = "failed"]}
    /\ Ends(h)
    /\ UNCHANGED <<dispatcher, door, about, thread, job, young, keys, messages,
                   lapsed, twins, lost, dropped, crashes>>
-----------------------------------------------------------------------------
(* After the gate.                                                         *)

\* The thread and its row have got to status s.
Reach(r, s) ==
    /\ status' = [status EXCEPT ![r] = s]
    /\ thread' = [thread EXCEPT ![r] = s]
    /\ outrun' = IF \E h \in Handlers : At(h, "returned") /\ req[h].run = r
                   THEN outrun \cup {r} ELSE outrun
    /\ UNCHANGED <<dispatcher, req, door, about, job, young, keys, messages,
                   lapsed, twins, lost, dropped, crashes>>

Decided(r) ==
    /\ thread[r] = Gate
    /\ \E s \in {"awaiting_video_generation", "rejected"} : Reach(r, s)

\* The visitor of the demo decides the gate the row is at ...
PublicDemoDecides(r) ==
    /\ door[r] = "demo"
    /\ status[r] = Gate
    /\ Decided(r)

\* ... as does a Telegram button; the job, or resume_hitl_gate, looks at the row ...
TelegramCallback(r) ==
    /\ status[r] = Gate
    /\ Decided(r)

\* ... while the routes of the langgraph router look at the thread.
InterruptRoutes(r) == Decided(r)

\* What the doors can see of the rest of the run.
Continue(r) ==
    \/ /\ thread[r] = "awaiting_video_generation"
       /\ \E s \in {"awaiting_publish", "failed"} : Reach(r, s)
    \/ /\ thread[r] = "awaiting_publish"
       /\ \E s \in {"completed", "failed"} : Reach(r, s)

\* The API process dies with its requests, tasks and cache; without requests
\* that is like all keys expiring ...
ApiCrashes ==
    /\ crashes < MaxCrashes
    /\ \E h \in Handlers : ~At(h, "idle")
    /\ crashes' = crashes + 1
    /\ lost' = lost \cup {req[h].run : h \in {g \in Handlers : req[g].run # NoRun}}
    /\ req' = [h \in Handlers |-> NoRequest]
    /\ lapsed' = lapsed \cup keys
    /\ keys' = {}
    /\ UNCHANGED <<dispatcher, rows, messages, twins, outrun, dropped>>

\* ... or a worker does, and its job's lease runs out.
WorkerCrashes(r) ==
    /\ crashes < MaxCrashes
    /\ crashes' = crashes + 1
    /\ job[r] = "taken"
    /\ job' = [job EXCEPT ![r] = "queued"]
    /\ lost' = lost \cup {r}
    /\ UNCHANGED <<dispatcher, req, status, door, about, thread, young, keys, messages,
                   lapsed, twins, outrun, dropped>>
-----------------------------------------------------------------------------

Handle(h) ==
    \/ \E d \in Doors : CountRuns(h, d)
    \/ \E m \in Updates : TelegramWebhook(h, m)
    \/ \E m \in Chats : Chat(h, m)
    \/ Refuse(h) \/ Look(h)
    \/ \E r \in Runs :
        StartRun(h, r) \/ PublicDemoStart(h, r) \/ StartGraphRun(h, r) \/ StartWorkflow(h, r)
    \/ RunTask(h) \/ Opens(h) \/ GraphReturns(h) \/ Persist(h) \/ Drops(h)

Follow(r) ==
    \/ RunAges(r) \/ TakeJob(r) \/ JobReturns(r) \/ JobDrops(r)
    \/ PublicDemoDecides(r) \/ TelegramCallback(r) \/ InterruptRoutes(r) \/ Continue(r)
    \/ WorkerCrashes(r)

Next ==
    \/ \E h \in Handlers : Handle(h)
    \/ \E r \in Runs : Follow(r)
    \/ \E m \in Updates : KeyExpires(m)
    \/ ApiCrashes

Spec == Init /\ [][Next]_vars
-----------------------------------------------------------------------------
(* Properties.                                                             *)

\* A Telegram message that is delivered again and again starts one run: two
\* runs of one message are under way only if its key has lapsed and both turns
\* were between the tool's look-up and its insert.  Neither the cache nor the
\* look-up is enough alone.
OneRunPerUpdate ==
    \A m \in Updates, r1, r2 \in Runs :
        (/\ r1 # r2
         /\ about[r1] = m /\ status[r1] \in Deduped \ {"completed"}
         /\ about[r2] = m /\ status[r2] \in Deduped \ {"completed"})
        => m \in lapsed \cap twins

\* "Persist latest status/current_step so DB mirrors graph state"
\* (api/routes/langgraph.py): a run that start_run drove itself shows the status
\* of its thread, or that it failed, but for three cases: a decision overtook
\* start_run's last write or that write did not come about; its process died; or
\* the checkpointer or graph could not be had after the row was committed as
\* running, or the failure could not be written, which start_run tells its
\* caller alone.
RowMirrorsThread ==
    \A r \in Runs :
        (status[r] # "none" /\ door[r] = "langgraph" /\ ~Executed(r) /\ r \notin outrun \cup lost \cup dropped)
        => status[r] \in {thread[r], "failed"}

\* The doors and dispatchers leave no run behind that nobody executes, whatever
\* the order of their steps: a run that is pending or running has a job or a
\* live request behind it, or the shields blocked its brief inside the graph.
\* What is not so is named: the process that executed it died (lost), or an error
\* ended its request, task or job and never reached its row (dropped; see Drops
\* and JobDrops).  That start_run's last write fails leaves none behind.
NoOrphan ==
    \A r \in Runs :
        (status[r] \in {"pending", "running"} /\ r \notin lost \cup dropped)
        => Executed(r) \/ thread[r] = "failed"

\* How far a run has got, by what its row says.
Rank(s) ==
    CASE s = "pending" -> 0                    [] s = "running" -> 1
      [] s = Gate -> 2                         [] s = "awaiting_video_generation" -> 3
      [] s = "awaiting_publish" -> 4           [] s \in {"completed", "failed", "rejected"} -> 5

\* A row goes back, to its gate or from a failure, only where start_run's last write has
\* been overtaken (or lost, or failed a run at its gate): a second delivery, a job claimed again after a crash, another
\* door or a late background task never set a run back, and a run that has ended stays so.
RowsGoForward ==
    [][\A r \in Runs : (status[r] # "none" /\ status'[r] # status[r] /\ r \notin outrun')
            => status'[r] # "none" /\ Rank(status[r]) < Rank(status'[r])]_vars

Budget ==
    INSTANCE RunBudget WITH
        Requests <- Handlers,
        counted <- Cardinality({r \in young : door[r] \in Budgeted}),
        exempt <- Cardinality({r \in young : door[r] \notin Budgeted}),
        passed <- {h \in Handlers : At(h, "counted")}

\* The doors keep to the budget as module RunBudget has it: every run of the
\* two routers was counted for first, and of n requests in flight at most
\* n - 1 slip past a limit that has been reached.
ImplementsBudget == Budget!Spec

\* What that means for the limits themselves: with n requests in flight, the two routers
\* never have more runs in 24 hours than the limit and n - 1, whatever the other doors do.
RoutersKeepLimit ==
    Cardinality({r \in young : door[r] \in Budgeted}) < MaxRuns + Cardinality(Handlers)

=============================================================================
