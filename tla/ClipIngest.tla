----------------------------- MODULE ClipIngest -----------------------------
(***************************************************************************)
(* How the clips of one run get from Sora into the database, and when the  *)
(* thread goes on: the manifest sora_generate and repair_sora_clips write  *)
(* (tools/sora.py, workflow.py), the webhook route                         *)
(* (api/routes/webhooks.py), which ingests a clip itself or queues a job   *)
(* for it, the two jobs that store clips, webhook.sora and sora.poll       *)
(* (workers/handlers.py), and resume_after_videos.                         *)
(*                                                                         *)
(* All three look at the stored clips, download and transcode for minutes, *)
(* and store what they got.  The route and webhook.sora count the clips    *)
(* under a lock on the row of the run; sora.poll counts what it read when  *)
(* it began.                                                               *)
(* Transactions are READ COMMITTED.  An insert is seen once committed; its *)
(* foreign key shares the row of the run until then, which SELECT FOR      *)
(* UPDATE has to wait for; an update waits for a FOR UPDATE lock only.     *)
(***************************************************************************)
EXTENDS Naturals, SequencesExt

CONSTANTS
    N,            \* the number of videos the producer asks for
    Dispatchers,  \* the values of settings.workflow_dispatcher, a subset of
                  \* {"db", "inprocess"}
    Providers,    \* the values of SORA_PROVIDER, a subset of {"real", "fake"}
    Workers,      \* executions and requests that can be in flight
    Forces,       \* the values of `force' operators pass to a repair
    MaxTries,     \* max_attempts of a webhook.sora job (5)
    MaxPolls,     \* max_attempts of the sora.poll job (240)
    MaxFaults,    \* bound: crashes, and leases lapsed under a live execution
    MaxFailures,  \* bound: failures of Sora, of downloads and of transcoding
    MaxRepairs    \* bound: submissions after the first, repairs included

Indices == 0 .. N - 1

\* A Sora task: the video it is for and the submission it belongs to.
Tasks == [index : Indices, gen : 0 .. MaxRepairs]

ASSUME ClipsAssumption ==
    /\ N \in Nat \ {0}
    /\ Dispatchers \subseteq {"db", "inprocess"}
    /\ Providers \subseteq {"real", "fake"}
    /\ Forces \subseteq BOOLEAN
    /\ MaxTries \in Nat \ {0} /\ MaxPolls \in Nat \ {0}
    /\ MaxFaults \in Nat /\ MaxFailures \in Nat /\ MaxRepairs \in Nat

VARIABLES
    dispatcher,   \* settings.workflow_dispatcher of this deployment
    provider,     \* who makes the videos: Sora, or a directory of clips
    status,       \* runs.status; "later" is any status after the wait
    manifest,     \* the tasks of the latest CLIP_MANIFEST, {} if there is none
    pending,      \* run.artifacts["pending_task_ids"], {} if there is none
    clips,        \* the committed VIDEO_CLIP rows, oldest first
    sora,         \* the state of each task at the provider
    thread,       \* where the thread is
    hook,         \* the webhook.sora job of each task ("db" only)
    tries,        \* jobs.attempts of those jobs
    poll,         \* the sora.poll job
    pollTries,    \* its attempts
    resume,       \* the resume.videos job ("db" only)
    call,         \* what each worker or request is doing
    repairs,      \* number of submissions after the first
    contested,    \* history: tasks two executions were ingesting at once
    faults, failures

settings == <<dispatcher, provider>>
run    == <<status, manifest, pending>>
polls  == <<poll, pollTries>>
hooks  == <<hook, tries>>
jobs   == <<hooks, polls, resume>>
bounds == <<faults, failures>>
vars   == <<settings, run, clips, sora, thread, jobs, call, repairs, contested, bounds>>

Status == {"awaiting_video_generation", "awaiting_render", "failed", "later"}
Job    == {"absent", "open", "done", "dead"}

\* How far a call is, and what sora.poll has read: the tasks to ask for, the raw
\* pending_task_ids, the number of clips, and the tasks already settled.  "hook"
\* is an event of Sora in the hands of a webhook.sora job or of its own request.
Call ==
    [op : {"none", "hook", "poll"},
     pc : {"idle", "fetching", "inserted", "counted", "resuming"},
     tasks : SUBSET Tasks,
     ready : BOOLEAN,
     raw : SUBSET Tasks,
     rows : Nat,
     settled : SUBSET Tasks]

NoCall ==
    [op |-> "none", pc |-> "idle", tasks |-> {}, ready |-> FALSE, raw |-> {},
     rows |-> 0, settled |-> {}]

TypeOK ==
    /\ dispatcher \in Dispatchers /\ provider \in Providers
    /\ status \in Status
    /\ manifest \subseteq Tasks /\ pending \subseteq Tasks
    /\ clips \in Seq(Tasks)
    /\ sora \in [Tasks -> {"none", "working", "completed", "failed"}]
    /\ thread \in {"producing", "waiting", "past", "failed"}
    /\ hook \in [Tasks -> Job]
    /\ tries \in [Tasks -> Nat]
    /\ poll \in Job /\ pollTries \in Nat
    /\ resume \in Job
    /\ call \in [Workers -> Call]
    /\ repairs \in Nat
    /\ contested \subseteq Tasks
    /\ faults \in Nat /\ failures \in Nat

\* production_node has set the status and the producer's turn begins.
Init ==
    /\ dispatcher \in Dispatchers /\ provider \in Providers
    /\ status = "awaiting_video_generation"
    /\ manifest = {} /\ pending = {}
    /\ clips = <<>>
    /\ sora = [t \in Tasks |-> "none"]
    /\ thread = "producing"
    /\ hook = [t \in Tasks |-> "absent"]
    /\ tries = [t \in Tasks |-> 0]
    /\ poll = "absent" /\ pollTries = 0
    /\ resume = "absent"
    /\ call = [w \in Workers |-> NoCall]
    /\ repairs = 0
    /\ contested = {}
    /\ faults = 0 /\ failures = 0

Stored   == Range(clips)
Expected == Cardinality(manifest)   \* the task_count of the manifest
Idle(w)  == call[w].pc = "idle"

\* Nobody holds the row FOR UPDATE; nobody but those in W shares it.
RowFree == \A w \in Workers : call[w].pc # "counted"
UnsharedBut(W) == \A w \in Workers \ W : call[w].pc # "inserted"

Submit(T) == sora' = [t \in Tasks |-> IF t \in T THEN "working" ELSE sora[t]]
-----------------------------------------------------------------------------
(* The producer's turn.                                                    *)

\* The submission that a new request makes: a request the run has made before is
\* answered with the tasks of its manifest, which the idempotency key finds, and is
\* no step.
NewRequest == IF manifest = {} THEN 0 ELSE repairs + 1

\* The manifest of the first k tasks of the request becomes the active one.
StoresManifest(k) == manifest' = {t \in Tasks : t.gen = NewRequest /\ t.index < k}

\* sora_generate, called by the agent, and called again with another request.  It
\* submits the videos in turn, stops at the first error and stores what it has.
SoraGenerate ==
    /\ provider = "real"
    /\ thread = "producing" /\ RowFree
    /\ NewRequest <= MaxRepairs
    /\ \E k \in 1 .. N :
          /\ StoresManifest(k)
          /\ \/ k = N /\ UNCHANGED failures
             \/ k < N /\ failures < MaxFailures /\ failures' = failures + 1
    /\ repairs' = NewRequest
    /\ Submit(manifest')
    /\ UNCHANGED <<settings, status, pending, clips, thread, jobs, call, contested,
                   faults>>

\* The fake provider takes the clips from a directory and makes the ids of the tasks
\* of their names, so that every call has the same tasks.
FakeTasks == {t \in Tasks : t.gen = 0}

\* The tool posts the event of each of them to webhook.sora itself: from now on they
\* are complete and their events may come.
FakeCompletes == sora' = [t \in Tasks |-> IF t \in FakeTasks THEN "completed" ELSE sora[t]]

\* The tool with the fake provider.
FakeGenerate ==
    /\ provider = "fake"
    /\ thread = "producing" /\ RowFree
    /\ manifest = {}
    /\ manifest' = FakeTasks
    /\ FakeCompletes
    /\ UNCHANGED <<settings, status, pending, clips, thread, jobs, call, repairs,
                   contested, bounds>>

\* What the answers of the tool name: each the tasks of one submission.
Answers == {{t \in Tasks : t.gen = g /\ sora[t] # "none"} : g \in 0 .. repairs}

\* production_node takes the tasks from the first answer that it can parse, or from
\* the first manifest if there is no answer, and goes on to wait, with sora.poll
\* queued.  Of answers that it cannot parse it takes no tasks, and there is no
\* poll ...
ProductionEnds ==
    /\ thread = "producing" /\ RowFree
    /\ manifest # {}
    /\ thread' = "waiting"
    /\ status' = "awaiting_video_generation"
    /\ pending' \in Answers \cup {{}}
    /\ poll' = IF pending' # {} /\ dispatcher = "db" /\ provider = "real" THEN "open" ELSE poll
    /\ UNCHANGED <<settings, manifest, clips, sora, hooks, pollTries, resume, call,
                   repairs, contested, bounds>>

\* ... or it fails, because the tool has failed or was not used.
ProductionFails ==
    /\ thread = "producing" /\ RowFree
    /\ failures < MaxFailures
    /\ failures' = failures + 1
    /\ thread' = "failed"
    /\ status' = "failed"
    /\ UNCHANGED <<settings, manifest, pending, clips, sora, jobs, call, repairs,
                   contested, faults>>
-----------------------------------------------------------------------------
(* Sora and its webhooks.                                                  *)

SoraFinishes(t) ==
    /\ sora[t] = "working"
    /\ \/ sora' = [sora EXCEPT ![t] = "completed"] /\ UNCHANGED failures
       \/ /\ failures < MaxFailures
          /\ failures' = failures + 1
          /\ sora' = [sora EXCEPT ![t] = "failed"]
    /\ UNCHANGED <<settings, run, clips, thread, jobs, call, repairs, contested, faults>>

\* An event that is delivered and about which something has to be done: tasks of
\* no run, tasks of an older manifest and stored tasks are acknowledged.
InManifest(t) == t \in manifest
Delivered(t) ==
    /\ sora[t] \in {"completed", "failed"}
    /\ InManifest(t)
    /\ t \notin Stored

\* sora_webhook of the "db" dispatcher: the idempotency key lets one job through
\* for each task.
SoraWebhook(t) ==
    /\ dispatcher = "db"
    /\ Delivered(t)
    /\ hook[t] = "absent" /\ RowFree
    /\ hook' = [hook EXCEPT ![t] = "open"]
    /\ UNCHANGED <<settings, run, clips, sora, thread, tries, polls, resume, call,
                   repairs,
                   contested, bounds>>
-----------------------------------------------------------------------------
(* webhook.sora, and sora_webhook of the "inprocess" dispatcher.           *)

Hangup(w) == call' = [call EXCEPT ![w] = NoCall]

\* A job is claimed again while it executes only after its lease has lapsed.
MayRun(executing) ==
    \/ ~executing /\ UNCHANGED faults
    \/ executing /\ faults < MaxFaults /\ faults' = faults + 1

Fetching(t) == \E w \in Workers : t \in call[w].tasks

\* w begins to ingest the tasks T.
Fetch(w, c, T) ==
    /\ call' = [call EXCEPT ![w] = c]
    /\ contested' = contested \cup {t \in T : Fetching(t)}

\* Mutant: a state no job has.
RetriedPending(t) == [hook EXCEPT ![t] = "pending"]

\* mark_failed_async.  A request that raises leaves nothing behind; Sora may
\* deliver the event again.
Retried(t) ==
    IF dispatcher = "db"
      THEN [hook EXCEPT ![t] = IF tries[t] >= MaxTries THEN "dead" ELSE "open"]
      ELSE hook

Finished(t) == IF dispatcher = "db" THEN [hook EXCEPT ![t] = "done"] ELSE hook

HookCall(t) == [NoCall EXCEPT !.op = "hook", !.pc = "fetching", !.tasks = {t}]

\* Mutant: no check for a stored clip.
HookFetchesAgain(w, t) ==
    /\ sora[t] = "completed"
    /\ Fetch(w, HookCall(t), {t})
    /\ UNCHANGED <<status, hook>>

\* The event says that the task is complete, and no clip of it is stored.
HookFetches(w, t) ==
    /\ sora[t] = "completed" /\ t \notin Stored
    /\ Fetch(w, HookCall(t), {t})
    /\ UNCHANGED <<status, hook>>

HookSkips(t) ==
    /\ sora[t] = "completed" /\ t \in Stored
    /\ hook' = [hook EXCEPT ![t] = "done"]
    /\ UNCHANGED <<status, call, contested>>

\* The event says that the task has failed.
HookFails(t) ==
    /\ sora[t] = "failed" /\ RowFree
    /\ status' = "failed"
    /\ hook' = Finished(t)
    /\ UNCHANGED <<call, contested>>

HookBegins(w, t) ==
    /\ Idle(w)
    /\ hook[t] = "open"
    /\ MayRun(\E v \in Workers : call[v].op = "hook" /\ call[v].tasks = {t})
    /\ tries' = [tries EXCEPT ![t] = @ + 1]
    /\ HookFetches(w, t) \/ HookSkips(t) \/ HookFails(t)
    /\ UNCHANGED <<settings, manifest, pending, clips, sora, thread, polls, resume,
                   repairs, failures>>

\* The request ingests the clip while Sora waits for its answer.  Sora delivers
\* again when it has waited too long, and nothing tells the two requests apart.
RequestBegins(w, t) ==
    /\ dispatcher = "inprocess"
    /\ Idle(w)
    /\ Delivered(t)
    /\ HookFetches(w, t) \/ HookFails(t)
    /\ UNCHANGED <<settings, manifest, pending, clips, sora, thread, tries, polls, resume,
                   repairs, bounds>>

InHook(w, t, p) == call[w].op = "hook" /\ call[w].pc = p /\ call[w].tasks = {t}

\* Every attempt to download the video fails: the worker retries the job, or the
\* request is answered with an error.
DownloadRaises(t) == hook' = Retried(t) /\ UNCHANGED status

\* transcode has no file to return, whatever stopped it: the run fails, and the
\* event is done with.
TranscodeFails(t) == RowFree /\ status' = "failed" /\ hook' = Finished(t)

HookGivesUp(w, t) ==
    /\ InHook(w, t, "fetching")
    /\ failures < MaxFailures
    /\ failures' = failures + 1
    /\ DownloadRaises(t) \/ TranscodeFails(t)
    /\ Hangup(w)
    /\ UNCHANGED <<settings, manifest, pending, clips, sora, thread, tries, polls,
                   resume, repairs,
                   contested, faults>>

\* The clip is added and flushed: its foreign key shares the row until the commit.
Inserts(w) == RowFree /\ call' = [call EXCEPT ![w].pc = "inserted"]

HookInserts(w, t) ==
    /\ InHook(w, t, "fetching")
    /\ Inserts(w)
    /\ UNCHANGED <<settings, run, clips, sora, thread, jobs, repairs, contested, bounds>>

\* Mutant: the run is read without FOR UPDATE.
MayCountUnlocked(w) == TRUE

\* FOR UPDATE waits for everyone else who shares the row.
MayCount(w) == UnsharedBut({w})

\* Mutant: one clip too few is enough.
CompleteShort(n) == n + 1 >= Expected

Complete(n) == n >= Expected

\* The row is locked FOR UPDATE, and the clips are counted: those committed and
\* the one just inserted.
HookCounts(w, t) ==
    /\ InHook(w, t, "inserted")
    /\ MayCount(w)
    /\ call' = [call EXCEPT ![w].pc = "counted", ![w].ready = Complete(Len(clips) + 1)]
    /\ UNCHANGED <<settings, run, clips, sora, thread, jobs, repairs, contested, bounds>>

\* Two that have inserted wait for each other's share of the row: PostgreSQL
\* aborts one of them, and its job is retried.
HookDeadlocks(w, t) ==
    /\ InHook(w, t, "inserted")
    /\ \E v \in Workers \ {w} : call[v].op = "hook" /\ call[v].pc = "inserted"
    /\ hook' = Retried(t)
    /\ Hangup(w)
    /\ UNCHANGED <<settings, run, clips, sora, thread, tries, polls, resume, repairs,
                   contested, bounds>>

HookStores(t) ==
    /\ clips' = Append(clips, t)
    /\ hook' = Finished(t)

\* The run goes on: its status shows that there is nothing more to wait for.
ClipsComplete ==
    status' = IF status = "awaiting_video_generation" THEN "awaiting_render" ELSE status

\* The end of the transaction: one clip more, and the resume job with the last.
\* A second resume job is caught with `pass', but the failed flush makes the
\* commit fail: nothing is stored and the job is retried.
HookCommits(w, t) ==
    /\ InHook(w, t, "counted")
    /\ \/ /\ ~call[w].ready \/ status = "failed"
          /\ HookStores(t)
          /\ UNCHANGED <<status, resume>>
       \/ /\ dispatcher = "db"
          /\ call[w].ready /\ status # "failed" /\ resume = "absent"
          /\ HookStores(t)
          /\ resume' = "open"
          /\ ClipsComplete
       \/ /\ dispatcher = "db"
          /\ call[w].ready /\ status # "failed" /\ resume # "absent"
          /\ hook' = Retried(t)
          /\ UNCHANGED <<status, clips, resume>>
    /\ Hangup(w)
    /\ UNCHANGED <<settings, manifest, pending, sora, thread, tries, polls, repairs, contested,
                   bounds>>

\* A request with the last clip goes on to resume the thread, in a background task
\* that nothing remembers but the process.
RequestCommits(w, t) ==
    /\ dispatcher = "inprocess"
    /\ InHook(w, t, "counted")
    /\ call[w].ready /\ status # "failed"
    /\ HookStores(t)
    /\ ClipsComplete
    /\ call' = [call EXCEPT ![w].pc = "resuming"]
    /\ UNCHANGED <<settings, manifest, pending, sora, thread, tries, polls, resume,
                   repairs,
                   contested, bounds>>
-----------------------------------------------------------------------------
(* sora.poll.                                                              *)

\* Everything the poll goes by is read now.  The tasks are those the run
\* lists, or those of the manifest.
PollBegins(w) ==
    /\ Idle(w)
    /\ poll = "open"
    /\ MayRun(\E v \in Workers : call[v].op = "poll")
    /\ pollTries' = pollTries + 1
    /\ \/ /\ status = "awaiting_video_generation"
          /\ LET ids  == IF pending = {} THEN manifest ELSE pending
                 todo == ids \ Stored
             IN  Fetch(w, [NoCall EXCEPT !.op = "poll", !.pc = "fetching", !.tasks = todo,
                                         !.raw = pending, !.rows = Len(clips),
                                         !.settled = {t \in todo : sora[t] # "working"}],
                       todo)
          /\ UNCHANGED poll
       \/ /\ status # "awaiting_video_generation"
          /\ poll' = "done"
          /\ UNCHANGED <<call, contested>>
    /\ UNCHANGED <<settings, run, clips, sora, thread, hooks, resume, repairs, failures>>

InPoll(w) == call[w].op = "poll"

\* The tasks of which the provider says s when it is asked.
Said(w, s) == {t \in call[w].tasks : sora[t] = s}

Ready(w)   == Said(w, "completed")
Failing(w) == Said(w, "failed")

\* The first clip is inserted; the transaction stays open for the others.
PollInserts(w) ==
    /\ InPoll(w) /\ call[w].pc = "fetching"
    /\ Ready(w) # {}
    /\ Inserts(w)
    /\ UNCHANGED <<settings, run, clips, sora, thread, jobs, repairs, contested, bounds>>

\* F may be what the loop has fetched so far.
Fetched(w, F) == F \subseteq Ready(w) /\ (F # {} <=> call[w].pc = "inserted")

\* F is what it has fetched when it asked for every task: all that were
\* complete when it began, and some that have completed since.
Looped(w, F) == InPoll(w) /\ Fetched(w, F) /\ call[w].settled \subseteq F

Enough(w, F) == Complete(call[w].rows + Cardinality(F))

\* The commit of a poll that has fetched the tasks F: their clips, and the
\* artifacts of the run as they were when the poll began, with its progress.
PollStores(w, F) ==
    /\ RowFree
    /\ clips' = clips \o SetToSeq(F)
    /\ pending' = call[w].raw
    /\ Hangup(w)
    /\ UNCHANGED <<settings, manifest, sora, thread, hooks, pollTries, repairs,
                   contested, faults>>

\* A task has failed, or cannot be transcoded: the loop breaks.
PollFails(w) ==
    /\ InPoll(w)
    /\ \/ Failing(w) # {} /\ UNCHANGED failures
       \/ Ready(w) # {} /\ failures < MaxFailures /\ failures' = failures + 1
    /\ \E F \in SUBSET Ready(w) : Fetched(w, F) /\ PollStores(w, F)
    /\ status' = "failed"
    /\ poll' = "done"
    /\ UNCHANGED resume

PollCompletes(w) ==
    /\ resume = "absent"
    /\ resume' = "open"
    /\ status' = "awaiting_render"
    /\ poll' = "done"
    /\ \E F \in SUBSET Ready(w) : Looped(w, F) /\ Enough(w, F) /\ PollStores(w, F)
    /\ UNCHANGED failures

\* Rescheduling counts as a failed attempt.
PollRetried == IF pollTries >= MaxPolls THEN "dead" ELSE "open"

\* Mutant: a poll that is not ready is not rescheduled.
PollStopsWaiting(w) ==
    /\ \E F \in SUBSET Ready(w) : Looped(w, F) /\ ~Enough(w, F) /\ PollStores(w, F)
    /\ poll' = "done"
    /\ UNCHANGED <<status, resume, failures>>

\* Not ready yet: what there is is stored, and the job rescheduled.
PollWaits(w) ==
    /\ \E F \in SUBSET Ready(w) : Looped(w, F) /\ ~Enough(w, F) /\ PollStores(w, F)
    /\ poll' = PollRetried
    /\ UNCHANGED <<status, resume, failures>>

\* The resume job exists and the commit fails, or a request to Sora raises:
\* nothing is stored and the job is retried.
PollRaises(w) ==
    /\ InPoll(w)
    /\ \/ /\ resume # "absent"
          /\ \E F \in SUBSET Ready(w) : Looped(w, F) /\ Enough(w, F)
          /\ UNCHANGED failures
       \/ /\ failures < MaxFailures
          /\ failures' = failures + 1
    /\ poll' = PollRetried
    /\ Hangup(w)
    /\ UNCHANGED <<settings, run, clips, sora, thread, hooks, pollTries, resume,
                   repairs, contested, faults>>

\* A worker dies; its transaction is rolled back and its job stays open.
Crash(w) ==
    /\ ~Idle(w)
    /\ faults < MaxFaults
    /\ faults' = faults + 1
    /\ Hangup(w)
    /\ UNCHANGED <<settings, run, clips, sora, thread, jobs, repairs, contested,
                   failures>>
-----------------------------------------------------------------------------
(* The thread, and the operator.                                           *)

\* Mutant: every clip counts, as in the two jobs.
SelectsAny == Complete(Len(clips))

\* The clips of the manifest's tasks; in which order they are passed on is left out.
Selected == {k \in DOMAIN clips : clips[k] \in manifest}

\* select_latest_video_clip_urls: as many of them as the manifest has tasks.
Selects == Cardinality(Selected) >= Expected

\* resume_after_videos fails the run when it has no clips to pass on; it skips a
\* thread that has failed or is past the wait.
ResumeAfterVideos ==
    \/ ~Selects /\ RowFree /\ status' = "failed" /\ UNCHANGED thread
    \/ Selects /\ thread = "waiting" /\ RowFree /\ status' = "later" /\ thread' = "past"
    \/ Selects /\ thread \in {"failed", "past"} /\ UNCHANGED <<status, thread>>

\* It finds no interrupt in all its attempts.
FindsNoInterrupt == thread = "producing" /\ failures < MaxFailures /\ failures' = failures + 1

ResumeVideos ==
    /\ resume = "open"
    /\ ResumeAfterVideos
    /\ resume' = "done"
    /\ UNCHANGED <<settings, manifest, pending, clips, sora, hooks, polls, call, repairs,
                   contested, bounds>>

ResumeGivesUp ==
    /\ resume = "open"
    /\ FindsNoInterrupt
    /\ resume' = "dead"
    /\ UNCHANGED <<settings, run, clips, sora, thread, hooks, polls, call, repairs,
                   contested, faults>>

\* The background task of a request: it gives up without a trace.
RequestResumes(w) ==
    /\ call[w].pc = "resuming"
    /\ \/ ResumeAfterVideos /\ UNCHANGED failures
       \/ FindsNoInterrupt /\ UNCHANGED <<status, thread>>
    /\ Hangup(w)
    /\ UNCHANGED <<settings, manifest, pending, clips, sora, jobs, repairs,
                   contested, faults>>

\* The thread fails after the wait.
LaterFails ==
    /\ status = "later" /\ RowFree
    /\ failures < MaxFailures
    /\ failures' = failures + 1
    /\ status' = "failed"
    /\ UNCHANGED <<settings, manifest, pending, clips, sora, thread, jobs, call,
                   repairs, contested, faults>>

\* repair_sora_clips finds the newest clip of each index, but the index is
\* tested for truth: it finds none for index 0.
Known == {t.index : t \in Stored} \ {0}

Newest(i) ==
    LET at == {k \in DOMAIN clips : clips[k].index = i}
    IN  clips[CHOOSE k \in at : \A l \in at : l <= k]

Missing(requested, force) == {i \in requested : force \/ i \notin Known}

\* The tasks that are submitted for them, with the prompts of the stored requests.
Resubmitted(missing) == {t \in Tasks : t.gen = repairs + 1 /\ t.index \in missing}

\* The new manifest: the tasks of the clips that are kept, and the new ones.
Mapping(missing) == {Newest(i) : i \in Known \ missing} \cup Resubmitted(missing)

Covers(mapping) == {t.index : t \in mapping} = 0 .. Expected - 1

RepairWrites(mapping) ==
    /\ manifest' = mapping
    /\ pending' = mapping
    /\ status' = "awaiting_video_generation"

\* repair_sora_clips for the requested indices, all of it under the lock.  The
\* videos are submitted first; a submission that breaks off, or a manifest
\* with other indices, raises, and the database stays as it was.
Repair(requested, force) ==
    LET missing == Missing(requested, force)
        mapping == Mapping(missing)
    IN  /\ provider = "real"
        /\ RowFree /\ UnsharedBut({})
        /\ status \in {"awaiting_video_generation", "failed"}
        /\ manifest # {} /\ missing # {}
        /\ repairs < MaxRepairs
        /\ repairs' = repairs + 1
        /\ \/ Submit(Resubmitted(missing)) /\ Covers(mapping) /\ RepairWrites(mapping)
              /\ UNCHANGED failures
           \/ Submit(Resubmitted(missing)) /\ ~Covers(mapping) /\ UNCHANGED <<run,
                                                                              failures>>
           \/ /\ failures < MaxFailures
              /\ failures' = failures + 1
              /\ \E i \in missing : Submit({t \in Resubmitted(missing) : t.index < i})
              /\ UNCHANGED run
        /\ UNCHANGED <<settings, clips, thread, jobs, call, contested, faults>>
-----------------------------------------------------------------------------

HookStep(w, t) ==
    \/ HookGivesUp(w, t) \/ HookInserts(w, t) \/ HookCounts(w, t) \/ HookDeadlocks(w, t)
    \/ HookCommits(w, t) \/ RequestCommits(w, t)
PollStep(w) ==
    PollInserts(w) \/ PollFails(w) \/ PollCompletes(w) \/ PollWaits(w) \/ PollRaises(w)
Begin(w)    == PollBegins(w) \/ \E t \in Tasks : HookBegins(w, t)
Work(w)     == PollStep(w) \/ RequestResumes(w) \/ \E t \in Tasks : HookStep(w, t)
Produce     == SoraGenerate \/ FakeGenerate \/ ProductionEnds \/ ProductionFails

Next ==
    \/ Produce
    \/ \E t \in Tasks : SoraFinishes(t) \/ SoraWebhook(t)
    \/ \E w \in Workers :
          Begin(w) \/ Work(w) \/ Crash(w) \/ \E t \in Tasks : RequestBegins(w, t)
    \/ ResumeVideos \/ ResumeGivesUp \/ LaterFails
    \/ \E requested \in SUBSET Indices, force \in Forces : Repair(requested, force)

Spec == Init /\ [][Next]_vars

\* Workers take jobs and finish them, Sora finishes its tasks and the thread is
\* resumed.  No webhook has to be delivered, and no operator has to act.
Fairness ==
    /\ WF_vars(Produce) /\ WF_vars(ResumeVideos)
    /\ \A t \in Tasks : WF_vars(SoraFinishes(t))
    /\ \A w \in Workers : WF_vars(Begin(w)) /\ WF_vars(Work(w))

FairSpec == Spec /\ Fairness
-----------------------------------------------------------------------------
(* The abstract specification of the jobs.                                 *)

\* The jobs of the events: one for each task.  The requests of the other
\* dispatcher work on tasks without a job.
HookPromise ==
    INSTANCE AtLeastOnce WITH
        Jobs <- Tasks, Given <- {}, Executors <- Workers, Limit <- MaxTries,
        state <- hook,
        executing <- [t \in Tasks |->
            {w \in Workers : dispatcher = "db" /\ call[w].op = "hook" /\ call[w].tasks = {t}}],
        starts <- tries

\* The one sora.poll job, which the queue takes as often as it is rescheduled.
PollPromise ==
    INSTANCE AtLeastOnce WITH
        Jobs <- {"poll"}, Given <- {}, Executors <- Workers, Limit <- MaxPolls,
        state <- [j \in {"poll"} |-> poll],
        executing <- [j \in {"poll"} |-> {w \in Workers : call[w].op = "poll"}],
        starts <- [j \in {"poll"} |-> pollTries]

\* Whatever the two jobs do between their claim and their end, they rely on no more
\* than the queue promises: nothing but the end of an execution settles a job, and
\* neither is given up before its last attempt.
PromiseRelied == HookPromise!Spec /\ PollPromise!Spec

-----------------------------------------------------------------------------
(* Properties.                                                             *)

AllStored == manifest # {} /\ manifest \subseteq Stored

\* Somebody has been told to resume the thread.
Resuming == resume # "absent" \/ \E w \in Workers : call[w].pc = "resuming"

\* The last clip wakes the thread: the step that stores the last clip of the
\* manifest leaves a resume job or task, a failed run, or a poll that has attempts left.
\* Two events that store the last two clips, neither seeing the other's,
\* would leave the run waiting; the lock they count under prevents it.
LastClipWakes ==
    [][(~AllStored /\ AllStored')
            => \/ Resuming'
               \/ status' = "failed"
               \/ poll' = "open" \/ pollTries' >= MaxPolls]_vars

\* A task gets a second clip only if two executions ingested it at the same
\* time: retries, crashes, late webhooks and later polls find the stored clip.
SecondClipNeedsRace ==
    \A k, l \in DOMAIN clips : (k # l /\ clips[k] = clips[l]) => clips[k] \in contested

\* Somebody is told to resume with a clip missing only after such a race or after
\* a second submission; otherwise counting clips is as good as looking for each.
EarlyResumeExplained ==
    (Resuming /\ ~AllStored) => (contested # {} \/ repairs > 0)

\* The thread goes on without a clip of its manifest only after such a race:
\* whatever resume job a repair leads to, the clips it replaced are not used in
\* place of those that are still to come.
NoStaleClips ==
    [][(thread = "waiting" /\ thread' = "past") => (AllStored \/ contested # {})]_vars

\* A run of the "db" dispatcher that waits for tasks it knows has a poll that is still
\* to come, or one that has used up its attempts, unless videos were submitted again:
\* repair_sora_clips lets a run wait once more without a new sora.poll.
WaitHasPoll ==
    (/\ dispatcher = "db" /\ provider = "real" /\ pending # {}
     /\ status = "awaiting_video_generation" /\ thread = "waiting")
        => (poll \in {"open", "dead"} \/ repairs > 0)

\* Webhooks may all be lost and workers may crash: a run of the "db" dispatcher that
\* waits for the clips of tasks it knows waits no longer than sora.poll has attempts.
PollingEndsWait ==
    (/\ dispatcher = "db" /\ provider = "real" /\ pending # {}
     /\ status = "awaiting_video_generation" /\ thread = "waiting")
        ~> (status # "awaiting_video_generation" \/ poll = "dead")

\* If Sora delivers its events until they are acknowledged, and jobs ingest them,
\* they end the wait where no poll does: neither the lock nor its deadlocks strand a run.  It may
\* be stranded when a job uses up its attempts (the last poll may store a last
\* clip, of which it knows no better than that others are missing) and when
\* something fails (production_node overwrites a failure reported before it ends).
WebhooksEndWait ==
    (\A t \in Tasks : WF_vars(SoraWebhook(t)))
        => ((dispatcher = "db" /\ status = "awaiting_video_generation" /\ thread = "waiting")
              ~> \/ status # "awaiting_video_generation"
                 \/ failures > 0
                 \/ poll = "dead" \/ \E t \in Tasks : hook[t] = "dead")

-----------------------------------------------------------------------------
(* Statements of the code's comments that do not hold; no run checks them. *)

\* workers/exceptions.py on JobReschedule: "Signal that a job should be
\* rescheduled without treating it as an error.  Used for polling-style jobs
\* that are expected to run multiple times until an external system finishes".
WaitingEnds ==
    (status = "awaiting_video_generation" /\ thread = "waiting" /\ pending # {})
        ~> (status # "awaiting_video_generation")

\* workers/handlers.py: "Update run projection and enqueue resume when all clips
\* are ready."
ResumeHasAllClips == [][(resume = "absent" /\ resume' = "open") => AllStored']_vars

\* workflow.py on repair_sora_clips: "we keep existing VIDEO_CLIP artifacts and
\* submit new OpenAI video tasks only for missing indices."
OnlyMissingResubmitted ==
    [][\A t \in Tasks : (sora[t] = "none" /\ sora'[t] # "none")
            => \A u \in Stored : u.index # t.index]_vars

\* repositories.py on get_for_update: "Use this when you need to
\* read-modify-write a run atomically".  The tasks a waiting run lists as pending
\* are those of its manifest.
PendingMatchesManifest == (thread = "waiting" /\ pending # {}) => pending = manifest

=============================================================================
