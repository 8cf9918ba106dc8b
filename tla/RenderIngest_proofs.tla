-------------------------- MODULE RenderIngest_proofs --------------------------
(***************************************************************************)
(* What module RenderIngest states of the renders of one run, for any      *)
(* number of workers, renders, attempts, operator actions, faults and      *)
(* failures, with either dispatcher.                                       *)
(***************************************************************************)
EXTENDS RenderIngest, WellFoundedInduction, TLAPS

-----------------------------------------------------------------------------
(* Sequences that grow at their end, and the next render.                  *)

LEMMA AppendedRange ==
    ASSUME NEW S, NEW s \in Seq(S), NEW e \in S
    PROVE  /\ Append(s, e) \in Seq(S)
           /\ Append(s, e) # <<>>
           /\ Len(Append(s, e)) = Len(s) + 1
           /\ Range(Append(s, e)) = Range(s) \cup {e}
<1>. DEFINE t == Append(s, e)
<1>1. t \in Seq(S) /\ Len(t) = Len(s) + 1 /\ Len(s) \in Nat
  OBVIOUS
<1>2. DOMAIN s = 1 .. Len(s) /\ DOMAIN t = 1 .. Len(s) + 1
  BY <1>1
<1>3. \A i \in 1 .. Len(s) : t[i] = s[i]
  OBVIOUS
<1>4. t[Len(s) + 1] = e
  OBVIOUS
<1>5. t # <<>>
  BY <1>1
<1>6. Range(t) = Range(s) \cup {e}
  <2>. HIDE DEF t
  <2>1. \A i \in 1 .. Len(s) + 1 : i \in 1 .. Len(s) \/ i = Len(s) + 1
    BY <1>1
  <2>2. 1 .. Len(s) \subseteq 1 .. Len(s) + 1 /\ Len(s) + 1 \in 1 .. Len(s) + 1
    BY <1>1
  <2>. QED
    BY <1>2, <1>3, <1>4, <2>1, <2>2 DEF Range
<1>. QED
  BY <1>1, <1>5, <1>6

LEMMA LastBelongs ==
    ASSUME NEW S, NEW s \in Seq(S), s # <<>>
    PROVE  Last(s) \in Range(s) /\ Last(s) \in S
<1>1. Len(s) \in 1 .. Len(s) /\ DOMAIN s = 1 .. Len(s)
  OBVIOUS
<1>. QED
  BY <1>1 DEF Last, Range

LEMMA InjectionExtended ==
    ASSUME NEW S, NEW s \in Seq(S), NEW e \in S, IsInjective(s), e \notin Range(s)
    PROVE  IsInjective(Append(s, e))
<1>. DEFINE t == Append(s, e)
<1>1. Len(s) \in Nat /\ DOMAIN s = 1 .. Len(s) /\ DOMAIN t = 1 .. Len(s) + 1
  OBVIOUS
<1>2. \A i \in 1 .. Len(s) : t[i] = s[i] /\ t[i] # e
  BY <1>1 DEF Range
<1>3. t[Len(s) + 1] = e
  OBVIOUS
<1>4. \A i \in 1 .. Len(s) + 1 : i \in 1 .. Len(s) \/ i = Len(s) + 1
  BY <1>1
<1>. HIDE DEF t
<1>5. \A i, j \in DOMAIN t : t[i] = t[j] => i = j
  BY <1>1, <1>2, <1>3, <1>4 DEF IsInjective
<1>. QED
  BY <1>5 DEF IsInjective, t

\* The service has a job for the renders up to Fresh, and none for it.
LEMMA FreshIsFree == CanSubmit => Fresh \in Renders /\ job[Fresh] = "none"
<1>. SUFFICES ASSUME CanSubmit
              PROVE  \E r \in Renders :
                        job[r] = "none" /\ \A s \in Renders : s < r => job[s] # "none"
  BY DEF Fresh
<1>. DEFINE T == {r \in Renders : job[r] = "none"}
<1>1. Renders \subseteq Nat
  BY RendersAssumption DEF Renders
<1>2. T \subseteq Nat /\ T # {}
  BY <1>1 DEF CanSubmit
<1>. DEFINE R == OpToRel(<, Nat)
<1>3. PICK r \in T : \A s \in T : ~ (<<s, r>> \in R)
  <2>. HIDE DEF T
  <2>. QED
    BY <1>2, NatLessThanWellFounded, WFMin
<1>4. \A s \in T : ~ (s < r)
  BY <1>2, <1>3 DEF OpToRel
<1>. QED
  BY <1>4

-----------------------------------------------------------------------------
(* The inductive invariant.                                                *)

\* The editor works while the thread is at its node, on a render whose job id
\* it records before it queues the poll.
EditorOK ==
    /\ editor.pc # "idle" => thread = "editing"
    /\ editor.pc = "submitted" => editor.render \in Renders
    /\ editor.pc = "stored" => editor.render \in Recorded

\* What may store a video, or answer the thread with one, has it from a render
\* of the run.
JobsOK ==
    \A r \in Renders : hook[r] # "absent" \/ poll[r] # "absent" => r \in Recorded

CallsOK ==
    \A w \in Workers : call[w].op # "none" =>
        /\ call[w].render \in Recorded /\ call[w].of \in Recorded
        /\ call[w].op = "hook" => call[w].of = call[w].render

AnswersOK ==
    /\ resume.video \in {0} \cup Recorded
    /\ resume.state # "absent" => resume.video # 0
    /\ background \subseteq Recorded
    /\ operator \in {0} \cup Recorded

\* Only the jobs store videos, the first of them only; or else only the route.
OnePath ==
    /\ dispatcher = "db" /\ resume.state = "absent" => rendered = <<>>
    /\ dispatcher = "inprocess" => \A r \in Renders : hook[r] = "absent" /\ poll[r] = "absent"
    /\ dispatcher = "inprocess" => \A w \in Workers : call[w].op = "none"

WaitOK == stray => strayed

RenderInv ==
    /\ EditorOK /\ JobsOK /\ CallsOK /\ AnswersOK /\ OnePath /\ WaitOK
    /\ OneVideoPerRender /\ VideosAreRecorded /\ GateHasVideo /\ RowFollowsThread

-----------------------------------------------------------------------------
(* Steps that share a change.                                              *)

\* A conjunct holds on as long as nothing it speaks of changes.
LEMMA Frame ==
    ASSUME RenderInv
    PROVE  /\ UNCHANGED <<editor, thread, outputs>> => EditorOK'
           /\ UNCHANGED <<hook, poll, outputs>> => JobsOK'
           /\ UNCHANGED <<call, outputs>> => CallsOK'
           /\ UNCHANGED <<resume, background, operator, outputs>> => AnswersOK'
           /\ UNCHANGED <<dispatcher, resume, rendered, hook, poll, call>> => OnePath'
           /\ UNCHANGED <<stray, strayed>> => WaitOK'
           /\ UNCHANGED rendered => OneVideoPerRender'
           /\ UNCHANGED <<rendered, final, outputs>> => VideosAreRecorded'
           /\ UNCHANGED <<thread, final, strayed>> => GateHasVideo'
           /\ UNCHANGED <<status, thr, history, outputs>> => RowFollowsThread'
<1>1. UNCHANGED outputs => UNCHANGED Recorded
  BY DEF Recorded
<1>2. UNCHANGED rendered => UNCHANGED Videos
  BY DEF Videos
<1>3. UNCHANGED <<editor, thread, outputs>> => EditorOK'
  BY <1>1 DEF RenderInv, EditorOK
<1>4. UNCHANGED <<hook, poll, outputs>> => JobsOK'
  BY <1>1 DEF RenderInv, JobsOK
<1>5. UNCHANGED <<call, outputs>> => CallsOK'
  BY <1>1 DEF RenderInv, CallsOK
<1>6. UNCHANGED <<resume, background, operator, outputs>> => AnswersOK'
  BY <1>1 DEF RenderInv, AnswersOK
<1>7. UNCHANGED <<dispatcher, resume, rendered, hook, poll, call>> => OnePath'
  BY DEF RenderInv, OnePath
<1>8. UNCHANGED rendered => OneVideoPerRender'
  BY DEF RenderInv, OneVideoPerRender
<1>9. UNCHANGED <<rendered, final, outputs>> => VideosAreRecorded'
  BY <1>1, <1>2 DEF RenderInv, VideosAreRecorded
<1>10. UNCHANGED <<status, thr, history, outputs>> => RowFollowsThread'
  BY DEF RenderInv, RowFollowsThread, thr, history
<1>. QED
  BY <1>3, <1>4, <1>5, <1>6, <1>7, <1>8, <1>9, <1>10 DEF RenderInv, WaitOK, GateHasVideo

\* The run records one more render.
LEMMA RecordingStep ==
    ASSUME TypeOK, RenderInv, NEW r \in Renders, outputs' = Append(outputs, r)
    PROVE  /\ outputs' \in Seq(Renders)
           /\ Recorded' = Recorded \cup {r}
           /\ outputs # <<>> => Len(outputs') > 1
           /\ Len(outputs') > Len(outputs)
           /\ UNCHANGED <<hook, poll>> => JobsOK'
           /\ UNCHANGED call => CallsOK'
           /\ UNCHANGED <<resume, background, operator>> => AnswersOK'
           /\ UNCHANGED <<rendered, final>> => VideosAreRecorded'
<1>1. /\ outputs' \in Seq(Renders) /\ Len(outputs') = Len(outputs) + 1
      /\ Recorded' = Recorded \cup {r}
  BY AppendedRange DEF TypeOK, Recorded
<1>2. Len(outputs) \in Nat /\ (outputs # <<>> => Len(outputs) > 0)
  BY DEF TypeOK
<1>3. UNCHANGED <<hook, poll>> => JobsOK'
  BY <1>1 DEF RenderInv, JobsOK
<1>4. UNCHANGED call => CallsOK'
  BY <1>1 DEF RenderInv, CallsOK
<1>5. UNCHANGED <<resume, background, operator>> => AnswersOK'
  BY <1>1 DEF RenderInv, AnswersOK
<1>6. UNCHANGED <<rendered, final>> => VideosAreRecorded'
  BY <1>1 DEF RenderInv, VideosAreRecorded, Videos
<1>. QED
  BY <1>1, <1>2, <1>3, <1>4, <1>5, <1>6

\* The video of a recorded render is stored, and it is not stored already.
LEMMA StoringStep ==
    ASSUME TypeOK, RenderInv, NEW r \in Renders, r \in Recorded, r \notin Videos,
           rendered' = Append(rendered, r)
    PROVE  /\ rendered' \in Seq(Renders)
           /\ OneVideoPerRender'
           /\ UNCHANGED <<final, outputs>> => VideosAreRecorded'
<1>1. rendered' \in Seq(Renders) /\ Videos' = Videos \cup {r}
  BY AppendedRange DEF TypeOK, Videos
<1>2. OneVideoPerRender'
  BY InjectionExtended DEF TypeOK, RenderInv, OneVideoPerRender, Videos
<1>3. UNCHANGED <<final, outputs>> => VideosAreRecorded'
  BY <1>1 DEF RenderInv, VideosAreRecorded, Recorded
<1>. QED
  BY <1>1, <1>2, <1>3

\* A job that stores a video of the run is the first to do so.
LEMMA JobStoresStep ==
    ASSUME TypeOK, RenderInv, NEW w \in Workers, call[w].op # "none",
           NEW r \in Renders, r \in Recorded, Stores(r), UNCHANGED <<final, outputs>>
    PROVE  /\ rendered' \in Seq(Renders)
           /\ resume' = [state |-> "open", tries |-> 0, video |-> r]
           /\ OneVideoPerRender' /\ VideosAreRecorded'
<1>1. dispatcher = "db"
  BY RendersAssumption DEF TypeOK, RenderInv, OnePath
<1>2. resume.state = "absent" /\ rendered' = Append(rendered, r)
  BY DEF Stores, CommitFails
<1>3. rendered = <<>>
  BY <1>1, <1>2 DEF RenderInv, OnePath
<1>4. r \notin Videos
  BY <1>3 DEF Videos, Range
<1>. QED
  BY <1>2, <1>4, StoringStep DEF Stores

\* The thread is answered with the video of a recorded render.
LEMMA AnswerStep ==
    ASSUME TypeOK, RenderInv, NEW v \in Renders, v \in Recorded,
           AnswersWait(v) \/ (UNCHANGED thr /\ status' \in {status, "failed"}),
           UNCHANGED <<editor, stored, history>>
    PROVE  /\ status' \in Status /\ thread' \in {"editing", "waiting", "gate", "past"}
           /\ stray' \in BOOLEAN /\ final' \in {0} \cup Renders
           /\ EditorOK' /\ WaitOK' /\ VideosAreRecorded' /\ GateHasVideo' /\ RowFollowsThread'
<1>. USE DEF stored, history, thr
<1>1. CASE TakesVideo(v) /\ status' = "awaiting_publish_approval"
  <2>1. v # 0
    BY RendersAssumption DEF Renders
  <2>2. UNCHANGED Recorded /\ UNCHANGED Videos
    BY DEF Recorded, Videos
  <2>3. EditorOK' /\ VideosAreRecorded'
    BY <1>1, <2>2 DEF TakesVideo, RenderInv, EditorOK, VideosAreRecorded
  <2>4. WaitOK' /\ GateHasVideo' /\ RowFollowsThread'
    BY <1>1, <2>1 DEF TakesVideo, RenderInv, WaitOK, GateHasVideo, RowFollowsThread
  <2>. QED
    BY <1>1, <2>3, <2>4 DEF TakesVideo, TypeOK, Status
<1>2. CASE DropsAnswer /\ status' = "awaiting_render"
  <2>1. strayed
    BY <1>2 DEF DropsAnswer, RenderInv, WaitOK
  <2>2. UNCHANGED Recorded /\ UNCHANGED Videos
    BY DEF Recorded, Videos
  <2>3. EditorOK' /\ VideosAreRecorded'
    BY <1>2, <2>2 DEF DropsAnswer, RenderInv, EditorOK, VideosAreRecorded
  <2>4. WaitOK' /\ GateHasVideo' /\ RowFollowsThread'
    BY <1>2, <2>1 DEF DropsAnswer, WaitOK, GateHasVideo, RowFollowsThread
  <2>. QED
    BY <1>2, <2>3, <2>4 DEF DropsAnswer, TypeOK, Status
<1>3. CASE UNCHANGED thr /\ status' \in {status, "failed"}
  <2>1. RowFollowsThread'
    BY <1>3 DEF RenderInv, RowFollowsThread
  <2>. QED
    BY <1>3, <2>1, Frame DEF TypeOK, Status
<1>. QED
  BY <1>1, <1>2, <1>3 DEF AnswersWait

\* A callback, a resume job and an operator answer with recorded renders.
LEMMA RecordedAreRenders == TypeOK => Recorded \subseteq Renders
  BY DEF TypeOK, Recorded, Range

-----------------------------------------------------------------------------
(* One step per action.                                                    *)

LEMMA RenderStep ==
    ASSUME TypeOK, RenderInv, [Next]_vars
    PROVE  TypeOK' /\ RenderInv'
<1>1. ASSUME EditorSubmits PROVE TypeOK' /\ RenderInv'
  <2>1. /\ editor' \in [pc : {"idle", "running", "submitted", "stored"},
                        render : {0} \cup Renders]
        /\ job' \in [Renders -> {"none", "queued", "rendering", "ended", "gone"}]
    BY <1>1, FreshIsFree DEF EditorSubmits, Submit, Enqueues, TypeOK
  <2>2. EditorOK'
    BY <1>1, FreshIsFree DEF EditorSubmits, Submit, Enqueues, RenderInv, EditorOK, thr, stored
  <2>3. TypeOK'
    BY <1>1, <2>1 DEF EditorSubmits, Submit, Enqueues, thr, stored, jobs, history, bounds,
       TypeOK
  <2>4. /\ JobsOK' /\ CallsOK' /\ AnswersOK' /\ OnePath' /\ WaitOK' /\ OneVideoPerRender'
        /\ VideosAreRecorded' /\ GateHasVideo' /\ RowFollowsThread'
    BY <1>1, Frame DEF EditorSubmits, Submit, Enqueues, thr, stored, jobs, history, bounds
  <2>. QED
    BY <2>2, <2>3, <2>4 DEF RenderInv
<1>2. ASSUME EditorStores PROVE TypeOK' /\ RenderInv'
  <2>1. editor.render \in Renders /\ thread = "editing"
    BY <1>2 DEF EditorStores, RenderInv, EditorOK
  <2>2. /\ outputs' \in Seq(Renders) /\ Recorded' = Recorded \cup {editor.render}
        /\ JobsOK' /\ CallsOK' /\ AnswersOK' /\ VideosAreRecorded'
        /\ Len(outputs') > Len(outputs)
    BY <1>2, <2>1, RecordingStep DEF EditorStores, jobs, thr
  <2>3. editor' \in [pc : {"idle", "running", "submitted", "stored"},
                   render : {0} \cup Renders]
    BY <1>2 DEF EditorStores, TypeOK
  <2>4. editor'.render = editor.render /\ thread' = thread
    BY <1>2 DEF EditorStores, TypeOK, thr
  <2>5. EditorOK' /\ RowFollowsThread'
    BY <1>2, <2>1, <2>2, <2>4 DEF EditorStores, EditorOK, RowFollowsThread
  <2>6. TypeOK'
    BY <1>2, <2>2, <2>3 DEF EditorStores, stored, thr, service, jobs, history,
       bounds, TypeOK, Status
  <2>7. OnePath' /\ WaitOK' /\ OneVideoPerRender' /\ GateHasVideo'
    BY <1>2, Frame DEF EditorStores, stored, thr, service, jobs, history, bounds
  <2>. QED
    BY <2>2, <2>5, <2>6, <2>7 DEF RenderInv
<1>3. ASSUME EditorParks PROVE TypeOK' /\ RenderInv'
  <2>1. editor.render \in Recorded /\ editor.render \in Renders
    BY <1>3, RecordedAreRenders DEF EditorParks, RenderInv, EditorOK
  <2>2. poll' \in [Renders -> Job]
    BY <1>3 DEF EditorParks, Polling, TypeOK, Job
  <2>3. editor' \in [pc : {"idle", "running", "submitted", "stored"},
                   render : {0} \cup Renders]
    BY <1>3 DEF EditorParks
  <2>4. JobsOK'
    BY <1>3, <2>1 DEF EditorParks, Polling, RenderInv, JobsOK, stored, Recorded, TypeOK
  <2>5. OnePath'
    BY <1>3 DEF EditorParks, Polling, RenderInv, OnePath, stored
  <2>6. EditorOK' /\ WaitOK' /\ GateHasVideo' /\ RowFollowsThread'
    BY <1>3 DEF EditorParks, EditorOK, WaitOK, GateHasVideo, RowFollowsThread
  <2>7. TypeOK'
    BY <1>3, <2>2, <2>3 DEF EditorParks, stored, service, history, bounds, TypeOK,
       Status
  <2>8. CallsOK' /\ AnswersOK' /\ OneVideoPerRender' /\ VideosAreRecorded'
    BY <1>3, Frame DEF EditorParks, stored, service, history, bounds
  <2>. QED
    BY <2>4, <2>5, <2>6, <2>7, <2>8 DEF RenderInv
<1>4. ASSUME EditorFails PROVE TypeOK' /\ RenderInv'
  <2>1. EditorOK' /\ RowFollowsThread'
    BY <1>4 DEF EditorFails, EditorOK, RenderInv, RowFollowsThread, thr, stored, history
  <2>2. editor' \in [pc : {"idle", "running", "submitted", "stored"},
                   render : {0} \cup Renders]
    BY <1>4 DEF EditorFails
  <2>3. TypeOK'
    BY <1>4, <2>2 DEF EditorFails, Fail, bounds, thr, stored, service, jobs,
       history, TypeOK, Status
  <2>4. /\ JobsOK' /\ CallsOK' /\ AnswersOK' /\ OnePath' /\ WaitOK' /\ OneVideoPerRender'
        /\ VideosAreRecorded' /\ GateHasVideo'
    BY <1>4, Frame DEF EditorFails, Fail, bounds, thr, stored, service, jobs, history
  <2>. QED
    BY <2>1, <2>3, <2>4 DEF RenderInv
<1>5. ASSUME EditorDies PROVE TypeOK' /\ RenderInv'
  <2>1. EditorOK'
    BY <1>5 DEF EditorDies, EditorOK, thr
  <2>2. editor' \in [pc : {"idle", "running", "submitted", "stored"},
                   render : {0} \cup Renders]
    BY <1>5 DEF EditorDies
  <2>3. TypeOK'
    BY <1>5, <2>2 DEF EditorDies, Fault, thr, stored, service, jobs, history, TypeOK
  <2>4. /\ JobsOK' /\ CallsOK' /\ AnswersOK' /\ OnePath' /\ WaitOK' /\ OneVideoPerRender'
        /\ VideosAreRecorded' /\ GateHasVideo' /\ RowFollowsThread'
    BY <1>5, Frame DEF EditorDies, Fault, thr, stored, service, jobs, history
  <2>. QED
    BY <2>1, <2>3, <2>4 DEF RenderInv
<1>6. ASSUME NEW r \in Renders, RenderStarts(r) PROVE TypeOK' /\ RenderInv'
  <2>1. job' \in [Renders -> {"none", "queued", "rendering", "ended", "gone"}]
    BY <1>6 DEF RenderStarts, TypeOK
  <2>2. TypeOK'
    BY <1>6, <2>1 DEF RenderStarts, thr, stored, jobs, history, bounds, TypeOK
  <2>3. /\ EditorOK' /\ JobsOK' /\ CallsOK' /\ AnswersOK' /\ OnePath' /\ WaitOK'
        /\ OneVideoPerRender' /\ VideosAreRecorded' /\ GateHasVideo' /\ RowFollowsThread'
    BY <1>6, Frame DEF RenderStarts, thr, stored, jobs, history, bounds
  <2>. QED
    BY <2>2, <2>3 DEF RenderInv
<1>7. ASSUME NEW r \in Renders, RenderEnds(r) PROVE TypeOK' /\ RenderInv'
  <2>1. /\ job' \in [Renders -> {"none", "queued", "rendering", "ended", "gone"}]
        /\ outcome' \in [Renders -> {"none", "done", "error"}]
        /\ callback' \subseteq Renders
    BY <1>7 DEF RenderEnds, TypeOK
  <2>2. TypeOK'
    BY <1>7, <2>1 DEF RenderEnds, Fail, thr, stored, jobs, history, TypeOK
  <2>3. /\ EditorOK' /\ JobsOK' /\ CallsOK' /\ AnswersOK' /\ OnePath' /\ WaitOK'
        /\ OneVideoPerRender' /\ VideosAreRecorded' /\ GateHasVideo' /\ RowFollowsThread'
    BY <1>7, Frame DEF RenderEnds, Fail, thr, stored, jobs, history
  <2>. QED
    BY <2>2, <2>3 DEF RenderInv
<1>8. ASSUME ServiceForgets PROVE TypeOK' /\ RenderInv'
  <2>1. job' \in [Renders -> {"none", "queued", "rendering", "ended", "gone"}]
    BY <1>8 DEF ServiceForgets, TypeOK
  <2>2. TypeOK'
    BY <1>8, <2>1 DEF ServiceForgets, Fault, thr, stored, jobs, history, TypeOK
  <2>3. /\ EditorOK' /\ JobsOK' /\ CallsOK' /\ AnswersOK' /\ OnePath' /\ WaitOK'
        /\ OneVideoPerRender' /\ VideosAreRecorded' /\ GateHasVideo' /\ RowFollowsThread'
    BY <1>8, Frame DEF ServiceForgets, Fault, thr, stored, jobs, history
  <2>. QED
    BY <2>2, <2>3 DEF RenderInv
<1>9. ASSUME NEW r \in Renders, RemotionWebhook(r) PROVE TypeOK' /\ RenderInv'
  <2>1. r \in Recorded /\ r \notin Videos
    BY <1>9 DEF RemotionWebhook, Accepts
  <2>2. status' \in Status /\ hook' \in [Renders -> Job] /\ background' \subseteq Renders
    <3>1. CASE CallbackQueued(r)
      <4>1. \A s \in Renders : (IF hook[s] = "absent" THEN "open" ELSE hook[s]) \in Job
        BY DEF TypeOK, Job
      <4>. QED
        BY <3>1, <4>1 DEF CallbackQueued, TypeOK
    <3>2. CASE CallbackHandled(r)
      BY <3>2 DEF CallbackHandled, TypeOK, Status
    <3>. QED
      BY <1>9, <3>1, <3>2 DEF RemotionWebhook
  <2>3. rendered' \in Seq(Renders) /\ OneVideoPerRender' /\ VideosAreRecorded'
    <3>1. UNCHANGED <<final, outputs>>
      BY <1>9 DEF RemotionWebhook, thr
    <3>2. UNCHANGED rendered \/ rendered' = Append(rendered, r)
      BY <1>9 DEF RemotionWebhook, CallbackQueued, CallbackHandled
    <3>. QED
      BY <2>1, <3>1, <3>2, StoringStep, Frame DEF TypeOK
  <2>4. Recorded' = Recorded
    BY <1>9 DEF RemotionWebhook, Recorded
  <2>5. JobsOK'
    BY <1>9, <2>1, <2>4 DEF RemotionWebhook, CallbackQueued, CallbackHandled,
       RenderInv, JobsOK, TypeOK
  <2>6. AnswersOK'
    BY <1>9, <2>1, <2>4 DEF RemotionWebhook, CallbackQueued, CallbackHandled,
       RenderInv, AnswersOK
  <2>7. OnePath'
    BY <1>9 DEF RemotionWebhook, CallbackQueued, CallbackHandled, RenderInv, OnePath
  <2>8. RowFollowsThread'
    BY <1>9 DEF RemotionWebhook, CallbackQueued, CallbackHandled, RenderInv,
       RowFollowsThread, thr, history
  <2>9. TypeOK'
    BY <1>9, <2>2, <2>3 DEF RemotionWebhook, CallbackQueued, CallbackHandled, thr,
       history, bounds, TypeOK
  <2>10. EditorOK' /\ CallsOK' /\ WaitOK' /\ GateHasVideo'
    BY <1>9, Frame DEF RemotionWebhook, CallbackQueued, CallbackHandled, thr,
       history, bounds
  <2>. QED
    BY <2>3, <2>5, <2>6, <2>7, <2>8, <2>9, <2>10 DEF RenderInv
<1>10. ASSUME NEW r \in Renders, CallbackLost(r) PROVE TypeOK' /\ RenderInv'
  <2>1. TypeOK'
    BY <1>10 DEF CallbackLost, thr, stored, jobs, history, bounds, TypeOK
  <2>2. /\ EditorOK' /\ JobsOK' /\ CallsOK' /\ AnswersOK' /\ OnePath' /\ WaitOK'
        /\ OneVideoPerRender' /\ VideosAreRecorded' /\ GateHasVideo' /\ RowFollowsThread'
    BY <1>10, Frame DEF CallbackLost, thr, stored, jobs, history, bounds
  <2>. QED
    BY <2>1, <2>2 DEF RenderInv
<1>11. ASSUME NEW r \in Renders, BackgroundResume(r) PROVE TypeOK' /\ RenderInv'
  <2>1. r \in Recorded
    BY <1>11 DEF BackgroundResume, RenderInv, AnswersOK
  <2>2. /\ EditorOK' /\ WaitOK' /\ VideosAreRecorded' /\ GateHasVideo'
        /\ RowFollowsThread' /\ status' \in Status
        /\ thread' \in {"editing", "waiting", "gate", "past"} /\ stray' \in BOOLEAN
        /\ final' \in {0} \cup Renders
    BY <1>11, <2>1, AnswerStep DEF BackgroundResume, Raises, thr
  <2>3. AnswersOK'
    BY <1>11 DEF BackgroundResume, RenderInv, AnswersOK, stored, Recorded
  <2>4. TypeOK'
    BY <1>11, <2>2 DEF BackgroundResume, stored, service, history, bounds, TypeOK
  <2>5. JobsOK' /\ CallsOK' /\ OnePath' /\ OneVideoPerRender'
    BY <1>11, Frame DEF BackgroundResume, stored, service, history, bounds
  <2>. QED
    BY <2>2, <2>3, <2>4, <2>5 DEF RenderInv
<1>12. ASSUME NEW w \in Workers, NEW r \in Renders, HookBegins(w, r)
       PROVE  TypeOK' /\ RenderInv'
  <2>1. hook[r] = "open" /\ r \in Recorded
    BY <1>12 DEF HookBegins, RenderInv, JobsOK
  <2>2. /\ status' \in Status /\ hook' \in [Renders -> Job]
        /\ \A s \in Renders : hook'[s] # "absent" => hook[s] # "absent"
    BY <1>12, <2>1 DEF HookBegins, TypeOK, Status, Job
  <2>3. tries' \in [Renders -> Nat] /\ faults' \in Nat
    BY <1>12 DEF HookBegins, MayRun, Fault, TypeOK
  <2>4. /\ call' \in [Workers -> Call]
        /\ \A v \in Workers : \/ call'[v] = call[v]
                              \/ call'[v].of = r /\ call'[v].render = r
    <3>. DEFINE begun == [op |-> "hook", of |-> r, render |-> r, known |-> r \in Videos]
    <3>1. begun \in Call /\ begun.of = r /\ begun.render = r
      BY DEF Call
    <3>2. call' = call \/ call' = [call EXCEPT ![w] = begun]
      BY <1>12 DEF HookBegins
    <3>. HIDE DEF begun
    <3>. QED
      BY <3>1, <3>2 DEF TypeOK
  <2>5. Recorded' = Recorded
    BY <1>12 DEF HookBegins, Recorded, stored
  <2>6. JobsOK'
    BY <1>12, <2>2, <2>5 DEF HookBegins, RenderInv, JobsOK
  <2>7. CallsOK'
    BY <2>1, <2>4, <2>5 DEF RenderInv, CallsOK
  <2>8. OnePath'
    BY <1>12, <2>1 DEF HookBegins, RenderInv, OnePath, stored, TypeOK
  <2>9. RowFollowsThread'
    BY <1>12 DEF HookBegins, RenderInv, RowFollowsThread, thr, history, stored
  <2>10. TypeOK'
    BY <1>12, <2>2, <2>3, <2>4 DEF HookBegins, MayRun, Fault, thr, stored, service,
       history, TypeOK
  <2>11. /\ EditorOK' /\ AnswersOK' /\ WaitOK' /\ OneVideoPerRender' /\ VideosAreRecorded'
         /\ GateHasVideo'
    BY <1>12, Frame DEF HookBegins, MayRun, Fault, thr, stored, service, history
  <2>. QED
    BY <2>6, <2>7, <2>8, <2>9, <2>10, <2>11 DEF RenderInv
<1>13. ASSUME NEW w \in Workers, NEW r \in Renders, HookEnds(w, r)
       PROVE  TypeOK' /\ RenderInv'
  <2>1. call[w].op # "none" /\ r \in Recorded
    BY <1>13 DEF HookEnds, RenderInv, CallsOK
  <2>2. /\ hook' \in [Renders -> Job]
        /\ (\A s \in Renders : hook'[s] # "absent" => hook[s] # "absent" \/ s = r)
    BY <1>13 DEF HookEnds, Retried, TypeOK, Job
  <2>3. UNCHANGED <<rendered, resume>>
       \/ (/\ rendered' \in Seq(Renders) /\ OneVideoPerRender' /\ VideosAreRecorded'
           /\ resume' = [state |-> "open", tries |-> 0, video |-> r])
    BY <1>13, <2>1, JobStoresStep DEF HookEnds, thr
  <2>4. rendered' \in Seq(Renders) /\ OneVideoPerRender' /\ VideosAreRecorded'
    BY <1>13, <2>3, Frame DEF HookEnds, thr, TypeOK
  <2>5. resume' \in [state : Job, tries : Nat, video : {0} \cup Renders]
    BY <2>3 DEF TypeOK, Job
  <2>6. call' \in [Workers -> Call] /\ CallsOK'
    <3>1. NoCall \in Call /\ NoCall.op = "none"
      BY DEF NoCall, Call
    <3>. QED
      BY <1>13, <3>1 DEF HookEnds, Hangup, TypeOK, RenderInv, CallsOK, stored, Recorded
  <2>7. JobsOK'
    BY <1>13, <2>1, <2>2 DEF HookEnds, RenderInv, JobsOK, Recorded
  <2>8. /\ resume'.video \in {0} \cup Recorded
        /\ (resume'.state # "absent" => resume'.video # 0)
    BY <2>1, <2>3, RendersAssumption DEF RenderInv, AnswersOK, Renders
  <2>9. AnswersOK'
    BY <1>13, <2>8 DEF HookEnds, RenderInv, AnswersOK, Recorded
  <2>10. OnePath'
    BY <1>13, <2>1, <2>3 DEF HookEnds, RenderInv, OnePath
  <2>11. TypeOK'
    BY <1>13, <2>2, <2>3, <2>4, <2>5, <2>6 DEF HookEnds, thr, service, history,
       bounds, TypeOK
  <2>12. EditorOK' /\ WaitOK' /\ GateHasVideo' /\ RowFollowsThread'
    BY <1>13, Frame DEF HookEnds, thr, service, history, bounds
  <2>. QED
    BY <2>3, <2>4, <2>6, <2>7, <2>9, <2>10, <2>11, <2>12 DEF RenderInv
<1>14. ASSUME NEW w \in Workers, NEW r \in Renders, PollBegins(w, r)
       PROVE  TypeOK' /\ RenderInv'
  <2>1. poll[r] = "open" /\ r \in Recorded /\ outputs # <<>>
    <3>1. poll[r] = "open" /\ r \in Recorded
      BY <1>14 DEF PollBegins, RenderInv, JobsOK
    <3>. QED
      BY <3>1 DEF Recorded, Range
  <2>2. Last(outputs) \in Recorded /\ Last(outputs) \in Renders
    BY <2>1, LastBelongs DEF TypeOK, Recorded
  <2>3. poll' \in [Renders -> Job]
    BY <1>14 DEF PollBegins, TypeOK, Job
  <2>4. polled' \in [Renders -> Nat] /\ faults' \in Nat
    BY <1>14 DEF PollBegins, MayRun, Fault, TypeOK
  <2>5. /\ call' \in [Workers -> Call]
        /\ \A v \in Workers : \/ call'[v] = call[v]
                              \/ /\ call'[v].op = "poll" /\ call'[v].of = r
                                 /\ call'[v].render = Last(outputs)
    <3>. DEFINE begun == [op |-> "poll", of |-> r, render |-> Last(outputs),
                          known |-> Last(outputs) \in Videos]
    <3>1. /\ begun \in Call /\ begun.op = "poll" /\ begun.of = r
          /\ begun.render = Last(outputs)
      BY <2>2 DEF Call
    <3>2. call' = call \/ call' = [call EXCEPT ![w] = begun]
      BY <1>14 DEF PollBegins
    <3>. HIDE DEF begun
    <3>. QED
      BY <3>1, <3>2 DEF TypeOK
  <2>6. Recorded' = Recorded
    BY <1>14 DEF PollBegins, Recorded, stored
  <2>7. JobsOK'
    BY <1>14, <2>1, <2>6 DEF PollBegins, RenderInv, JobsOK, TypeOK
  <2>8. CallsOK'
    BY <2>1, <2>2, <2>5, <2>6 DEF RenderInv, CallsOK
  <2>9. OnePath'
    BY <1>14, <2>1 DEF PollBegins, RenderInv, OnePath, stored, TypeOK
  <2>10. TypeOK'
    BY <1>14, <2>3, <2>4, <2>5 DEF PollBegins, MayRun, Fault, thr, stored, service,
       history, TypeOK
  <2>11. /\ EditorOK' /\ AnswersOK' /\ WaitOK' /\ OneVideoPerRender' /\ VideosAreRecorded'
         /\ GateHasVideo' /\ RowFollowsThread'
    BY <1>14, Frame DEF PollBegins, MayRun, Fault, thr, stored, service, history
  <2>. QED
    BY <2>7, <2>8, <2>9, <2>10, <2>11 DEF RenderInv
<1>15. ASSUME NEW w \in Workers, NEW r \in Renders, PollEnds(w, r)
       PROVE  TypeOK' /\ RenderInv'
  <2>1. /\ call[w].op # "none" /\ call[w].render \in Recorded
        /\ call[w].render \in Renders /\ r \in Recorded
    BY <1>15, RecordedAreRenders DEF PollEnds, RenderInv, CallsOK
  <2>2. status' \in Status /\ poll' \in [Renders -> Job]
    BY <1>15 DEF PollEnds, PollAgain, Retried, TypeOK, Job, Status
  <2>3. \A s \in Renders : poll'[s] # "absent" => poll[s] # "absent" \/ s = r
    BY <1>15 DEF PollEnds, PollAgain, Retried, TypeOK
  <2>4. UNCHANGED <<rendered, resume>>
       \/ (/\ rendered' \in Seq(Renders) /\ OneVideoPerRender' /\ VideosAreRecorded'
           /\ resume' = [state |-> "open", tries |-> 0, video |-> call[w].render])
    BY <1>15, <2>1, JobStoresStep DEF PollEnds, thr
  <2>5. rendered' \in Seq(Renders) /\ OneVideoPerRender' /\ VideosAreRecorded'
    BY <1>15, <2>4, Frame DEF PollEnds, thr, TypeOK
  <2>6. resume' \in [state : Job, tries : Nat, video : {0} \cup Renders]
    BY <2>1, <2>4 DEF TypeOK, Job
  <2>7. call' \in [Workers -> Call] /\ CallsOK'
    <3>1. NoCall \in Call /\ NoCall.op = "none"
      BY DEF NoCall, Call
    <3>. QED
      BY <1>15, <3>1 DEF PollEnds, Hangup, TypeOK, RenderInv, CallsOK, stored, Recorded
  <2>8. JobsOK'
    BY <1>15, <2>1, <2>3 DEF PollEnds, RenderInv, JobsOK, Recorded
  <2>9. /\ resume'.video \in {0} \cup Recorded
        /\ (resume'.state # "absent" => resume'.video # 0)
    BY <2>1, <2>4, RendersAssumption DEF RenderInv, AnswersOK, Renders
  <2>10. AnswersOK'
    BY <1>15, <2>9 DEF PollEnds, RenderInv, AnswersOK, Recorded
  <2>11. OnePath'
    BY <1>15, <2>1, <2>4 DEF PollEnds, RenderInv, OnePath
  <2>12. RowFollowsThread'
    BY <1>15 DEF PollEnds, RenderInv, RowFollowsThread, thr, history
  <2>13. TypeOK'
    BY <1>15, <2>2, <2>4, <2>5, <2>6, <2>7 DEF PollEnds, thr, service, history,
       bounds, TypeOK
  <2>14. EditorOK' /\ WaitOK' /\ GateHasVideo'
    BY <1>15, Frame DEF PollEnds, thr, service, history, bounds
  <2>. QED
    BY <2>4, <2>5, <2>7, <2>8, <2>10, <2>11, <2>12, <2>13, <2>14 DEF RenderInv
<1>16. ASSUME NEW w \in Workers, Crash(w) PROVE TypeOK' /\ RenderInv'
  <2>1. call' \in [Workers -> Call] /\ CallsOK'
    <3>1. NoCall \in Call /\ NoCall.op = "none"
      BY DEF NoCall, Call
    <3>. QED
      BY <1>16, <3>1 DEF Crash, Hangup, TypeOK, RenderInv, CallsOK, stored, Recorded
  <2>2. OnePath'
    BY <1>16 DEF Crash, Hangup, NoCall, RenderInv, OnePath, TypeOK, stored, jobs
  <2>3. TypeOK'
    BY <1>16, <2>1 DEF Crash, Fault, thr, stored, service, jobs, history, TypeOK
  <2>4. /\ EditorOK' /\ JobsOK' /\ AnswersOK' /\ WaitOK' /\ OneVideoPerRender'
        /\ VideosAreRecorded' /\ GateHasVideo' /\ RowFollowsThread'
    BY <1>16, Frame DEF Crash, Fault, thr, stored, service, jobs, history
  <2>. QED
    BY <2>1, <2>2, <2>3, <2>4 DEF RenderInv
<1>17. ASSUME ResumeRender PROVE TypeOK' /\ RenderInv'
  <2>1. resume.state = "open" /\ resume.video \in Recorded /\ resume.video \in Renders
    BY <1>17, RecordedAreRenders DEF ResumeRender, RenderInv, AnswersOK
  <2>2. /\ EditorOK' /\ WaitOK' /\ VideosAreRecorded' /\ GateHasVideo'
        /\ RowFollowsThread' /\ status' \in Status
        /\ thread' \in {"editing", "waiting", "gate", "past"} /\ stray' \in BOOLEAN
        /\ final' \in {0} \cup Renders
    BY <1>17, <2>1, AnswerStep DEF ResumeRender, Raises, thr
  <2>3. /\ resume.state \in Job /\ resume.tries \in Nat
        /\ resume = [state |-> resume.state, tries |-> resume.tries, video |-> resume.video]
    BY TypeOK DEF TypeOK
  <2>4. \/ resume' = [resume EXCEPT !.state = "done"]
        \/ \E t \in {"open", "dead"} : resume' = [resume EXCEPT !.tries = @ + 1, !.state = t]
    BY <1>17 DEF ResumeRender
  <2>5. /\ resume' \in [state : Job, tries : Nat, video : {0} \cup Renders]
        /\ resume'.video = resume.video /\ resume'.state # "absent"
    <3>1. CASE resume' = [resume EXCEPT !.state = "done"]
      BY <2>1, <2>3, <3>1 DEF Job
    <3>2. ASSUME NEW t \in {"open", "dead"},
                 resume' = [resume EXCEPT !.tries = @ + 1, !.state = t]
          PROVE  resume' \in [state : Job, tries : Nat, video : {0} \cup Renders]
                 /\ resume'.video = resume.video /\ resume'.state # "absent"
      <4>1. resume' = [state |-> t, tries |-> resume.tries + 1, video |-> resume.video]
        BY <2>3, <3>2
      <4>. QED
        BY <2>1, <2>3, <4>1 DEF Job
    <3>. QED
      BY <2>4, <3>1, <3>2
  <2>6. AnswersOK'
    BY <1>17, <2>1, <2>5 DEF ResumeRender, RenderInv, AnswersOK, stored, Recorded
  <2>7. OnePath'
    BY <1>17, <2>1, <2>5 DEF ResumeRender, RenderInv, OnePath, stored
  <2>8. TypeOK'
    BY <1>17, <2>2, <2>5 DEF ResumeRender, stored, service, history, bounds, TypeOK
  <2>9. JobsOK' /\ CallsOK' /\ OneVideoPerRender'
    BY <1>17, Frame DEF ResumeRender, stored, service, history, bounds
  <2>. QED
    BY <2>2, <2>6, <2>7, <2>8, <2>9 DEF RenderInv
<1>18. ASSUME OperatorReads PROVE TypeOK' /\ RenderInv'
  <2>1. operator' \in Recorded /\ operator' \in Renders
    <3>1. operator' \in Videos \/ operator' \in Recorded
      BY <1>18, LastBelongs DEF OperatorReads, LatestVideo, TypeOK, Videos, Recorded
    <3>. QED
      BY <3>1, RecordedAreRenders DEF RenderInv, VideosAreRecorded
  <2>2. AnswersOK'
    BY <1>18, <2>1 DEF OperatorReads, RenderInv, AnswersOK, stored, Recorded, jobs
  <2>3. TypeOK'
    BY <1>18, <2>1 DEF OperatorReads, Act, thr, stored, service, jobs, history,
       TypeOK
  <2>4. /\ EditorOK' /\ JobsOK' /\ CallsOK' /\ OnePath' /\ WaitOK' /\ OneVideoPerRender'
        /\ VideosAreRecorded' /\ GateHasVideo' /\ RowFollowsThread'
    BY <1>18, Frame DEF OperatorReads, Act, thr, stored, service, jobs, history
  <2>. QED
    BY <2>2, <2>3, <2>4 DEF RenderInv
<1>19. ASSUME OperatorResumes PROVE TypeOK' /\ RenderInv'
  <2>1. operator \in Recorded /\ operator \in Renders
    BY <1>19, RecordedAreRenders DEF OperatorResumes, RenderInv, AnswersOK
  <2>2. /\ EditorOK' /\ WaitOK' /\ VideosAreRecorded' /\ GateHasVideo'
        /\ RowFollowsThread' /\ status' \in Status
        /\ thread' \in {"editing", "waiting", "gate", "past"} /\ stray' \in BOOLEAN
        /\ final' \in {0} \cup Renders
    BY <1>19, <2>1, AnswerStep DEF OperatorResumes, Raises, thr, history
  <2>3. AnswersOK'
    BY <1>19 DEF OperatorResumes, RenderInv, AnswersOK, stored, jobs, Recorded
  <2>4. TypeOK'
    BY <1>19, <2>2 DEF OperatorResumes, stored, service, jobs, history, bounds,
       TypeOK, history
  <2>5. JobsOK' /\ CallsOK' /\ OnePath' /\ OneVideoPerRender'
    BY <1>19, Frame DEF OperatorResumes, stored, service, jobs, history, bounds
  <2>. QED
    BY <2>2, <2>3, <2>4, <2>5 DEF RenderInv
<1>20. ASSUME NEW b \in BOOLEAN, Decide(b) PROVE TypeOK' /\ RenderInv'
  <2>1. /\ thread' \in {"editing", "waiting", "gate", "past"} /\ stray' \in BOOLEAN
        /\ strayed' \in BOOLEAN
    BY <1>20 DEF Decide, AnswersGate, KeepsWaiting, DropsAnswer, Raises, thr, TypeOK
  <2>2. status' \in Status /\ actions' \in Nat
    BY <1>20 DEF Decide, AnswersGate, Act, TypeOK, Status
  <2>3. final' = final
    BY <1>20 DEF Decide, AnswersGate, KeepsWaiting, DropsAnswer, Raises, thr
  <2>4. EditorOK'
    BY <1>20 DEF Decide, AnswersGate, KeepsWaiting, DropsAnswer, Raises, thr, RenderInv, EditorOK,
       stored, Recorded
  <2>5. WaitOK' /\ GateHasVideo'
    BY <1>20 DEF Decide, AnswersGate, KeepsWaiting, DropsAnswer, Raises, thr, RenderInv, WaitOK,
       GateHasVideo
  <2>6. VideosAreRecorded'
    BY <1>20, <2>3 DEF Decide, AnswersGate, RenderInv, VideosAreRecorded, stored, Recorded, Videos
  <2>7. RowFollowsThread'
    BY <1>20 DEF Decide, AnswersGate, KeepsWaiting, DropsAnswer, Raises, thr, RenderInv,
       RowFollowsThread, stored
  <2>8. TypeOK'
    BY <1>20, <2>1, <2>2, <2>3 DEF Decide, AnswersGate, Act, stored, service, jobs, TypeOK
  <2>9. JobsOK' /\ CallsOK' /\ AnswersOK' /\ OnePath' /\ OneVideoPerRender'
    BY <1>20, Frame DEF Decide, AnswersGate, Act, stored, service, jobs
  <2>. QED
    BY <2>4, <2>5, <2>6, <2>7, <2>8, <2>9 DEF RenderInv
<1>21. ASSUME NEW b \in BOOLEAN, RepairRender(b) PROVE TypeOK' /\ RenderInv'
  <2>1. Fresh \in Renders
    BY <1>21, FreshIsFree DEF RepairRender, Resubmits, Submit, Enqueues
  <2>2. /\ job' \in [Renders -> {"none", "queued", "rendering", "ended", "gone"}]
        /\ status' \in Status /\ poll' \in [Renders -> Job]
    BY <1>21, <2>1 DEF RepairRender, Resubmits, Submit, Enqueues, Polling, TypeOK, Job, Status
  <2>3. /\ outputs' \in Seq(Renders) /\ JobsOK' /\ CallsOK' /\ AnswersOK'
        /\ VideosAreRecorded' /\ EditorOK' /\ RowFollowsThread'
    <3>1. CASE UNCHANGED <<outputs, status, poll>>
      BY <1>21, <3>1, Frame DEF RepairRender, Resubmits, TypeOK, thr, history, jobs
    <3>2. CASE /\ outputs' = Append(outputs, Fresh) /\ status' = "awaiting_render"
               /\ poll' = Polling(Fresh)
      <4>1. /\ outputs' \in Seq(Renders) /\ Recorded' = Recorded \cup {Fresh}
            /\ Len(outputs') > 1
        BY <1>21, <2>1, <3>2, RecordingStep DEF RepairRender, Resubmits
      <4>2. CallsOK' /\ AnswersOK' /\ VideosAreRecorded'
        BY <1>21, <2>1, <3>2, RecordingStep DEF RepairRender, Resubmits, thr
      <4>3. JobsOK'
        BY <1>21, <2>1, <3>2, <4>1 DEF RepairRender, Resubmits, Polling, RenderInv, JobsOK, TypeOK
      <4>4. EditorOK' /\ RowFollowsThread'
        BY <1>21, <3>2, <4>1 DEF RepairRender, Resubmits, RenderInv, EditorOK, RowFollowsThread,
           thr
      <4>. QED
        BY <4>1, <4>2, <4>3, <4>4
    <3>. QED
      BY <1>21, <3>1, <3>2 DEF RepairRender, Resubmits
  <2>4. actions' \in Nat /\ faults' \in Nat
    BY <1>21 DEF RepairRender, Resubmits, Act, Fault, TypeOK
  <2>5. OnePath'
    BY <1>21 DEF RepairRender, Resubmits, Polling, RenderInv, OnePath
  <2>6. TypeOK'
    BY <1>21, <2>2, <2>3, <2>4 DEF RepairRender, Resubmits, thr, history, TypeOK
  <2>7. WaitOK' /\ OneVideoPerRender' /\ GateHasVideo'
    BY <1>21, Frame DEF RepairRender, Resubmits, thr, history
  <2>. QED
    BY <2>3, <2>5, <2>6, <2>7 DEF RenderInv
<1>22. ASSUME ForkFromClips PROVE TypeOK' /\ RenderInv'
  <2>1. editor' \in [pc : {"idle", "running", "submitted", "stored"},
                   render : {0} \cup Renders]
    BY <1>22 DEF ForkFromClips
  <2>2. EditorOK' /\ WaitOK' /\ GateHasVideo' /\ RowFollowsThread'
    BY <1>22 DEF ForkFromClips, EditorOK, WaitOK, GateHasVideo, RowFollowsThread
  <2>3. /\ thread' \in {"editing", "waiting", "gate", "past"} /\ stray' \in BOOLEAN
        /\ final' \in {0} \cup Renders /\ forked' \in BOOLEAN
    BY <1>22 DEF ForkFromClips
  <2>4. actions' \in Nat
    BY <1>22 DEF ForkFromClips, Act, TypeOK
  <2>5. VideosAreRecorded'
    BY <1>22 DEF ForkFromClips, RenderInv, VideosAreRecorded, stored, Recorded, Videos
  <2>6. TypeOK'
    BY <1>22, <2>1, <2>3, <2>4 DEF ForkFromClips, Act, stored, service, jobs, TypeOK
  <2>7. JobsOK' /\ CallsOK' /\ AnswersOK' /\ OnePath' /\ OneVideoPerRender'
    BY <1>22, Frame DEF ForkFromClips, Act, stored, service, jobs
  <2>. QED
    BY <2>2, <2>5, <2>6, <2>7 DEF RenderInv
<1>23. ASSUME LaterFails PROVE TypeOK' /\ RenderInv'
  <2>1. status' \in Status /\ failures' \in Nat
    BY <1>23 DEF LaterFails, Fail, TypeOK, Status
  <2>2. RowFollowsThread'
    BY <1>23 DEF LaterFails, RenderInv, RowFollowsThread, thr, history, stored
  <2>3. TypeOK'
    BY <1>23, <2>1 DEF LaterFails, Fail, thr, stored, service, jobs, history, TypeOK
  <2>4. /\ EditorOK' /\ JobsOK' /\ CallsOK' /\ AnswersOK' /\ OnePath' /\ WaitOK'
        /\ OneVideoPerRender' /\ VideosAreRecorded' /\ GateHasVideo'
    BY <1>23, Frame DEF LaterFails, Fail, thr, stored, service, jobs, history
  <2>. QED
    BY <2>2, <2>3, <2>4 DEF RenderInv
<1>24. CASE UNCHANGED vars
  <2>1. TypeOK'
    BY <1>24 DEF TypeOK, vars, thr, stored, service, jobs, history, bounds
  <2>2. RenderInv'
    BY <1>24, Frame DEF RenderInv, vars, thr, stored, jobs, history
  <2>. QED
    BY <2>1, <2>2
<1>. QED
  BY <1>1, <1>2, <1>3, <1>4, <1>5, <1>6, <1>7, <1>8,
       <1>9, <1>10, <1>11, <1>12, <1>13, <1>14, <1>15, <1>16, <1>17, <1>18, <1>19,
       <1>20, <1>21, <1>22, <1>23, <1>24 DEF Next, Work

LEMMA RenderInvHolds == Spec => [](TypeOK /\ RenderInv)
<1>1. Init => TypeOK
  <2>. SUFFICES ASSUME Init PROVE TypeOK
    OBVIOUS
  <2>1. NoCall \in Call
    BY DEF NoCall, Call
  <2>2. call \in [Workers -> Call]
    BY <2>1 DEF Init
  <2>3. /\ job \in [Renders -> {"none", "queued", "rendering", "ended", "gone"}]
        /\ outcome \in [Renders -> {"none", "done", "error"}]
    BY DEF Init
  <2>4. outputs \in Seq(Renders) /\ rendered \in Seq(Renders)
    BY DEF Init
  <2>5. /\ hook \in [Renders -> Job] /\ tries \in [Renders -> Nat]
        /\ poll \in [Renders -> Job] /\ polled \in [Renders -> Nat]
    BY DEF Init, Job
  <2>. QED
    BY <2>2, <2>3, <2>4, <2>5 DEF Init, TypeOK, Status, Job
<1>2. Init => RenderInv
  <2>. SUFFICES ASSUME Init PROVE RenderInv
    OBVIOUS
  <2>1. EditorOK /\ JobsOK /\ OnePath /\ WaitOK
    BY DEF Init, EditorOK, JobsOK, OnePath, WaitOK, NoCall
  <2>2. CallsOK /\ AnswersOK
    BY DEF Init, CallsOK, AnswersOK, NoCall
  <2>3. OneVideoPerRender
    BY DEF Init, OneVideoPerRender, IsInjective
  <2>4. VideosAreRecorded
    BY DEF Init, VideosAreRecorded, Videos, Range
  <2>5. GateHasVideo /\ RowFollowsThread
    BY DEF Init, GateHasVideo, RowFollowsThread
  <2>. QED
    BY <2>1, <2>2, <2>3, <2>4, <2>5 DEF RenderInv
<1>3. (TypeOK /\ RenderInv) /\ [Next]_vars => (TypeOK /\ RenderInv)'
  BY RenderStep
<1>. QED
  BY <1>1, <1>2, <1>3, PTL DEF Spec

-----------------------------------------------------------------------------
(* Theorems.                                                               *)

\* Whatever is submitted, called back, polled, resumed, repaired and forked, the
\* service, the run, its jobs and their executions are well typed: remotion.poll
\* has a render to ask for whenever it is run.
THEOREM RendersTyped == Spec => []TypeOK
  BY RenderInvHolds, PTL

\* The video of a render is stored once, for any number of workers that execute
\* webhook.remotion and remotion.poll at once and any number of attempts.
THEOREM EachVideoOnce == Spec => []OneVideoPerRender
<1>1. RenderInv => OneVideoPerRender
  BY DEF RenderInv
<1>. QED
  BY RenderInvHolds, <1>1, PTL

\* No video comes into the run, or to its gate, from a render whose job id the
\* run has not recorded (the look-up of the job id in the webhook route).
THEOREM OnlyRecordedRenders == Spec => []VideosAreRecorded
<1>1. RenderInv => VideosAreRecorded
  BY DEF RenderInv
<1>. QED
  BY RenderInvHolds, <1>1, PTL

\* A thread at the publish gate or past it has the URL of a video, unless a
\* decision was given to its wait (wait_for_render_node).
THEOREM GateNeedsVideo == Spec => []GateHasVideo
<1>1. RenderInv => GateHasVideo
  BY DEF RenderInv
<1>. QED
  BY RenderInvHolds, <1>1, PTL

\* The row and the thread agree about the publish gate, but for what an operator
\* has forked, repaired or decided (the snapshots after each resume).
THEOREM RowAtTheGate == Spec => []RowFollowsThread
<1>1. RenderInv => RowFollowsThread
  BY DEF RenderInv
<1>. QED
  BY RenderInvHolds, <1>1, PTL

-----------------------------------------------------------------------------
(* The jobs rely on no more than the queue promises.                       *)

\* A render has no poll before it is submitted, nor before its node is left; a job that
\* is executed exists.
PollsOK ==
    /\ \A r \in Renders : job[r] = "none" => poll[r] = "absent"
    /\ editor.pc \in {"submitted", "stored"} =>
          /\ editor.render \in Renders
          /\ poll[editor.render] = "absent" /\ job[editor.render] # "none"
    /\ \A w \in Workers : call[w].op = "poll" => poll[call[w].of] # "absent"

\* What touches no job, and takes none.
Others ==
    \/ EditorSubmits \/ EditorStores \/ EditorFails \/ EditorDies
    \/ \E r \in Renders : RenderStarts(r) \/ RenderEnds(r)
    \/ ServiceForgets
    \/ \E r \in Renders : CallbackLost(r) \/ BackgroundResume(r)
    \/ ResumeRender
    \/ OperatorReads \/ OperatorResumes
    \/ \E b \in BOOLEAN : Decide(b)
    \/ ForkFromClips
    \/ LaterFails
    \/ UNCHANGED vars

LEMMA OthersJobs ==
    ASSUME Others
    PROVE  UNCHANGED <<dispatcher, hook, tries, poll, polled, call>>
<1>. USE DEF thr, stored, service, jobs, history, bounds
<1>1. CASE EditorSubmits \/ EditorStores \/ EditorFails \/ EditorDies
  BY <1>1 DEF EditorSubmits, EditorStores, EditorFails, EditorDies
<1>2. CASE ServiceForgets \/ \E r \in Renders : RenderStarts(r) \/ RenderEnds(r)
  BY <1>2 DEF ServiceForgets, RenderStarts, RenderEnds
<1>3. CASE ResumeRender \/ \E r \in Renders : CallbackLost(r) \/ BackgroundResume(r)
  BY <1>3 DEF ResumeRender, CallbackLost, BackgroundResume
<1>4. CASE OperatorReads \/ OperatorResumes \/ \E b \in BOOLEAN : Decide(b)
  BY <1>4 DEF OperatorReads, OperatorResumes, Decide
<1>5. CASE ForkFromClips \/ LaterFails \/ UNCHANGED vars
  BY <1>5 DEF ForkFromClips, LaterFails, vars
<1>. QED
  BY <1>1, <1>2, <1>3, <1>4, <1>5 DEF Others

LEMMA StepKinds ==
    ASSUME [Next]_vars
    PROVE  \/ Others
           \/ EditorParks
           \/ \E r \in Renders : RemotionWebhook(r)
           \/ \E b \in BOOLEAN : RepairRender(b)
           \/ \E w \in Workers, r \in Renders :
                HookBegins(w, r) \/ HookEnds(w, r) \/ PollBegins(w, r) \/ PollEnds(w, r)
           \/ \E w \in Workers : Crash(w)
  BY DEF Next, Work, Others

\* The service's table only ever gains what was submitted.
LEMMA OthersPolls ==
    ASSUME TypeOK, PollsOK, Others
    PROVE  PollsOK'
<1>1. UNCHANGED <<poll, call>>
  BY OthersJobs
<1>. USE <1>1 DEF thr, stored, service, jobs, history, bounds
<1>2. CASE EditorSubmits
  <2>1. Fresh \in Renders /\ job[Fresh] = "none"
    BY <1>2, FreshIsFree DEF EditorSubmits, Submit
  <2>2. editor' = [pc |-> "submitted", render |-> Fresh] /\ job' = [job EXCEPT ![Fresh] = "queued"]
    BY <1>2 DEF EditorSubmits, Submit, Enqueues
  <2>. HIDE DEF Fresh
  <2>3. editor'.render = Fresh
    BY <2>2
  <2>. QED
    BY <2>1, <2>2, <2>3 DEF PollsOK, TypeOK
<1>3. CASE EditorStores
  <2>1. editor.pc = "submitted" /\ editor'.render = editor.render /\ job' = job
    BY <1>3 DEF EditorStores, TypeOK
  <2>. QED
    BY <2>1 DEF PollsOK
<1>4. CASE EditorFails \/ EditorDies \/ ForkFromClips
  <2>1. editor'.pc \notin {"submitted", "stored"} /\ job' = job
    BY <1>4 DEF EditorFails, EditorDies, ForkFromClips
  <2>. QED
    BY <2>1 DEF PollsOK
<1>5. CASE UNCHANGED editor /\ \A r \in Renders : job'[r] = "none" <=> job[r] = "none"
  BY <1>5 DEF PollsOK
<1>6. CASE ServiceForgets \/ \E r \in Renders : RenderStarts(r) \/ RenderEnds(r)
  <2>1. UNCHANGED editor /\ \A r \in Renders : job'[r] = "none" <=> job[r] = "none"
    BY <1>6 DEF ServiceForgets, RenderStarts, RenderEnds, Kept, TypeOK
  <2>. QED
    BY <1>5, <2>1
<1>7. CASE UNCHANGED <<editor, job>>
  BY <1>5, <1>7
<1>8. CASE \/ ResumeRender \/ OperatorReads \/ OperatorResumes \/ LaterFails \/ UNCHANGED vars
           \/ \E b \in BOOLEAN : Decide(b)
           \/ \E r \in Renders : CallbackLost(r) \/ BackgroundResume(r)
  BY <1>7, <1>8
   DEF ResumeRender, OperatorReads, OperatorResumes, LaterFails, Decide, CallbackLost, BackgroundResume, vars
<1>. QED
  BY <1>2, <1>3, <1>4, <1>6, <1>8 DEF Others

\* What the claims and the ends of the two jobs do to the jobs and the calls.
LEMMA WorkJobs ==
    ASSUME TypeOK, RenderInv, NEW w \in Workers, NEW r \in Renders
    PROVE  /\ HookBegins(w, r) =>
                /\ UNCHANGED <<dispatcher, poll, polled, job, editor>>
                /\ call[w].op = "none" /\ hook[r] = "open" /\ tries' = [tries EXCEPT ![r] = @ + 1]
                /\ \A v \in Workers \ {w} : call'[v] = call[v]
                /\ \/ hook' = hook /\ call'[w].op = "hook" /\ call'[w].of = r
                   \/ hook' = [hook EXCEPT ![r] = "done"] /\ call' = call
           /\ HookEnds(w, r) =>
                /\ UNCHANGED <<dispatcher, poll, polled, tries, job, editor>>
                /\ call[w].op = "hook" /\ call[w].of = r /\ call'[w].op = "none"
                /\ \A v \in Workers \ {w} : call'[v] = call[v]
                /\ hook' = [hook EXCEPT ![r] = "done"] \/ hook' = Retried(hook, tries, MaxTries, r)
           /\ PollBegins(w, r) =>
                /\ UNCHANGED <<dispatcher, hook, tries, job, editor>>
                /\ call[w].op = "none" /\ poll[r] = "open" /\ polled' = [polled EXCEPT ![r] = @ + 1]
                /\ \A v \in Workers \ {w} : call'[v] = call[v]
                /\ \/ poll' = poll /\ call'[w].op = "poll" /\ call'[w].of = r
                   \/ poll' = [poll EXCEPT ![r] = "done"] /\ call' = call
           /\ PollEnds(w, r) =>
                /\ UNCHANGED <<dispatcher, hook, tries, polled, job, editor>>
                /\ call[w].op = "poll" /\ call[w].of = r /\ call'[w].op = "none"
                /\ \A v \in Workers \ {w} : call'[v] = call[v]
                /\ poll' = [poll EXCEPT ![r] = "done"] \/ poll' = Retried(poll, polled, MaxPolls, r)
<1>. USE DEF service, Idle, Hangup, NoCall
<1>0. call \in [Workers -> Call]
  BY DEF TypeOK
<1>1. ASSUME HookBegins(w, r)
      PROVE  /\ UNCHANGED <<dispatcher, poll, polled, job, editor>>
             /\ call[w].op = "none" /\ hook[r] = "open" /\ tries' = [tries EXCEPT ![r] = @ + 1]
             /\ \A v \in Workers \ {w} : call'[v] = call[v]
             /\ \/ hook' = hook /\ call'[w].op = "hook" /\ call'[w].of = r
                \/ hook' = [hook EXCEPT ![r] = "done"] /\ call' = call
  BY <1>0, <1>1 DEF HookBegins
<1>2. ASSUME HookEnds(w, r)
      PROVE  /\ UNCHANGED <<dispatcher, poll, polled, tries, job, editor>>
             /\ call[w].op = "hook" /\ call[w].of = r /\ call'[w].op = "none"
             /\ \A v \in Workers \ {w} : call'[v] = call[v]
             /\ hook' = [hook EXCEPT ![r] = "done"] \/ hook' = Retried(hook, tries, MaxTries, r)
  BY <1>0, <1>2 DEF HookEnds
<1>3. ASSUME PollBegins(w, r)
      PROVE  /\ UNCHANGED <<dispatcher, hook, tries, job, editor>>
             /\ call[w].op = "none" /\ poll[r] = "open" /\ polled' = [polled EXCEPT ![r] = @ + 1]
             /\ \A v \in Workers \ {w} : call'[v] = call[v]
             /\ \/ poll' = poll /\ call'[w].op = "poll" /\ call'[w].of = r
                \/ poll' = [poll EXCEPT ![r] = "done"] /\ call' = call
  BY <1>0, <1>3 DEF PollBegins
<1>4. ASSUME PollEnds(w, r)
      PROVE  /\ UNCHANGED <<dispatcher, hook, tries, polled, job, editor>>
             /\ call[w].op = "poll" /\ call[w].of = r /\ call'[w].op = "none"
             /\ \A v \in Workers \ {w} : call'[v] = call[v]
             /\ poll' = [poll EXCEPT ![r] = "done"] \/ poll' = Retried(poll, polled, MaxPolls, r)
  BY <1>0, <1>4 DEF PollEnds, PollAgain
<1>. QED
  BY <1>1, <1>2, <1>3, <1>4

LEMMA PollsStep ==
    ASSUME TypeOK, RenderInv, PollsOK, [Next]_vars
    PROVE  PollsOK'
<1>. USE DEF stored, service, history, bounds
<1>1. CASE Others
  BY <1>1, OthersPolls
<1>2. CASE EditorParks
  <2>1. editor.pc = "stored" /\ editor.render \in Renders
    BY <1>2 DEF EditorParks, PollsOK
  <2>2. editor'.pc = "idle" /\ job' = job /\ poll' \in {poll, [poll EXCEPT ![editor.render] = "open"]}
    BY <1>2 DEF EditorParks, Polling
  <2>3. \A w \in Workers : call[w].op = "poll" => call[w].of \in Renders
    BY RecordedAreRenders DEF RenderInv, CallsOK
  <2>. QED
    BY <1>2, <2>1, <2>2, <2>3 DEF EditorParks, PollsOK, TypeOK
<1>3. CASE \E r \in Renders : RemotionWebhook(r)
  BY <1>3 DEF RemotionWebhook, PollsOK
<1>4. ASSUME NEW b \in BOOLEAN, RepairRender(b) PROVE PollsOK'
  <2>1. Fresh \in Renders /\ job[Fresh] = "none" /\ job' = [job EXCEPT ![Fresh] = "queued"]
    BY <1>4, FreshIsFree DEF RepairRender, Resubmits, Submit, Enqueues
  <2>2. poll' \in {poll, [poll EXCEPT ![Fresh] = "open"]} /\ editor' = editor
    BY <1>4 DEF RepairRender, Polling
  <2>3. \A w \in Workers : call[w].op = "poll" => call[w].of \in Renders
    BY RecordedAreRenders DEF RenderInv, CallsOK
  <2>4. call' = call
    BY <1>4 DEF RepairRender
  <2>. HIDE DEF Fresh
  <2>. QED
    BY <2>1, <2>2, <2>3, <2>4 DEF PollsOK, TypeOK
<1>5. ASSUME NEW w \in Workers, NEW r \in Renders, HookBegins(w, r) \/ HookEnds(w, r) PROVE PollsOK'
  <2>1. \A v \in Workers : call'[v].op = "poll" => call'[v] = call[v]
    BY <1>5, WorkJobs
  <2>. QED
    BY <1>5, <2>1, WorkJobs DEF PollsOK
<1>6. ASSUME NEW w \in Workers, NEW r \in Renders, PollBegins(w, r) PROVE PollsOK'
  <2>1. UNCHANGED <<job, editor>> /\ poll[r] = "open" /\ poll' \in {poll, [poll EXCEPT ![r] = "done"]}
    BY <1>6, WorkJobs
  <2>. QED
    <3>1. \A v \in Workers : call'[v].op = "poll" => call'[v] = call[v] \/ (v = w /\ call'[v].of = r)
      BY <1>6, WorkJobs
    <3>2. \A v \in Workers : call[v].op = "poll" => call[v].of \in Renders
      BY RecordedAreRenders DEF RenderInv, CallsOK
    <3>3. \A s \in Renders : poll'[s] = "absent" <=> poll[s] = "absent"
      BY <2>1 DEF TypeOK
    <3>. QED
      BY <2>1, <3>1, <3>2, <3>3 DEF PollsOK
<1>7. ASSUME NEW w \in Workers, NEW r \in Renders, PollEnds(w, r) PROVE PollsOK'
  <2>1. PICK x \in Job \ {"absent"} : UNCHANGED <<job, editor>> /\ poll' = [poll EXCEPT ![r] = x]
    BY <1>7, WorkJobs DEF Retried, Job
  <2>2. poll[r] # "absent" /\ x # "absent"
    <3>1. call[w].op = "poll" /\ call[w].of = r
      BY <1>7 DEF PollEnds
    <3>2. poll[r] # "absent"
      BY <3>1 DEF PollsOK
    <3>3. x # "absent"
      BY <2>1
    <3>. QED
      BY <3>2, <3>3
  <2>3. \A v \in Workers : call'[v].op = "poll" => call'[v] = call[v]
    BY <1>7, WorkJobs
  <2>4. \A s \in Renders : poll'[s] = "absent" <=> poll[s] = "absent"
    BY <2>1, <2>2 DEF TypeOK
  <2>5. \A v \in Workers : call[v].op = "poll" => call[v].of \in Renders
    BY RecordedAreRenders DEF RenderInv, CallsOK
  <2>. QED
    BY <2>1, <2>3, <2>4, <2>5 DEF PollsOK
<1>8. CASE \E w \in Workers : Crash(w)
  BY <1>8 DEF Crash, Hangup, NoCall, PollsOK, jobs, TypeOK
<1>. QED
  BY StepKinds, <1>1, <1>2, <1>3, <1>4, <1>5, <1>6, <1>7, <1>8


LEMMA PollsHold == Spec => []PollsOK
<1>1. Init => PollsOK
  BY DEF Init, NoCall, PollsOK
<1>2. TypeOK /\ RenderInv /\ PollsOK /\ [Next]_vars => PollsOK'
  BY PollsStep
<1>. QED
  BY RenderInvHolds, <1>1, <1>2, PTL DEF Spec

\* Who executes the jobs of a render.
Doing(op) == [r \in Renders |-> {w \in Workers : call[w].op = op /\ call[w].of = r}]

LEMMA DoingFacts ==
    ASSUME NEW op, NEW w \in Workers, \A v \in Workers \ {w} : call'[v] = call[v]
    PROVE  /\ call'[w].op # op /\ call[w].op # op => Doing(op)' = Doing(op)
           /\ call'[w].op # op => Doing(op)' = [r \in Renders |-> Doing(op)[r] \ {w}]
           /\ \A r \in Renders :
                /\ call[w].op = op /\ call[w].of = r /\ call'[w].op # op
                      => Doing(op)' = [Doing(op) EXCEPT ![r] = @ \ {w}] /\ w \in Doing(op)[r]
                /\ call[w].op # op /\ call'[w].op = op /\ call'[w].of = r
                      => Doing(op)' = [Doing(op) EXCEPT ![r] = @ \cup {w}]
<1>1. /\ Doing(op) = [r \in Renders |-> Doing(op)[r]]
      /\ Doing(op)' = [r \in Renders |-> Doing(op)'[r]]
  BY DEF Doing
<1>2. ASSUME NEW r \in Renders, NEW v \in Workers
      PROVE  /\ v \in Doing(op)[r] <=> call[v].op = op /\ call[v].of = r
             /\ v \in Doing(op)'[r] <=> call'[v].op = op /\ call'[v].of = r
  BY DEF Doing
<1>3. \A r \in Renders : Doing(op)[r] \subseteq Workers /\ Doing(op)'[r] \subseteq Workers
  BY DEF Doing
<1>4. ASSUME call'[w].op # op
      PROVE  \A r \in Renders : Doing(op)'[r] = Doing(op)[r] \ {w}
  BY <1>2, <1>3, <1>4
<1>5. ASSUME NEW r \in Renders, call[w].op = op, call[w].of = r, call'[w].op # op
      PROVE  /\ Doing(op)' = [Doing(op) EXCEPT ![r] = @ \ {w}] /\ w \in Doing(op)[r]
  <2>1. \A s \in Renders \ {r} : Doing(op)[s] \ {w} = Doing(op)[s]
    BY <1>2, <1>5
  <2>2. \A s \in Renders : Doing(op)'[s] = IF s = r THEN Doing(op)[s] \ {w} ELSE Doing(op)[s]
    BY <1>4, <1>5, <2>1
  <2>3. w \in Doing(op)[r]
    BY <1>2, <1>5
  <2>. QED
    BY <1>1, <2>2, <2>3
<1>6. ASSUME NEW r \in Renders, call[w].op # op, call'[w].op = op, call'[w].of = r
      PROVE  Doing(op)' = [Doing(op) EXCEPT ![r] = @ \cup {w}]
  <2>1. ASSUME NEW s \in Renders \ {r} PROVE Doing(op)'[s] = Doing(op)[s]
    <3>1. ASSUME NEW v \in Workers PROVE v \in Doing(op)'[s] <=> v \in Doing(op)[s]
      <4>1. CASE v = w
        BY <1>2, <1>6, <4>1
      <4>2. CASE v # w
        BY <1>2, <4>2
      <4>. QED
        BY <4>1, <4>2
    <3>. QED
      BY <1>3, <3>1
  <2>2. Doing(op)'[r] = Doing(op)[r] \cup {w}
    <3>1. ASSUME NEW v \in Workers PROVE v \in Doing(op)'[r] <=> v \in Doing(op)[r] \cup {w}
      <4>1. CASE v = w
        BY <1>2, <1>6, <4>1
      <4>2. CASE v # w
        BY <1>2, <4>2
      <4>. QED
        BY <4>1, <4>2
    <3>. QED
      BY <1>3, <3>1
  <2>. QED
    BY <1>1, <2>1, <2>2
<1>7. ASSUME call'[w].op # op, call[w].op # op PROVE Doing(op)' = Doing(op)
  <2>1. \A s \in Renders : Doing(op)[s] \ {w} = Doing(op)[s]
    BY <1>2, <1>7
  <2>. QED
    BY <1>1, <1>4, <1>7, <2>1
<1>8. ASSUME call'[w].op # op PROVE Doing(op)' = [r \in Renders |-> Doing(op)[r] \ {w}]
  BY <1>1, <1>4, <1>8
<1>. QED
  BY <1>5, <1>6, <1>7, <1>8

\* What the six kinds of steps do to one kind of job.
LEMMA HookLost ==
    ASSUME UNCHANGED <<hook, tries>>, NEW w \in Workers,
           \A v \in Workers \ {w} : call'[v] = call[v], call'[w].op # "hook"
    PROVE  HookPromise!Next
<1>1. Doing("hook")' = [r \in Renders |-> Doing("hook")[r] \ {w}]
  BY DoingFacts
<1>2. HookPromise!Lose({w})
  BY <1>1 DEF HookPromise!Lose, Doing
<1>. QED
  BY <1>2 DEF HookPromise!Next

LEMMA PollLost ==
    ASSUME UNCHANGED <<poll, polled>>, NEW w \in Workers,
           \A v \in Workers \ {w} : call'[v] = call[v], call'[w].op # "poll"
    PROVE  PollPromise!Next
<1>1. Doing("poll")' = [r \in Renders |-> Doing("poll")[r] \ {w}]
  BY DoingFacts
<1>2. PollPromise!Lose({w})
  BY <1>1 DEF PollPromise!Lose, Doing
<1>. QED
  BY <1>2 DEF PollPromise!Next

LEMMA CallKept ==
    ASSUME call' = call
    PROVE  \A op : Doing(op)' = Doing(op)
  BY DEF Doing

LEMMA HookPromiseStep ==
    ASSUME TypeOK, RenderInv, PollsOK, [Next]_vars
    PROVE  [HookPromise!Next]_(HookPromise!vars)
<1>. DEFINE Goal == [HookPromise!Next]_(HookPromise!vars)
<1>. USE DEF stored, service, history
<1>0. ASSUME UNCHANGED <<hook, tries, call>> PROVE Goal
  BY <1>0, CallKept DEF HookPromise!vars
<1>1. CASE Others
  BY <1>0, <1>1, OthersJobs
<1>2. CASE EditorParks
  BY <1>0, <1>2 DEF EditorParks
<1>3. ASSUME NEW r \in Renders, RemotionWebhook(r) PROVE Goal
  <2>1. call' = call /\ tries' = tries /\ hook' \in {hook, [hook EXCEPT ![r] = IF @ = "absent" THEN "open" ELSE @]}
    BY <1>3 DEF RemotionWebhook, CallbackQueued, CallbackHandled
  <2>2. CASE hook' = hook
    BY <1>0, <2>1, <2>2
  <2>3. CASE hook' # hook
    <3>1. hook[r] = "absent" /\ hook' = [hook EXCEPT ![r] = "open"]
      BY <2>1, <2>3 DEF TypeOK
    <3>2. Doing("hook")' = Doing("hook")
      BY <2>1, CallKept
    <3>3. HookPromise!Submit(r)
      BY <2>1, <3>1, <3>2 DEF HookPromise!Submit, Doing
    <3>. QED
      BY <3>3 DEF HookPromise!Next
  <2>. QED
    BY <2>2, <2>3
<1>4. ASSUME NEW b \in BOOLEAN, RepairRender(b) PROVE Goal
  BY <1>0, <1>4 DEF RepairRender
<1>5. ASSUME NEW w \in Workers, NEW r \in Renders, HookBegins(w, r) PROVE Goal
  <2>1. /\ call[w].op = "none" /\ hook[r] = "open" /\ tries' = [tries EXCEPT ![r] = @ + 1]
        /\ \A v \in Workers \ {w} : call'[v] = call[v]
    BY <1>5, WorkJobs
  <2>2. HookPromise!Free(w)
    BY <2>1 DEF HookPromise!Free
  <2>3. CASE hook' = hook /\ call'[w].op = "hook" /\ call'[w].of = r
    <3>1. Doing("hook")' = [Doing("hook") EXCEPT ![r] = @ \cup {w}]
      BY <2>1, <2>3, DoingFacts
    <3>2. HookPromise!Start(r, w)
      BY <2>1, <2>2, <2>3, <3>1 DEF HookPromise!Start, Doing
    <3>. QED
      BY <3>2 DEF HookPromise!Next
  <2>4. CASE hook' = [hook EXCEPT ![r] = "done"] /\ call' = call
    <3>1. Doing("hook")' = Doing("hook")
      BY <2>4, CallKept
    <3>2. HookPromise!Attempt(r, w, "done")
      BY <2>1, <2>2, <2>4, <3>1 DEF HookPromise!Attempt, Doing
    <3>. QED
      BY <3>2 DEF HookPromise!Next
  <2>. QED
    BY <1>5, <2>3, <2>4, WorkJobs
<1>6. ASSUME NEW w \in Workers, NEW r \in Renders, HookEnds(w, r) PROVE Goal
  <2>1. /\ tries' = tries /\ call[w].op = "hook" /\ call[w].of = r /\ call'[w].op = "none"
        /\ \A v \in Workers \ {w} : call'[v] = call[v]
        /\ hook' = [hook EXCEPT ![r] = "done"] \/ hook' = Retried(hook, tries, MaxTries, r)
    BY <1>6, WorkJobs
  <2>2. PICK verdict \in {"open", "done", "dead"} :
           hook' = [hook EXCEPT ![r] = verdict] /\ (verdict = "dead" => tries[r] >= MaxTries)
    BY <2>1 DEF Retried
  <2>3. Doing("hook")' = [Doing("hook") EXCEPT ![r] = @ \ {w}] /\ w \in Doing("hook")[r]
    BY <2>1, DoingFacts
  <2>4. HookPromise!End(r, w, verdict)
    BY <2>1, <2>2, <2>3 DEF HookPromise!End, Doing
  <2>. QED
    BY <2>4 DEF HookPromise!Next
<1>7. ASSUME NEW w \in Workers, NEW r \in Renders, PollBegins(w, r) \/ PollEnds(w, r) PROVE Goal
  <2>1. UNCHANGED <<hook, tries>> /\ call[w].op # "hook" /\ call'[w].op # "hook"
        /\ \A v \in Workers \ {w} : call'[v] = call[v]
    BY <1>7, WorkJobs
  <2>2. Doing("hook")' = Doing("hook")
    BY <2>1, DoingFacts
  <2>. QED
    BY <2>1, <2>2 DEF HookPromise!vars, Doing
<1>8. ASSUME NEW w \in Workers, Crash(w) PROVE Goal
  <2>1. /\ UNCHANGED <<hook, tries>> /\ call'[w].op # "hook"
        /\ \A v \in Workers \ {w} : call'[v] = call[v]
    BY <1>8 DEF Crash, Hangup, NoCall, jobs, TypeOK
  <2>. QED
    BY <2>1, HookLost
<1>. QED
  BY StepKinds, <1>1, <1>2, <1>3, <1>4, <1>5, <1>6, <1>7, <1>8

LEMMA PollPromiseStep ==
    ASSUME TypeOK, RenderInv, PollsOK, [Next]_vars
    PROVE  [PollPromise!Next]_(PollPromise!vars)
<1>. DEFINE Goal == [PollPromise!Next]_(PollPromise!vars)
<1>. USE DEF stored, service, history
<1>0. ASSUME UNCHANGED <<poll, polled, call>> PROVE Goal
  BY <1>0, CallKept DEF PollPromise!vars
<1>1. CASE Others
  BY <1>0, <1>1, OthersJobs
<1>2. ASSUME NEW r \in Renders, poll[r] = "absent", UNCHANGED <<polled, call>>,
             poll' \in {poll, [poll EXCEPT ![r] = "open"]}
      PROVE  Goal
  <2>1. CASE poll' = poll
    BY <1>0, <1>2, <2>1
  <2>2. CASE poll' = [poll EXCEPT ![r] = "open"]
    <3>1. Doing("poll")' = Doing("poll")
      BY <1>2, CallKept
    <3>2. PollPromise!Submit(r)
      BY <1>2, <2>2, <3>1 DEF PollPromise!Submit, Doing
    <3>. QED
      BY <3>2 DEF PollPromise!Next
  <2>. QED
    BY <1>2, <2>1, <2>2
<1>3. CASE EditorParks
  <2>1. editor.render \in Renders /\ poll[editor.render] = "absent"
    BY <1>3 DEF EditorParks, PollsOK
  <2>2. UNCHANGED <<polled, call>> /\ poll' \in {poll, [poll EXCEPT ![editor.render] = "open"]}
    BY <1>3 DEF EditorParks, Polling
  <2>. QED
    BY <1>2, <2>1, <2>2
<1>4. ASSUME NEW r \in Renders, RemotionWebhook(r) PROVE Goal
  BY <1>0, <1>4 DEF RemotionWebhook
<1>5. ASSUME NEW b \in BOOLEAN, RepairRender(b) PROVE Goal
  <2>1. Fresh \in Renders /\ job[Fresh] = "none"
    BY <1>5, FreshIsFree DEF RepairRender, Resubmits, Submit
  <2>2. UNCHANGED <<polled, call>> /\ poll' \in {poll, [poll EXCEPT ![Fresh] = "open"]}
    BY <1>5 DEF RepairRender, Polling
  <2>. HIDE DEF Fresh
  <2>3. poll[Fresh] = "absent"
    BY <2>1 DEF PollsOK
  <2>. QED
    BY <1>2, <2>1, <2>2, <2>3
<1>6. ASSUME NEW w \in Workers, NEW r \in Renders, HookBegins(w, r) \/ HookEnds(w, r) PROVE Goal
  <2>1. UNCHANGED <<poll, polled>> /\ call[w].op # "poll" /\ call'[w].op # "poll"
        /\ \A v \in Workers \ {w} : call'[v] = call[v]
    BY <1>6, WorkJobs
  <2>2. Doing("poll")' = Doing("poll")
    BY <2>1, DoingFacts
  <2>. QED
    BY <2>1, <2>2 DEF PollPromise!vars, Doing
<1>7. ASSUME NEW w \in Workers, NEW r \in Renders, PollBegins(w, r) PROVE Goal
  <2>1. /\ call[w].op = "none" /\ poll[r] = "open" /\ polled' = [polled EXCEPT ![r] = @ + 1]
        /\ \A v \in Workers \ {w} : call'[v] = call[v]
    BY <1>7, WorkJobs
  <2>2. PollPromise!Free(w)
    BY <2>1 DEF PollPromise!Free
  <2>3. CASE poll' = poll /\ call'[w].op = "poll" /\ call'[w].of = r
    <3>1. Doing("poll")' = [Doing("poll") EXCEPT ![r] = @ \cup {w}]
      BY <2>1, <2>3, DoingFacts
    <3>2. PollPromise!Start(r, w)
      BY <2>1, <2>2, <2>3, <3>1 DEF PollPromise!Start, Doing
    <3>. QED
      BY <3>2 DEF PollPromise!Next
  <2>4. CASE poll' = [poll EXCEPT ![r] = "done"] /\ call' = call
    <3>1. Doing("poll")' = Doing("poll")
      BY <2>4, CallKept
    <3>2. PollPromise!Attempt(r, w, "done")
      BY <2>1, <2>2, <2>4, <3>1 DEF PollPromise!Attempt, Doing
    <3>. QED
      BY <3>2 DEF PollPromise!Next
  <2>. QED
    BY <1>7, <2>3, <2>4, WorkJobs
<1>8. ASSUME NEW w \in Workers, NEW r \in Renders, PollEnds(w, r) PROVE Goal
  <2>1. /\ polled' = polled /\ call[w].op = "poll" /\ call[w].of = r /\ call'[w].op = "none"
        /\ \A v \in Workers \ {w} : call'[v] = call[v]
        /\ poll' = [poll EXCEPT ![r] = "done"] \/ poll' = Retried(poll, polled, MaxPolls, r)
    BY <1>8, WorkJobs
  <2>2. PICK verdict \in {"open", "done", "dead"} :
           poll' = [poll EXCEPT ![r] = verdict] /\ (verdict = "dead" => polled[r] >= MaxPolls)
    BY <2>1 DEF Retried
  <2>3. Doing("poll")' = [Doing("poll") EXCEPT ![r] = @ \ {w}] /\ w \in Doing("poll")[r]
    BY <2>1, DoingFacts
  <2>4. PollPromise!End(r, w, verdict)
    BY <2>1, <2>2, <2>3 DEF PollPromise!End, Doing
  <2>. QED
    BY <2>4 DEF PollPromise!Next
<1>9. ASSUME NEW w \in Workers, Crash(w) PROVE Goal
  <2>1. /\ UNCHANGED <<poll, polled>> /\ call'[w].op # "poll"
        /\ \A v \in Workers \ {w} : call'[v] = call[v]
    BY <1>9 DEF Crash, Hangup, NoCall, jobs, TypeOK
  <2>. QED
    BY <2>1, PollLost
<1>. QED
  BY StepKinds, <1>1, <1>3, <1>4, <1>5, <1>6, <1>7, <1>8, <1>9

\* webhook.remotion and remotion.poll rely on no more than the queue promises, and an
\* operator's repair submits its poll once: no step takes up, settles or gives up a job
\* except as the queue allows.
THEOREM JobsKeepPromise == Spec => PromiseRelied
<1>1. Init => HookPromise!Init
  BY DEF Init, NoCall, HookPromise!Init
<1>2. Init => PollPromise!Init
  BY DEF Init, NoCall, PollPromise!Init
<1>3. TypeOK /\ RenderInv /\ PollsOK /\ [Next]_vars => [HookPromise!Next]_(HookPromise!vars)
  BY HookPromiseStep
<1>4. TypeOK /\ RenderInv /\ PollsOK /\ [Next]_vars => [PollPromise!Next]_(PollPromise!vars)
  BY PollPromiseStep
<1>. QED
  BY RenderInvHolds, PollsHold, <1>1, <1>2, <1>3, <1>4, PTL
   DEF Spec, PromiseRelied, HookPromise!Spec, PollPromise!Spec

-----------------------------------------------------------------------------
(* A run that waits for its render, before an operator acts.               *)

\* What a poll has found stored is stored.
KnownOK == \A w \in Workers : call[w].known => rendered # <<>>

\* Nobody has answered the wait, and the poll to come is that of the render recorded last.
UntouchedOK ==
    actions = 0 =>
        /\ operator = 0 /\ ~strayed
        /\ thread \in {"editing", "waiting"} =>
              status \in {"awaiting_render", "failed"} /\ resume.state # "done"
        /\ editor.pc = "stored" => outputs # <<>> /\ Last(outputs) = editor.render

WorkedInv == KnownOK /\ UntouchedOK /\ WaitIsWorkedOn

LEMMA KnownStep ==
    ASSUME TypeOK, RenderInv, KnownOK, [Next]_vars
    PROVE  KnownOK'
<1>. USE DEF stored, service, history, jobs
<1>t. call \in [Workers -> Call] /\ rendered \in Seq(Renders)
  BY DEF TypeOK
<1>0. ASSUME call' = call, rendered' = rendered PROVE KnownOK'
  BY <1>0 DEF KnownOK
<1>1. CASE Others
  <2>1. call' = call
    BY <1>1, OthersJobs
  <2>2. rendered' = rendered
    <3>. USE <1>1 DEF thr, bounds
    <3>1. CASE EditorSubmits \/ EditorStores \/ EditorFails \/ EditorDies
      BY <3>1 DEF EditorSubmits, EditorStores, EditorFails, EditorDies
    <3>2. CASE ServiceForgets \/ \E r \in Renders : RenderStarts(r) \/ RenderEnds(r)
      BY <3>2 DEF ServiceForgets, RenderStarts, RenderEnds
    <3>3. CASE ResumeRender \/ \E r \in Renders : CallbackLost(r) \/ BackgroundResume(r)
      BY <3>3 DEF ResumeRender, CallbackLost, BackgroundResume
    <3>4. CASE OperatorReads \/ OperatorResumes \/ \E b \in BOOLEAN : Decide(b)
      BY <3>4 DEF OperatorReads, OperatorResumes, Decide
    <3>5. CASE ForkFromClips \/ LaterFails \/ UNCHANGED vars
      BY <3>5 DEF ForkFromClips, LaterFails, vars
    <3>. QED
      BY <3>1, <3>2, <3>3, <3>4, <3>5 DEF Others
  <2>. QED
    BY <1>0, <2>1, <2>2
<1>2. CASE EditorParks
  BY <1>0, <1>2 DEF EditorParks
<1>3. ASSUME NEW b \in BOOLEAN, RepairRender(b) PROVE KnownOK'
  BY <1>0, <1>3 DEF RepairRender
<1>4. ASSUME NEW r \in Renders, RemotionWebhook(r) PROVE KnownOK'
  <2>1. call' = call /\ rendered' \in {rendered, Append(rendered, r)}
    BY <1>4 DEF RemotionWebhook, CallbackQueued, CallbackHandled
  <2>2. Append(rendered, r) # <<>>
    BY <1>t, AppendedRange
  <2>. QED
    BY <2>1, <2>2 DEF KnownOK
<1>5. ASSUME NEW w \in Workers, NEW r \in Renders, HookBegins(w, r) \/ PollBegins(w, r) PROVE KnownOK'
  <2>1. rendered' = rendered
    BY <1>5 DEF HookBegins, PollBegins
  <2>2. \A v \in Workers : call'[v] # call[v] => call'[v].known = (call'[v].render \in Videos)
    BY <1>t, <1>5 DEF HookBegins, PollBegins
  <2>3. Videos # {} => rendered # <<>>
    BY DEF Videos, Range
  <2>. QED
    BY <2>1, <2>2, <2>3 DEF KnownOK
<1>6. ASSUME NEW w \in Workers, NEW r \in Renders, HookEnds(w, r) \/ PollEnds(w, r) PROVE KnownOK'
  <2>1. \A v \in Workers : call'[v] = call[v] \/ ~call'[v].known
    BY <1>t, <1>6 DEF HookEnds, PollEnds, Hangup, NoCall
  <2>2. rendered' = rendered \/ \E s \in {r, call[w].render} : Stores(s)
    BY <1>6 DEF HookEnds, PollEnds
  <2>3. rendered # <<>> => rendered' # <<>>
    <3>1. ASSUME NEW s \in {r, call[w].render}, Stores(s) PROVE rendered' # <<>>
      <4>1. s \in Renders
        BY <1>6, RecordedAreRenders, WorkJobs DEF RenderInv, CallsOK
      <4>. QED
        BY <1>t, <3>1, <4>1, AppendedRange DEF Stores
    <3>. QED
      BY <2>2, <3>1
  <2>. QED
    BY <2>1, <2>3 DEF KnownOK
<1>7. ASSUME NEW w \in Workers, Crash(w) PROVE KnownOK'
  BY <1>t, <1>7 DEF Crash, Hangup, NoCall, KnownOK
<1>. QED
  BY StepKinds, <1>1, <1>2, <1>3, <1>4, <1>5, <1>6, <1>7

LEMMA WorkedStep ==
    ASSUME TypeOK, RenderInv, PollsOK, WorkedInv, [Next]_vars
    PROVE  UntouchedOK' /\ WaitIsWorkedOn'
<1>. USE DEF stored, service, history, bounds, UntouchedOK, WaitIsWorkedOn
<1>0. actions \in Nat /\ (stray => strayed) /\ (editor.pc # "idle" => thread = "editing")
  BY DEF TypeOK, RenderInv, WaitOK, EditorOK
<1>i. UntouchedOK /\ WaitIsWorkedOn
  BY DEF WorkedInv
<1>1. CASE EditorSubmits \/ EditorFails \/ EditorDies
  BY <1>0, <1>i, <1>1 DEF EditorSubmits, EditorFails, EditorDies, thr, jobs
<1>2. CASE EditorStores
  <2>1. editor.pc = "submitted" /\ editor.render \in Renders /\ outputs \in Seq(Renders)
        /\ editor'.render = editor.render
    BY <1>2 DEF EditorStores, TypeOK, RenderInv, EditorOK
  <2>2. Append(outputs, editor.render) # <<>>
    BY <2>1, AppendedRange
  <2>3. Last(Append(outputs, editor.render)) = editor.render
    BY <2>1 DEF Last
  <2>4. /\ outputs' = Append(outputs, editor.render) /\ thread' = thread /\ resume' = resume
        /\ status' = "awaiting_render" /\ UNCHANGED <<actions, operator, strayed>>
    BY <1>2 DEF EditorStores, thr, jobs
  <2>. QED
    BY <1>0, <1>i, <2>1, <2>2, <2>3, <2>4
<1>3. CASE EditorParks
  <2>1. editor.pc = "stored" /\ editor.render \in Renders
    BY <1>3 DEF EditorParks, PollsOK
  <2>2. dispatcher = "db" => poll'[editor.render] = "open"
    BY <1>3, <2>1 DEF EditorParks, Polling, TypeOK
  <2>. QED
    BY <1>0, <1>i, <1>3, <2>1, <2>2 DEF EditorParks
<1>4. CASE \/ ServiceForgets \/ LaterFails \/ UNCHANGED vars
           \/ \E r \in Renders : RenderStarts(r) \/ RenderEnds(r) \/ CallbackLost(r)
  BY <1>i, <1>4 DEF ServiceForgets, LaterFails, RenderStarts, RenderEnds, CallbackLost, vars, thr, jobs
<1>5. ASSUME NEW r \in Renders, RemotionWebhook(r) PROVE UntouchedOK' /\ WaitIsWorkedOn'
  BY <1>i, <1>5 DEF RemotionWebhook, CallbackQueued, CallbackHandled, thr
<1>6. ASSUME NEW r \in Renders, BackgroundResume(r) PROVE UntouchedOK' /\ WaitIsWorkedOn'
  <2>1. /\ UNCHANGED <<dispatcher, editor, outputs, poll, resume, operator, strayed, actions>>
        /\ \/ thread' = "gate"
           \/ thread' = thread /\ status' \in {status, "failed"}
    BY <1>6 DEF BackgroundResume, AnswersWait, TakesVideo, DropsAnswer, Raises, thr
  <2>. QED
    BY <1>i, <2>1
<1>7. CASE ResumeRender
  <2>1. /\ UNCHANGED <<dispatcher, editor, outputs, poll, operator, strayed, actions>>
        /\ \/ thread' = "gate"
           \/ Raises
           \/ thread' = thread /\ status' = status /\ thread \notin {"editing", "waiting"}
           \/ thread' = thread /\ status' = status /\ thread # "waiting" /\ resume'.state \in {"open", "dead"}
    BY <1>7 DEF ResumeRender, AnswersWait, TakesVideo, DropsAnswer, PastWait, thr, TypeOK
  <2>. QED
    BY <1>0, <1>i, <2>1 DEF Raises
<1>8. CASE OperatorReads \/ OperatorResumes \/ ForkFromClips \/ \E b \in BOOLEAN : Decide(b) \/ RepairRender(b)
  <2>1. actions > 0 \/ actions' = actions + 1
    <3>1. CASE OperatorReads \/ ForkFromClips \/ \E b \in BOOLEAN : Decide(b) \/ RepairRender(b)
      BY <3>1 DEF OperatorReads, ForkFromClips, Decide, RepairRender, Act
    <3>2. CASE OperatorResumes
      BY <1>0, <1>i, <3>2 DEF OperatorResumes
    <3>. QED
      BY <1>8, <3>1, <3>2
  <2>2. actions' = actions \/ actions' = actions + 1
    BY <1>8 DEF OperatorReads, OperatorResumes, ForkFromClips, Decide, RepairRender, Act
  <2>3. actions' # 0
    BY <1>0, <2>1, <2>2
  <2>. QED
    BY <2>3
<1>9. ASSUME NEW w \in Workers, Crash(w) PROVE UntouchedOK' /\ WaitIsWorkedOn'
  BY <1>i, <1>9 DEF Crash, thr, jobs
<1>10. ASSUME NEW w \in Workers, NEW r \in Renders, HookBegins(w, r) PROVE UntouchedOK' /\ WaitIsWorkedOn'
  BY <1>i, <1>10 DEF HookBegins, thr
<1>11. ASSUME NEW w \in Workers, NEW r \in Renders, HookEnds(w, r) PROVE UntouchedOK' /\ WaitIsWorkedOn'
  <2>1. resume' = resume \/ resume'.state = "open"
    BY <1>11 DEF HookEnds, Stores, CommitFails
  <2>. QED
    BY <1>i, <1>11, <2>1 DEF HookEnds, thr
<1>12. ASSUME NEW w \in Workers, NEW r \in Renders, PollBegins(w, r) PROVE UntouchedOK' /\ WaitIsWorkedOn'
  <2>1. /\ UNCHANGED <<dispatcher, status, thread, editor, outputs, resume, operator, strayed, actions>>
        /\ poll' = poll \/ status # "awaiting_render"
    BY <1>12 DEF PollBegins, thr
  <2>. QED
    BY <1>i, <2>1
<1>13. ASSUME NEW w \in Workers, NEW r \in Renders, PollEnds(w, r) PROVE UntouchedOK' /\ WaitIsWorkedOn'
  <2>1. UNCHANGED <<dispatcher, thread, editor, outputs, operator, strayed, actions>>
    BY <1>13 DEF PollEnds, thr
  <2>2. \/ status' = status /\ resume' = resume /\ call[w].known
        \/ status' = status /\ resume'.state = "open"
        \/ status' = "failed" /\ resume' = resume
        \/ status' = status /\ resume' = resume /\ poll' = PollAgain(r)
    BY <1>13 DEF PollEnds, Stores, CommitFails
  <2>3. CASE status' = status /\ resume' = resume /\ call[w].known
    <3>1. dispatcher = "db" => resume.state # "absent"
      BY <2>3 DEF WorkedInv, KnownOK, RenderInv, OnePath
    <3>2. resume.state \in Job
      BY DEF TypeOK
    <3>. QED
      BY <1>i, <2>1, <2>3, <3>1, <3>2 DEF Job
  <2>4. CASE status' = status /\ resume' = resume /\ poll' = PollAgain(r)
    <3>1. \A s \in Renders : poll'[s] = poll[s] \/ poll'[s] \in {"open", "dead"}
      BY <2>4 DEF PollAgain, Retried, TypeOK
    <3>2. outputs # <<>> => Last(outputs) \in Renders
      BY LastBelongs DEF TypeOK
    <3>. QED
      BY <1>i, <2>1, <2>4, <3>1, <3>2
  <2>5. CASE \/ status' = status /\ resume'.state = "open"
             \/ status' = "failed" /\ resume' = resume
    BY <1>i, <2>1, <2>5
  <2>. QED
    BY <2>2, <2>3, <2>4, <2>5
<1>. QED
  BY StepKinds, <1>1, <1>2, <1>3, <1>4, <1>5, <1>6, <1>7, <1>8, <1>9, <1>10, <1>11, <1>12, <1>13 DEF Others

\* Until an operator acts, no poll or resume job settles itself and leaves a run waiting
\* for a callback that nobody sends again, whatever crashes, fails or is forgotten.
THEOREM WaitingRunsAreWorkedOn == Spec => []WaitIsWorkedOn
<1>1. Init => WorkedInv
  BY DEF Init, NoCall, WorkedInv, KnownOK, UntouchedOK, WaitIsWorkedOn
<1>2. TypeOK /\ RenderInv /\ PollsOK /\ WorkedInv /\ [Next]_vars => WorkedInv'
  BY KnownStep, WorkedStep DEF WorkedInv
<1>3. WorkedInv => WaitIsWorkedOn
  BY DEF WorkedInv
<1>. QED
  BY RenderInvHolds, PollsHold, <1>1, <1>2, <1>3, PTL DEF Spec

=============================================================================
