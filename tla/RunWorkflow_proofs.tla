-------------------------- MODULE RunWorkflow_proofs --------------------------
(***************************************************************************)
(* What module RunWorkflow states, for any number of callers, decisions,   *)
(* attempts, faults, API calls and provider failures.                      *)
(***************************************************************************)
EXTENDS RunWorkflow, TLAPS

-----------------------------------------------------------------------------
(* Steps.                                                                  *)

\* The actions, one by one: the proof that a step preserves an invariant has
\* a case for each.
LEMMA NextCases ==
    ASSUME Next
    PROVE  \/ \E c \in Callers, j \in JobNames : TakeJob(c, j)
           \/ \E c \in Callers : CheckExecute(c)
           \/ \E c \in Callers : StartGraph(c)
           \/ \E c \in Callers : CheckGate(c)
           \/ \E c \in Callers : FindGate(c)
           \/ \E c \in Callers : FindWait(c)
           \/ \E c \in Callers : CheckPoll(c)
           \/ \E c \in Callers : PollEnds(c)
           \/ \E c \in Callers : Resume(c)
           \/ \E c \in Callers : Advance(c)
           \/ \E c \in Callers : Ideation(c)
           \/ \E c \in Callers : ProductionTurn(c)
           \/ \E c \in Callers : ProductionRefused(c)
           \/ \E c \in Callers : ProductionEnds(c)
           \/ \E c \in Callers : EditingTurn(c)
           \/ \E c \in Callers : EditingEnds(c)
           \/ \E c \in Callers : PublishingTurn(c)
           \/ \E c \in Callers : PublishingPolls(c)
           \/ \E c \in Callers : PublishingEnds(c)
           \/ \E c \in Callers : Return(c)
           \/ \E c \in Callers : ReturnError(c)
           \/ \E c \in Callers : Crash(c)
           \/ \E c \in Callers, o \in ApiOps : ApiCall(c, o)
           \/ \E j \in Decisions : RequestGate(j)
           \/ ClipsArrive
           \/ RenderArrives
           \/ RunFails
  BY DEF Next, Take, Step

-----------------------------------------------------------------------------
(* Types.                                                                  *)

Pc       == {"idle", "begun", "checked", "found", "node", "acted", "polling",
             "concluded", "returned", "raised"}
CallsOK  == call \in [Callers -> Call]
JobsOK   == /\ jobs \in [JobNames -> {"absent", "open", "done", "dead"}]
            /\ tries \in [JobNames -> Nat]
RowOK    == status \in RunStatus /\ ideas \in BOOLEAN /\ clipsIn \in BOOLEAN /\ published \in BOOLEAN
CountsOK == /\ submissions \in Nat /\ renders \in Nat /\ uploads \in Nat
            /\ approvals \in SUBSET Gates /\ raced \in BOOLEAN
            /\ faults \in Nat /\ apiCalls \in Nat /\ failures \in Nat

LEMMA TypeParts == TypeOK <=> CallsOK /\ cp \in Checkpoint /\ JobsOK /\ RowOK /\ CountsOK
  BY DEF TypeOK, CallsOK, JobsOK, RowOK, CountsOK

\* How the actions write the record of a call.

LEMMA NoCallType == NoCall \in Call
  BY DEF NoCall, Call, InitialValues, Values, RunStatus, Terminal, Steps, Nodes

LEMMA HangupType ==
    ASSUME CallsOK, NEW c \in Callers, Hangup(c)
    PROVE  CallsOK'
  BY NoCallType DEF Hangup, CallsOK

LEMMA SetPc ==
    ASSUME CallsOK, NEW c \in Callers, NEW p \in Pc, call' = [call EXCEPT ![c].pc = p]
    PROVE  CallsOK'
  BY DEF CallsOK, Call, Pc

LEMMA SetId ==
    ASSUME CallsOK, NEW c \in Callers, NEW p \in Pc, NEW i \in Nat,
           call' = [call EXCEPT ![c].pc = p, ![c].id = i]
    PROVE  CallsOK'
<1>1. [call[c] EXCEPT !.pc = p, !.id = i] \in Call
  BY DEF CallsOK, Call, Pc
<1>2. call' = [call EXCEPT ![c] = [call[c] EXCEPT !.pc = p, !.id = i]]
  BY DEF CallsOK
<1>. QED
  BY <1>1, <1>2 DEF CallsOK

LEMMA SetUsed ==
    ASSUME CallsOK, NEW c \in Callers, NEW p \in Pc, NEW u \in BOOLEAN,
           call' = [call EXCEPT ![c].pc = p, ![c].used = u]
    PROVE  CallsOK'
<1>1. [call[c] EXCEPT !.pc = p, !.used = u] \in Call
  BY DEF CallsOK, Call, Pc
<1>2. call' = [call EXCEPT ![c] = [call[c] EXCEPT !.pc = p, !.used = u]]
  BY DEF CallsOK
<1>. QED
  BY <1>1, <1>2 DEF CallsOK

LEMMA SetValues ==
    ASSUME CallsOK, NEW c \in Callers, NEW p \in Pc, NEW v \in Values,
           call' = [call EXCEPT ![c].pc = p, ![c].values = v]
    PROVE  CallsOK'
<1>1. [call[c] EXCEPT !.pc = p, !.values = v] \in Call
  BY DEF CallsOK, Call, Pc
<1>2. call' = [call EXCEPT ![c] = [call[c] EXCEPT !.pc = p, !.values = v]]
  BY DEF CallsOK
<1>. QED
  BY <1>1, <1>2 DEF CallsOK

LEMMA SetNode ==
    ASSUME CallsOK, NEW c \in Callers, NEW p \in Pc, NEW n \in Nodes, NEW v \in Values,
           call' = [call EXCEPT ![c].pc = p, ![c].at = n, ![c].values = v]
    PROVE  CallsOK'
<1>1. [call[c] EXCEPT !.pc = p, !.at = n, !.values = v] \in Call
  BY DEF CallsOK, Call, Pc
<1>2. call' = [call EXCEPT ![c] = [call[c] EXCEPT !.pc = p, !.at = n, !.values = v]]
  BY DEF CallsOK
<1>. QED
  BY <1>1, <1>2 DEF CallsOK

LEMMA SetAll ==
    ASSUME CallsOK, NEW c \in Callers, NEW p \in Pc, NEW n \in Nodes, NEW u \in BOOLEAN, NEW v \in Values,
           call' = [call EXCEPT ![c].pc = p, ![c].at = n, ![c].used = u, ![c].values = v]
    PROVE  CallsOK'
<1>1. [call[c] EXCEPT !.pc = p, !.at = n, !.used = u, !.values = v] \in Call
  BY DEF CallsOK, Call, Pc
<1>2. call' = [call EXCEPT ![c] = [call[c] EXCEPT !.pc = p, !.at = n, !.used = u, !.values = v]]
  BY DEF CallsOK
<1>. QED
  BY <1>1, <1>2 DEF CallsOK

LEMMA ValuesType ==
    ASSUME NEW v \in Values, NEW st \in RunStatus, NEW x \in Steps, NEW b \in BOOLEAN
    PROVE  /\ [v EXCEPT !.status = st] \in Values
           /\ [v EXCEPT !.status = st, !.step = x] \in Values
           /\ [v EXCEPT !.step = x, !.status = st] \in Values
           /\ [v EXCEPT !.ideasOk = b, !.step = x] \in Values
           /\ [v EXCEPT !.ideasOk = b, !.status = st] \in Values
           /\ [v EXCEPT !.publishOk = b, !.step = x] \in Values
           /\ [v EXCEPT !.publishOk = b, !.status = st] \in Values
           /\ [v EXCEPT !.clips = b, !.step = x, !.status = st] \in Values
           /\ [v EXCEPT !.final = b, !.step = x, !.status = st] \in Values
  BY DEF Values

LEMMA ProceedType ==
    ASSUME CallsOK, cp \in Checkpoint,
           NEW c \in Callers, NEW n \in Nodes, NEW v \in Values, Proceed(c, n, v)
    PROVE  CallsOK' /\ cp' \in Checkpoint
<1>1. CallsOK'
  BY SetAll DEF Proceed, Pc
<1>2. cp' \in Checkpoint
  BY DEF Proceed, Checkpoint
<1>. QED
  BY <1>1, <1>2

\* An answer moves the thread on, or leaves it parked where it is.
LEMMA AnswerType ==
    ASSUME CallsOK, cp \in Checkpoint, NEW c \in Callers, Answer(c)
    PROVE  CallsOK' /\ cp' \in Checkpoint
<1>. DEFINE v == cp.values
<1>1. v \in Values
  BY DEF Checkpoint
<1>2. CASE KeepWaiting(c, v)
  <2>1. CallsOK'
    BY <1>1, <1>2, SetValues DEF KeepWaiting, Pc
  <2>2. cp' \in Checkpoint
    BY <1>2 DEF KeepWaiting, Checkpoint
  <2>. QED
    BY <2>1, <2>2
<1>4. CASE call' = [call EXCEPT ![c].pc = "raised"] /\ UNCHANGED cp
  BY <1>4, SetPc DEF Pc
<1>3. CASE \E n \in Nodes, w \in Values : Proceed(c, n, w)
  BY <1>3, ProceedType
<1>. QED
  BY <1>1, <1>2, <1>3, <1>4, ValuesType
   DEF Answer, AnswerIdeation, AnswerPublish, AnswerVideos, AnswerRender, StopWaiting, Nodes,
       WorkNodes, Interrupts, Waits, RunStatus, Terminal, Steps

LEMMA JobDoneType ==
    ASSUME CallsOK, JobsOK, NEW c \in Callers, JobDone(c)
    PROVE  CallsOK' /\ jobs' \in [JobNames -> {"absent", "open", "done", "dead"}]
<1>1. CallsOK'
  BY HangupType DEF JobDone
<1>. QED
  BY <1>1 DEF JobDone, JobsOK

LEMMA JobRetriedType ==
    ASSUME CallsOK, JobsOK, NEW c \in Callers, JobRetried(c)
    PROVE  CallsOK' /\ jobs' \in [JobNames -> {"absent", "open", "done", "dead"}]
<1>1. CallsOK'
  BY HangupType DEF JobRetried
<1>. QED
  BY <1>1 DEF JobRetried, JobsOK

LEMMA EnqueuedType ==
    ASSUME JobsOK, NEW j
    PROVE  Enqueued(j) \in [JobNames -> {"absent", "open", "done", "dead"}]
  BY DEF Enqueued, JobsOK

\* One step keeps every variable in its type.
LEMMA TypeStep ==
    ASSUME TypeOK, [Next]_vars
    PROVE  TypeOK'
<1>1. CallsOK /\ cp \in Checkpoint /\ JobsOK /\ RowOK /\ CountsOK
  BY TypeParts
<1>. USE <1>1 DEF spent, stored, history, bounds
<1>2. ASSUME NEW c \in Callers, NEW j \in JobNames, TakeJob(c, j) PROVE TypeOK'
  <2>1. [NoCall EXCEPT !.op = j, !.pc = "begun"] \in Call
    BY NoCallType DEF Call
  <2>2. CallsOK' /\ cp' \in Checkpoint
    BY <1>2, <2>1 DEF TakeJob, CallsOK
  <2>3. JobsOK'
    BY <1>2 DEF TakeJob, JobsOK
  <2>4. RowOK' /\ CountsOK'
    BY <1>2 DEF TakeJob, RowOK, CountsOK, RunStatus, Terminal
  <2>. QED
    BY <2>2, <2>3, <2>4 DEF TypeOK, CallsOK, JobsOK, RowOK, CountsOK
<1>3. ASSUME NEW c \in Callers, CheckExecute(c) PROVE TypeOK'
  <2>2. CallsOK' /\ cp' \in Checkpoint
    BY <1>3, SetPc, JobDoneType DEF CheckExecute, CheckRow, Pc
  <2>3. JobsOK'
    BY <1>3, JobDoneType DEF CheckExecute, CheckRow, JobsOK
  <2>4. RowOK' /\ CountsOK'
    BY <1>3 DEF CheckExecute, CheckRow, RowOK, CountsOK, RunStatus, Terminal
  <2>. QED
    BY <2>2, <2>3, <2>4 DEF TypeOK, CallsOK, JobsOK, RowOK, CountsOK
<1>4. ASSUME NEW c \in Callers, StartGraph(c) PROVE TypeOK'
  <2>. DEFINE v == [cp.values EXCEPT !.status = "running", !.step = "ideation"]
  <2>1. v \in Values
    BY ValuesType DEF Checkpoint, RunStatus, Steps
  <2>2. CallsOK' /\ cp' \in Checkpoint
    BY <1>4, <2>1, SetNode DEF StartGraph, Checkpoint, Nodes, WorkNodes, Pc
  <2>3. JobsOK'
    BY <1>4 DEF StartGraph, JobsOK
  <2>4. RowOK' /\ CountsOK'
    BY <1>4 DEF StartGraph, Enter, RowOK, CountsOK, RunStatus, Terminal
  <2>. QED
    BY <2>2, <2>3, <2>4 DEF TypeOK, CallsOK, JobsOK, RowOK, CountsOK
<1>5. ASSUME NEW c \in Callers, CheckGate(c) PROVE TypeOK'
  <2>2. CallsOK' /\ cp' \in Checkpoint
    BY <1>5, SetPc, JobDoneType DEF CheckGate, CheckRow, Pc
  <2>3. JobsOK'
    BY <1>5, JobDoneType DEF CheckGate, CheckRow, JobsOK
  <2>4. RowOK' /\ CountsOK'
    BY <1>5 DEF CheckGate, CheckRow, RowOK, CountsOK, RunStatus, Terminal
  <2>. QED
    BY <2>2, <2>3, <2>4 DEF TypeOK, CallsOK, JobsOK, RowOK, CountsOK
<1>6. ASSUME NEW c \in Callers, FindGate(c) PROVE TypeOK'
  <2>2. CallsOK' /\ cp' \in Checkpoint
    BY <1>6, SetId, JobRetriedType DEF FindGate, Checkpoint, Pc
  <2>3. JobsOK'
    BY <1>6, JobRetriedType DEF FindGate, JobsOK
  <2>4. RowOK' /\ CountsOK'
    BY <1>6 DEF FindGate, RowOK, CountsOK, RunStatus, Terminal
  <2>. QED
    BY <2>2, <2>3, <2>4 DEF TypeOK, CallsOK, JobsOK, RowOK, CountsOK
<1>7. ASSUME NEW c \in Callers, FindWait(c) PROVE TypeOK'
  <2>2. CallsOK' /\ cp' \in Checkpoint
    BY <1>7, SetId, JobDoneType, JobRetriedType DEF FindWait, Checkpoint, Pc
  <2>3. JobsOK'
    BY <1>7, JobDoneType, JobRetriedType DEF FindWait, JobsOK
  <2>4. RowOK' /\ CountsOK'
    BY <1>7 DEF FindWait, RowOK, CountsOK, RunStatus, Terminal
  <2>. QED
    BY <2>2, <2>3, <2>4 DEF TypeOK, CallsOK, JobsOK, RowOK, CountsOK
<1>8. ASSUME NEW c \in Callers, CheckPoll(c) PROVE TypeOK'
  <2>2. CallsOK' /\ cp' \in Checkpoint
    BY <1>8, SetPc, JobDoneType DEF CheckPoll, CheckRow, Pc
  <2>3. JobsOK'
    BY <1>8, JobDoneType DEF CheckPoll, CheckRow, JobsOK
  <2>4. RowOK' /\ CountsOK'
    BY <1>8 DEF CheckPoll, CheckRow, RowOK, CountsOK, RunStatus, Terminal
  <2>. QED
    BY <2>2, <2>3, <2>4 DEF TypeOK, CallsOK, JobsOK, RowOK, CountsOK
<1>9. ASSUME NEW c \in Callers, PollEnds(c) PROVE TypeOK'
  <2>2. CallsOK' /\ cp' \in Checkpoint
    BY <1>9, HangupType, JobDoneType DEF PollEnds
  <2>3. JobsOK'
    BY <1>9, JobDoneType DEF PollEnds, JobsOK
  <2>4. RowOK'
    BY <1>9 DEF PollEnds, RowOK, RunStatus, Terminal
  <2>5. CountsOK'
    BY <1>9 DEF PollEnds, CountsOK
  <2>. QED
    BY <2>2, <2>3, <2>4, <2>5 DEF TypeOK, CallsOK, JobsOK, RowOK, CountsOK
<1>10. ASSUME NEW c \in Callers, Resume(c) PROVE TypeOK'
  <2>1. cp.values \in Values /\ cp.next \in Nodes
    BY DEF Checkpoint
  <2>2. CallsOK' /\ cp' \in Checkpoint
    <3>1. CASE Answer(c)
      BY <3>1, AnswerType
    <3>2. CASE /\ UNCHANGED cp
               /\ \E p \in Pc : call' = [call EXCEPT ![c].pc = p, ![c].at = cp.next, ![c].values = cp.values]
      BY <3>2, <2>1, SetNode
    <3>. QED
      BY <1>10, <3>1, <3>2 DEF Resume, Pc
  <2>3. JobsOK'
    BY <1>10 DEF Resume, JobsOK
  <2>4. RowOK' /\ CountsOK'
    BY <1>10 DEF Resume, Enter, RowOK, CountsOK, RunStatus, Terminal
  <2>. QED
    BY <2>2, <2>3, <2>4 DEF TypeOK, CallsOK, JobsOK, RowOK, CountsOK
<1>11. ASSUME NEW c \in Callers, Advance(c) PROVE TypeOK'
  <2>1. call[c].values \in Values /\ Successor(call[c].at) \in Nodes
    BY DEF CallsOK, Call, Successor, Nodes, WorkNodes, Interrupts, Waits
  <2>2. CallsOK' /\ cp' \in Checkpoint
    BY <1>11, <2>1, ProceedType DEF Advance
  <2>3. JobsOK'
    BY <1>11 DEF Advance, JobsOK
  <2>4. RowOK' /\ CountsOK'
    BY <1>11 DEF Advance, RowOK, CountsOK, RunStatus, Terminal
  <2>. QED
    BY <2>2, <2>3, <2>4 DEF TypeOK, CallsOK, JobsOK, RowOK, CountsOK
<1>12. ASSUME NEW c \in Callers, Ideation(c) PROVE TypeOK'
  <2>1. call[c].values \in Values
    BY DEF CallsOK, Call
  <2>2. CallsOK' /\ cp' \in Checkpoint
    BY <1>12, <2>1, ValuesType, SetValues, SetPc
     DEF Ideation, Conclude, Raise, Pc, RunStatus, Terminal, Steps
  <2>3. JobsOK'
    BY <1>12 DEF Ideation, JobsOK
  <2>4. RowOK' /\ CountsOK'
    BY <1>12 DEF Ideation, RowOK, CountsOK, RunStatus, Terminal
  <2>. QED
    BY <2>2, <2>3, <2>4 DEF TypeOK, CallsOK, JobsOK, RowOK, CountsOK
<1>13. ASSUME NEW c \in Callers, ProductionTurn(c) PROVE TypeOK'
  <2>2. CallsOK' /\ cp' \in Checkpoint
    BY <1>13, SetUsed DEF ProductionTurn, Acted, Pc
  <2>3. JobsOK'
    BY <1>13 DEF ProductionTurn, JobsOK
  <2>4. RowOK' /\ CountsOK'
    BY <1>13 DEF ProductionTurn, RowOK, CountsOK, RunStatus, Terminal
  <2>. QED
    BY <2>2, <2>3, <2>4 DEF TypeOK, CallsOK, JobsOK, RowOK, CountsOK
<1>14. ASSUME NEW c \in Callers, ProductionRefused(c) PROVE TypeOK'
  <2>2. CallsOK' /\ cp' \in Checkpoint
    BY <1>14, SetPc DEF ProductionRefused, Raise, Pc
  <2>3. JobsOK'
    BY <1>14 DEF ProductionRefused, JobsOK
  <2>4. RowOK' /\ CountsOK'
    BY <1>14 DEF ProductionRefused, RowOK, CountsOK, RunStatus, Terminal
  <2>. QED
    BY <2>2, <2>3, <2>4 DEF TypeOK, CallsOK, JobsOK, RowOK, CountsOK
<1>15. ASSUME NEW c \in Callers, ProductionEnds(c) PROVE TypeOK'
  <2>1. call[c].values \in Values
    BY DEF CallsOK, Call
  <2>2. CallsOK' /\ cp' \in Checkpoint
    BY <1>15, <2>1, ValuesType, SetValues, SetPc
     DEF ProductionEnds, Conclude, Raise, Pc, RunStatus, Terminal, Steps
  <2>3. JobsOK'
    BY <1>15, EnqueuedType DEF ProductionEnds, JobsOK
  <2>4. RowOK' /\ CountsOK'
    BY <1>15 DEF ProductionEnds, RowOK, CountsOK, RunStatus, Terminal
  <2>. QED
    BY <2>2, <2>3, <2>4 DEF TypeOK, CallsOK, JobsOK, RowOK, CountsOK
<1>16. ASSUME NEW c \in Callers, EditingTurn(c) PROVE TypeOK'
  <2>2. CallsOK' /\ cp' \in Checkpoint
    BY <1>16, SetUsed DEF EditingTurn, Acted, Pc
  <2>3. JobsOK'
    BY <1>16 DEF EditingTurn, JobsOK
  <2>4. RowOK' /\ CountsOK'
    BY <1>16 DEF EditingTurn, RowOK, CountsOK, RunStatus, Terminal
  <2>. QED
    BY <2>2, <2>3, <2>4 DEF TypeOK, CallsOK, JobsOK, RowOK, CountsOK
<1>17. ASSUME NEW c \in Callers, EditingEnds(c) PROVE TypeOK'
  <2>1. call[c].values \in Values
    BY DEF CallsOK, Call
  <2>2. CallsOK' /\ cp' \in Checkpoint
    BY <1>17, <2>1, ValuesType, SetValues, SetPc
     DEF EditingEnds, Conclude, Raise, Pc, RunStatus, Terminal, Steps
  <2>3. JobsOK'
    BY <1>17 DEF EditingEnds, JobsOK
  <2>4. RowOK' /\ CountsOK'
    BY <1>17 DEF EditingEnds, RowOK, CountsOK, RunStatus, Terminal
  <2>. QED
    BY <2>2, <2>3, <2>4 DEF TypeOK, CallsOK, JobsOK, RowOK, CountsOK
<1>18. ASSUME NEW c \in Callers, PublishingTurn(c) PROVE TypeOK'
  <2>2. CallsOK' /\ cp' \in Checkpoint
    BY <1>18, SetUsed DEF PublishingTurn, UploadPost, Upload, Acted, Pc
  <2>3. JobsOK'
    BY <1>18 DEF PublishingTurn, UploadPost, Upload, JobsOK
  <2>4. RowOK' /\ CountsOK'
    BY <1>18 DEF PublishingTurn, UploadPost, Upload, RowOK, CountsOK, RunStatus, Terminal
  <2>. QED
    BY <2>2, <2>3, <2>4 DEF TypeOK, CallsOK, JobsOK, RowOK, CountsOK
<1>19. ASSUME NEW c \in Callers, PublishingPolls(c) PROVE TypeOK'
  <2>2. CallsOK' /\ cp' \in Checkpoint
    BY <1>19, SetPc DEF PublishingPolls, Pc
  <2>3. JobsOK'
    BY <1>19 DEF PublishingPolls, JobsOK
  <2>4. RowOK' /\ CountsOK'
    BY <1>19 DEF PublishingPolls, RowOK, CountsOK, RunStatus, Terminal
  <2>. QED
    BY <2>2, <2>3, <2>4 DEF TypeOK, CallsOK, JobsOK, RowOK, CountsOK
<1>20. ASSUME NEW c \in Callers, PublishingEnds(c) PROVE TypeOK'
  <2>1. call[c].values \in Values
    BY DEF CallsOK, Call
  <2>2. CallsOK' /\ cp' \in Checkpoint
    BY <1>20, <2>1, ValuesType, SetValues
     DEF PublishingEnds, PublishingCompletes, UrlKnown, PublishingFails, PublishingStops, Conclude, Pc, RunStatus, Terminal, Steps
  <2>3. JobsOK'
    BY <1>20 DEF PublishingEnds, PublishingCompletes, UrlKnown, PublishingFails, PublishingStops, JobsOK
  <2>4. RowOK' /\ CountsOK'
    BY <1>20 DEF PublishingEnds, PublishingCompletes, UrlKnown, PublishingFails, PublishingStops, RowOK, CountsOK, RunStatus, Terminal
  <2>. QED
    BY <2>2, <2>3, <2>4 DEF TypeOK, CallsOK, JobsOK, RowOK, CountsOK
<1>21. ASSUME NEW c \in Callers, Return(c) PROVE TypeOK'
  <2>2. CallsOK' /\ cp' \in Checkpoint
    BY <1>21, JobDoneType DEF Return
  <2>3. JobsOK'
    BY <1>21, JobDoneType DEF Return, JobsOK
  <2>4. RowOK' /\ CountsOK'
    BY <1>21 DEF Return, CallsOK, Call, Values, RowOK, CountsOK, RunStatus, Terminal
  <2>. QED
    BY <2>2, <2>3, <2>4 DEF TypeOK, CallsOK, JobsOK, RowOK, CountsOK
<1>22. ASSUME NEW c \in Callers, ReturnError(c) PROVE TypeOK'
  <2>2. CallsOK' /\ cp' \in Checkpoint
    BY <1>22, JobDoneType, JobRetriedType DEF ReturnError
  <2>3. JobsOK'
    BY <1>22, JobDoneType, JobRetriedType DEF ReturnError, JobsOK
  <2>4. RowOK' /\ CountsOK'
    BY <1>22 DEF ReturnError, RowOK, CountsOK, RunStatus, Terminal
  <2>. QED
    BY <2>2, <2>3, <2>4 DEF TypeOK, CallsOK, JobsOK, RowOK, CountsOK
<1>23. ASSUME NEW c \in Callers, Crash(c) PROVE TypeOK'
  <2>2. CallsOK' /\ cp' \in Checkpoint
    BY <1>23, HangupType DEF Crash
  <2>3. JobsOK'
    BY <1>23 DEF Crash, JobsOK
  <2>4. RowOK' /\ CountsOK'
    BY <1>23 DEF Crash, RowOK, CountsOK, RunStatus, Terminal
  <2>. QED
    BY <2>2, <2>3, <2>4 DEF TypeOK, CallsOK, JobsOK, RowOK, CountsOK
<1>24. ASSUME NEW c \in Callers, NEW o \in ApiOps, ApiCall(c, o) PROVE TypeOK'
  <2>1. [NoCall EXCEPT !.op = o, !.pc = "found", !.id = cp.id] \in Call
    BY NoCallType DEF Call, Checkpoint
  <2>2. CallsOK' /\ cp' \in Checkpoint
    BY <1>24, <2>1 DEF ApiCall, CallsOK
  <2>3. JobsOK'
    BY <1>24 DEF ApiCall, JobsOK
  <2>4. RowOK' /\ CountsOK'
    BY <1>24 DEF ApiCall, RowOK, CountsOK, RunStatus, Terminal
  <2>. QED
    BY <2>2, <2>3, <2>4 DEF TypeOK, CallsOK, JobsOK, RowOK, CountsOK
<1>25. ASSUME NEW j \in Decisions, RequestGate(j) PROVE TypeOK'
  <2>2. CallsOK' /\ cp' \in Checkpoint
    BY <1>25 DEF RequestGate, CallsOK
  <2>3. JobsOK'
    BY <1>25, EnqueuedType DEF RequestGate, JobsOK
  <2>4. RowOK' /\ CountsOK'
    BY <1>25 DEF RequestGate, Gates, GateOf, RowOK, CountsOK, RunStatus, Terminal
  <2>. QED
    BY <2>2, <2>3, <2>4 DEF TypeOK, CallsOK, JobsOK, RowOK, CountsOK
<1>26. ASSUME ClipsArrive PROVE TypeOK'
  <2>2. CallsOK' /\ cp' \in Checkpoint
    BY <1>26 DEF ClipsArrive, CallsOK
  <2>3. JobsOK'
    BY <1>26, EnqueuedType DEF ClipsArrive, JobsOK
  <2>4. RowOK' /\ CountsOK'
    BY <1>26 DEF ClipsArrive, RowOK, CountsOK, RunStatus, Terminal
  <2>. QED
    BY <2>2, <2>3, <2>4 DEF TypeOK, CallsOK, JobsOK, RowOK, CountsOK
<1>27. ASSUME RenderArrives PROVE TypeOK'
  <2>2. CallsOK' /\ cp' \in Checkpoint
    BY <1>27 DEF RenderArrives, CallsOK
  <2>3. JobsOK'
    BY <1>27, EnqueuedType DEF RenderArrives, JobsOK
  <2>4. RowOK' /\ CountsOK'
    BY <1>27 DEF RenderArrives, RowOK, CountsOK, RunStatus, Terminal
  <2>. QED
    BY <2>2, <2>3, <2>4 DEF TypeOK, CallsOK, JobsOK, RowOK, CountsOK
<1>28. ASSUME RunFails PROVE TypeOK'
  <2>2. CallsOK' /\ cp' \in Checkpoint
    BY <1>28 DEF RunFails, Stuck, CallsOK
  <2>3. JobsOK'
    BY <1>28 DEF RunFails, Stuck, JobsOK
  <2>4. RowOK' /\ CountsOK'
    BY <1>28 DEF RunFails, Stuck, RowOK, CountsOK, RunStatus, Terminal
  <2>. QED
    BY <2>2, <2>3, <2>4 DEF TypeOK, CallsOK, JobsOK, RowOK, CountsOK
<1>29. CASE UNCHANGED vars
  BY <1>29 DEF vars, TypeOK, CallsOK, JobsOK, RowOK, CountsOK
<1>. QED
  BY NextCases, <1>2, <1>3, <1>4, <1>5, <1>6, <1>7, <1>8, <1>9, <1>10,
     <1>11, <1>12, <1>13, <1>14, <1>15, <1>16, <1>17, <1>18, <1>19, <1>20,
     <1>21, <1>22, <1>23, <1>24, <1>25, <1>26, <1>27, <1>28, <1>29

\* Every variable of a run keeps its type.
THEOREM TypeCorrect == Spec => []TypeOK
<1>1. Init => TypeOK
  <2>. SUFFICES ASSUME Init PROVE TypeOK
    OBVIOUS
  <2>1. CallsOK
    BY NoCallType DEF Init, CallsOK
  <2>2. cp \in Checkpoint
    BY DEF Init, Checkpoint, Nodes, InitialValues, Values, RunStatus, Terminal, Steps
  <2>3. JobsOK
    BY DEF Init, JobsOK
  <2>4. RowOK /\ CountsOK
    BY DEF Init, RowOK, CountsOK, RunStatus
  <2>. QED
    BY <2>1, <2>2, <2>3, <2>4, TypeParts
<1>2. TypeOK /\ [Next]_vars => TypeOK'
  BY TypeStep
<1>. QED
  BY <1>1, <1>2, PTL DEF Spec

-----------------------------------------------------------------------------
(* The HITL gates.                                                         *)

\* The nodes a thread reaches only through an answer to ideation_approval.
Beyond == {"production", "wait_for_videos", "editing", "wait_for_render",
           "publish_approval", "publishing"}

\* Standing at node n with values v has been earned by the approvals so far.
Earned(n, v) ==
    /\ (n \in Beyond \/ v.ideasOk) => "ideation" \in approvals
    /\ v.publishOk => approvals = Gates

\* An approval the caller r is about to give to the interrupt it has found.
Backed(r) ==
    (r.pc = "found" /\ cp.parked /\ cp.id = r.id /\ Approves(r.op)) =>
        \A g \in Gates : cp.next = GateNode(g) => g \in approvals

CallInv(r) ==
    /\ Earned(r.at, r.values)
    /\ r.op \in JobNames => jobs[r.op] # "absent"
    /\ r.pc = "found" => r.id <= cp.id
    /\ Backed(r)

\* An approving job exists only if somebody has approved its gate.
Requested ==
    \A j \in HitlJobs : (Approves(j) /\ jobs[j] # "absent") => GateOf(j) \in approvals

\* The inductive invariant.  The ids matter: an answer looked up for one
\* interrupt must not reach another, which Backed says of the pending one and
\* the order of ids of all later ones.
GateInv ==
    /\ Earned(cp.next, cp.values)
    /\ Requested
    /\ \A c \in Callers : CallInv(call[c])
    /\ NothingUnapproved

\* What most steps do to a call: nothing, its end, or its next point.
Follows(c) ==
    \/ call'[c] = call[c]
    \/ call'[c] = NoCall
    \/ /\ call'[c].pc # "found"
       /\ call'[c].op = call[c].op
       /\ call'[c].at = call[c].at
       /\ call'[c].values.ideasOk = call[c].values.ideasOk
       /\ call'[c].values.publishOk = call[c].values.publishOk

\* A job, once enqueued, exists; decisions are enqueued by RequestGate alone.
JobsFollow ==
    /\ \A j \in JobNames : jobs[j] # "absent" => jobs'[j] # "absent"
    /\ \A j \in HitlJobs : jobs'[j] # "absent" => jobs[j] # "absent"

\* Such steps keep the invariant if they leave the thread and the providers.
LEMMA AsideStep ==
    ASSUME TypeOK, TypeOK', GateInv, UNCHANGED <<cp, approvals>>,
           submissions' > 0 => submissions > 0 \/ "ideation" \in approvals,
           uploads' > 0 => uploads > 0 \/ approvals = Gates,
           JobsFollow, \A c \in Callers : Follows(c)
    PROVE  GateInv'
<1>. USE DEF GateInv
<1>1. Earned(cp.next, cp.values)'
  BY DEF Earned
<1>2. Requested'
  BY DEF Requested, JobsFollow
<1>3. ASSUME NEW c \in Callers PROVE CallInv(call[c])'
  <2>1. CASE call'[c] = call[c]
    BY <2>1 DEF TypeOK, Call, CallInv, Earned, Backed, JobsFollow
  <2>2. CASE call'[c] = NoCall
    BY <2>2 DEF NoCall, InitialValues, CallInv, Earned, Backed, Beyond, JobNames, HitlJobs
  <2>3. CASE call'[c] # call[c] /\ call'[c] # NoCall
    BY <2>3 DEF TypeOK, Call, CallInv, Earned, Backed, JobsFollow, Follows
  <2>. QED
    BY <2>1, <2>2, <2>3
<1>4. NothingUnapproved'
  BY DEF NothingUnapproved
<1>. QED
  BY <1>1, <1>2, <1>3, <1>4

\* A call that goes through the thread, which nobody else sees half done.
LEMMA ThreadStep ==
    ASSUME TypeOK, TypeOK', GateInv, JobsFollow,
           UNCHANGED <<approvals, submissions, uploads>>,
           \/ cp'.next = cp.next /\ cp'.parked = cp.parked /\ cp'.id = cp.id
           \/ ~cp'.parked /\ cp'.id = cp.id
           \/ cp'.id > cp.id,
           Earned(cp.next, cp.values)',
           NEW c \in Callers, CallInv(call[c])',
           \A d \in Callers \ {c} : call'[d] = call[d]
    PROVE  GateInv'
<1>. USE DEF GateInv
<1>1. Requested'
  BY DEF Requested, JobsFollow
<1>2. ASSUME NEW d \in Callers \ {c} PROVE CallInv(call[d])'
  BY <1>2 DEF TypeOK, Call, Checkpoint, CallInv, Earned, Backed, JobsFollow
<1>3. NothingUnapproved'
  BY DEF NothingUnapproved
<1>. QED
  BY <1>1, <1>2, <1>3

LEMMA JobEnds ==
    ASSUME TypeOK, GateInv, NEW c \in Callers, JobDone(c) \/ JobRetried(c)
    PROVE  JobsFollow /\ \A d \in Callers : Follows(d)
<1>1. call' = [call EXCEPT ![c] = NoCall]
  BY DEF JobDone, JobRetried, Hangup
<1>2. PICK x \in {"done", "dead", "open"} :
          jobs' = IF call[c].op \in JobNames THEN [jobs EXCEPT ![call[c].op] = x] ELSE jobs
  BY DEF JobDone, JobRetried
<1>3. call[c].op \in JobNames => jobs[call[c].op] # "absent"
  BY DEF GateInv, CallInv
<1>4. JobsFollow
  BY <1>2, <1>3 DEF JobsFollow, TypeOK, JobNames
<1>. QED
  BY <1>1, <1>4 DEF Follows, TypeOK

LEMMA EnqueuedFollows ==
    ASSUME TypeOK, NEW j \in JobNames \ HitlJobs, jobs' = Enqueued(j)
    PROVE  JobsFollow
  BY DEF TypeOK, Enqueued, JobsFollow, JobNames

\* A call that stays at its node.
LEMMA NodeFollows ==
    ASSUME TypeOK, NEW c \in Callers,
           \/ \E used \in BOOLEAN : Acted(c, used)
           \/ Raise(c)
           \/ \E st \in RunStatus, x \in Steps :
                \/ Conclude(c, [call[c].values EXCEPT !.status = st])
                \/ Conclude(c, [call[c].values EXCEPT !.status = st, !.step = x])
                \/ Conclude(c, [call[c].values EXCEPT !.step = x, !.status = st])
           \/ call' = [call EXCEPT ![c].pc = "polling"]
           \/ call' = [call EXCEPT ![c].pc = "checked"]
    PROVE  \A d \in Callers : Follows(d)
<1>. DEFINE Stays == /\ call'[c].pc # "found"
                     /\ call'[c].op = call[c].op
                     /\ call'[c].at = call[c].at
                     /\ call'[c].values.ideasOk = call[c].values.ideasOk
                     /\ call'[c].values.publishOk = call[c].values.publishOk
<1>1. ASSUME NEW d \in Callers \ {c} PROVE call'[d] = call[d]
  BY DEF TypeOK, Acted, Raise, Conclude
<1>2. ASSUME NEW v, Conclude(c, v),
             v.ideasOk = call[c].values.ideasOk, v.publishOk = call[c].values.publishOk
      PROVE  Stays
  <2>1. call' = [call EXCEPT ![c] = [call[c] EXCEPT !.pc = "concluded", !.values = v]]
    BY <1>2 DEF TypeOK, Conclude
  <2>2. call'[c] = [call[c] EXCEPT !.pc = "concluded", !.values = v] /\ call[c] \in Call
    BY <2>1 DEF TypeOK
  <2>3. /\ call'[c].pc = "concluded" /\ call'[c].values = v
        /\ call'[c].op = call[c].op /\ call'[c].at = call[c].at
    BY <2>2 DEF Call
  <2>. QED
    BY <1>2, <2>3
<1>3. ASSUME NEW used \in BOOLEAN, Acted(c, used) PROVE Stays
  <2>1. call' = [call EXCEPT ![c] = [call[c] EXCEPT !.pc = "acted", !.used = used]]
    BY <1>3 DEF TypeOK, Acted
  <2>2. call'[c] = [call[c] EXCEPT !.pc = "acted", !.used = used] /\ call[c] \in Call
    BY <2>1 DEF TypeOK
  <2>3. /\ call'[c].pc = "acted" /\ call'[c].op = call[c].op /\ call'[c].at = call[c].at
        /\ call'[c].values = call[c].values
    BY <2>2 DEF Call
  <2>. QED
    BY <2>3
<1>4. ASSUME NEW p \in Pc \ {"found"}, call' = [call EXCEPT ![c].pc = p] PROVE Stays
  <2>1. call'[c] = [call[c] EXCEPT !.pc = p] /\ call[c] \in Call
    BY <1>4 DEF TypeOK
  <2>. QED
    BY <2>1 DEF Call
<1>5. call[c].values \in Values
  BY DEF TypeOK, Call
<1>6. ASSUME NEW st, NEW x
      PROVE  \A v \in {[call[c].values EXCEPT !.status = st],
                       [call[c].values EXCEPT !.status = st, !.step = x],
                       [call[c].values EXCEPT !.step = x, !.status = st]} :
                /\ v.ideasOk = call[c].values.ideasOk
                /\ v.publishOk = call[c].values.publishOk
  BY <1>5 DEF Values
<1>7. Stays
  BY <1>2, <1>3, <1>4, <1>6 DEF Raise, Pc
<1>. QED
  BY <1>1, <1>7 DEF Follows

\* The thread moves on to a node its values have earned.
LEMMA ProceedStep ==
    ASSUME TypeOK, TypeOK', GateInv, JobsFollow,
           UNCHANGED <<approvals, submissions, uploads>>,
           NEW c \in Callers, NEW n \in Nodes, NEW v \in Values,
           Earned(n, v), Proceed(c, n, v)
    PROVE  GateInv'
<1>. DEFINE p == IF n \in WorkNodes THEN "node" ELSE "returned"
<1>1. cp'.next = n /\ cp'.values = v /\ ((~cp'.parked /\ cp'.id = cp.id) \/ cp'.id > cp.id)
  <2>1. cp.id \in Nat
    BY DEF TypeOK, Checkpoint
  <2>2. CASE n \in Interrupts
    <3>1. cp' = [next |-> n, parked |-> TRUE, id |-> cp.id + 1, stray |-> FALSE, values |-> v]
      BY <2>2 DEF Proceed
    <3>. QED
      BY <2>1, <3>1
  <2>3. CASE n \notin Interrupts
    <3>1. cp' = [next |-> n, parked |-> n \in Interrupts, id |-> cp.id, stray |-> FALSE, values |-> v]
      BY <2>3 DEF Proceed
    <3>2. cp'.next = n /\ cp'.id = cp.id /\ cp'.values = v /\ cp'.parked = (n \in Interrupts)
      BY <3>1
    <3>. QED
      BY <2>3, <3>2
  <2>. QED
    BY <2>2, <2>3
<1>2. call' = [call EXCEPT ![c] = [call[c] EXCEPT !.pc = p, !.at = n, !.used = FALSE, !.values = v]]
  BY DEF Proceed, TypeOK
<1>3. call'[c] = [call[c] EXCEPT !.pc = p, !.at = n, !.used = FALSE, !.values = v] /\ call[c] \in Call
  BY <1>2 DEF TypeOK
<1>4. /\ call'[c].pc # "found" /\ call'[c].op = call[c].op
      /\ call'[c].at = n /\ call'[c].values = v
  BY <1>3 DEF Call
<1>5. CallInv(call[c])'
  BY <1>4 DEF GateInv, CallInv, Earned, Backed, JobsFollow
<1>6. \A d \in Callers \ {c} : call'[d] = call[d]
  BY <1>2 DEF TypeOK
<1>7. Earned(cp.next, cp.values)'
  BY <1>1 DEF Earned
<1>. QED
  BY <1>1, <1>5, <1>6, <1>7, ThreadStep

\* The thread stays, and its caller gets a copy of its values.
LEMMA ReadStep ==
    ASSUME TypeOK, TypeOK', GateInv, JobsFollow,
           UNCHANGED <<approvals, submissions, uploads>>,
           cp'.next = cp.next, cp'.parked = cp.parked, cp'.id = cp.id,
           cp'.values = cp.values,
           NEW c \in Callers, \A d \in Callers \ {c} : call'[d] = call[d],
           call'[c].pc # "found", call'[c].op = call[c].op,
           call'[c].at \in {call[c].at, cp.next}, call'[c].values = cp.values
    PROVE  GateInv'
<1>1. CallInv(call[c])'
  BY DEF GateInv, CallInv, Earned, Backed, JobsFollow
<1>2. Earned(cp.next, cp.values)'
  BY DEF GateInv, Earned
<1>. QED
  BY <1>1, <1>2, ThreadStep

\* An answer opens a gate only if it answers the interrupt it was meant for.
LEMMA AnswerStep ==
    ASSUME TypeOK, TypeOK', GateInv, JobsFollow,
           UNCHANGED <<approvals, submissions, uploads>>,
           NEW c \in Callers, call[c].pc = "found", IdIsPending(c), Answer(c)
    PROVE  GateInv'
<1>. DEFINE v == cp.values
            o == call[c].op
<1>1. v \in Values /\ cp.next \in Nodes /\ Earned(cp.next, v)
  BY DEF TypeOK, Checkpoint, GateInv
<1>2. Approves(o) => \A g \in Gates : cp.next = GateNode(g) => g \in approvals
  BY DEF GateInv, CallInv, Backed, IdIsPending
<1>3. CASE cp.next = "ideation_approval"
  <2>1. CASE Approves(o)
    <3>. DEFINE w == [v EXCEPT !.ideasOk = TRUE, !.step = "production"]
    <3>1. w \in Values /\ w.publishOk = v.publishOk
      BY <1>1 DEF Values, RunStatus, Terminal, Steps
    <3>2. Earned("production", w)
      BY <1>1, <1>2, <1>3, <2>1, <3>1 DEF Earned, Gates, GateNode
    <3>3. Proceed(c, "production", w)
      BY <1>3, <2>1 DEF Answer, AnswerIdeation, Waits
    <3>. QED
      BY <3>1, <3>2, <3>3, ProceedStep DEF Nodes, WorkNodes
  <2>2. CASE ~Approves(o)
    <3>. DEFINE w == [v EXCEPT !.ideasOk = FALSE, !.status = "rejected"]
    <3>1. w \in Values /\ w.publishOk = v.publishOk /\ ~w.ideasOk
      BY <1>1 DEF Values, RunStatus, Terminal, Steps
    <3>2. Earned("END", w)
      BY <1>1, <3>1 DEF Earned, Beyond
    <3>3. Proceed(c, "END", w)
      BY <1>3, <2>2 DEF Answer, AnswerIdeation, Waits
    <3>. QED
      BY <3>1, <3>2, <3>3, ProceedStep DEF Nodes
  <2>. QED
    BY <2>1, <2>2
<1>4. CASE cp.next = "publish_approval"
  <2>0. "ideation" \in approvals
    BY <1>1, <1>4 DEF Earned, Beyond
  <2>1. CASE Approves(o)
    <3>. DEFINE w == [v EXCEPT !.publishOk = TRUE, !.step = "publishing"]
    <3>1. w \in Values
      BY <1>1 DEF Values, RunStatus, Terminal, Steps
    <3>2. "publish" \in approvals /\ approvals \subseteq Gates
      BY <1>2, <1>4, <2>1 DEF Gates, GateNode, TypeOK
    <3>3. Earned("publishing", w)
      BY <2>0, <3>2 DEF Earned, Gates
    <3>4. Proceed(c, "publishing", w)
      BY <1>4, <2>1 DEF Answer, AnswerPublish, Waits
    <3>. QED
      BY <3>1, <3>3, <3>4, ProceedStep DEF Nodes, WorkNodes
  <2>2. CASE ~Approves(o)
    <3>. DEFINE w == [v EXCEPT !.publishOk = FALSE, !.status = "rejected"]
    <3>1. w \in Values /\ ~w.publishOk
      BY <1>1 DEF Values, RunStatus, Terminal, Steps
    <3>2. Earned("END", w)
      BY <2>0, <3>1 DEF Earned
    <3>3. Proceed(c, "END", w)
      BY <1>4, <2>2 DEF Answer, AnswerPublish, Waits
    <3>. QED
      BY <3>1, <3>2, <3>3, ProceedStep DEF Nodes
  <2>. QED
    BY <2>1, <2>2
<1>5. CASE cp.next \in Waits /\ cp.stray
  <2>. DEFINE n == IF cp.next = "wait_for_videos" THEN "editing" ELSE "publish_approval"
  <2>1. CASE Proceed(c, n, v)
    <3>1. Earned(n, v)
      BY <1>1, <1>5 DEF Waits, Earned, Beyond
    <3>. QED
      BY <1>1, <2>1, <3>1, ProceedStep DEF Nodes, WorkNodes, Interrupts, Waits
  <2>2. CASE call' = [call EXCEPT ![c].pc = "raised"] /\ UNCHANGED cp
    <3>1. \A d \in Callers : Follows(d)
      BY <2>2, NodeFollows DEF Raise
    <3>. QED
      BY <2>2, <3>1, AsideStep
  <2>. QED
    BY <1>5, <2>1, <2>2 DEF Answer, StopWaiting, Waits
<1>6. CASE cp.next = "wait_for_videos" /\ ~cp.stray /\ o = "videos"
  <2>. DEFINE w == [v EXCEPT !.clips = TRUE, !.step = "editing", !.status = "running"]
  <2>1. w \in Values /\ w.publishOk = v.publishOk
    BY <1>1 DEF Values, RunStatus, Terminal, Steps
  <2>2. Earned("editing", w)
    BY <1>1, <1>6, <2>1 DEF Earned, Beyond
  <2>3. Proceed(c, "editing", w)
    BY <1>6 DEF Answer, AnswerVideos, Waits
  <2>. QED
    BY <2>1, <2>2, <2>3, ProceedStep DEF Nodes, WorkNodes
<1>7. CASE cp.next = "wait_for_render" /\ ~cp.stray /\ o = "render"
  <2>. DEFINE w == [v EXCEPT !.final = TRUE, !.step = "publish_approval",
                             !.status = "awaiting_publish_approval"]
  <2>1. w \in Values /\ w.publishOk = v.publishOk
    BY <1>1 DEF Values, RunStatus, Terminal, Steps
  <2>2. Earned("publish_approval", w)
    BY <1>1, <1>7, <2>1 DEF Earned, Beyond
  <2>3. Proceed(c, "publish_approval", w)
    BY <1>7 DEF Answer, AnswerRender, Waits
  <2>. QED
    BY <2>1, <2>2, <2>3, ProceedStep DEF Nodes, Interrupts, Waits
<1>8. CASE KeepWaiting(c, v)
  <2>1. call' = [call EXCEPT ![c] = [call[c] EXCEPT !.pc = "returned", !.values = v]]
    BY <1>8 DEF TypeOK, KeepWaiting
  <2>2. /\ \A d \in Callers \ {c} : call'[d] = call[d]
        /\ call'[c] = [call[c] EXCEPT !.pc = "returned", !.values = v]
        /\ call[c] \in Call
    BY <2>1 DEF TypeOK
  <2>3. /\ call'[c].pc # "found" /\ call'[c].op = call[c].op
        /\ call'[c].at = call[c].at /\ call'[c].values = v
    BY <2>2 DEF Call
  <2>4. /\ cp'.next = cp.next /\ cp'.parked = cp.parked
        /\ cp'.id = cp.id /\ cp'.values = cp.values
    BY <1>8 DEF KeepWaiting, TypeOK, Checkpoint
  <2>. QED
    BY <2>2, <2>3, <2>4, ReadStep
<1>. QED
  BY <1>3, <1>4, <1>5, <1>6, <1>7, <1>8 DEF Answer

\* Approvals are never taken back, so more of them disturb nothing.
LEMMA ApprovalStep ==
    ASSUME TypeOK, TypeOK', GateInv, approvals \subseteq approvals',
           UNCHANGED <<cp, submissions, uploads>>, Requested',
           \A j \in JobNames : jobs[j] # "absent" => jobs'[j] # "absent",
           \A d \in Callers : call'[d] = call[d] \/ CallInv(call[d])'
    PROVE  GateInv'
<1>. USE DEF GateInv
<1>1. approvals' \subseteq Gates
  BY DEF TypeOK
<1>2. Earned(cp.next, cp.values)'
  BY <1>1 DEF Earned
<1>3. ASSUME NEW d \in Callers, call'[d] = call[d] PROVE CallInv(call[d])'
  <2>. USE <1>3
  <2>1. CallInv(call[d]) /\ UNCHANGED cp
    OBVIOUS
  <2>2. Earned(call[d].at, call[d].values)'
    BY <1>1, <2>1 DEF CallInv, Earned
  <2>3. Backed(call[d])'
    BY <2>1 DEF CallInv, Backed
  <2>. QED
    BY <2>1, <2>2, <2>3 DEF CallInv
<1>4. NothingUnapproved'
  BY <1>1 DEF NothingUnapproved
<1>. QED
  BY <1>2, <1>3, <1>4

\* One step keeps the gates shut.
LEMMA GateStep ==
    ASSUME TypeOK, GateInv, [Next]_vars
    PROVE  GateInv'
<1>1. TypeOK'
  BY TypeStep
<1>. USE <1>1 DEF spent, stored, history
<1>2. ASSUME NEW c \in Callers, NEW j \in JobNames, TakeJob(c, j) PROVE GateInv'
  <2>1. /\ call'[c] = [NoCall EXCEPT !.op = j, !.pc = "begun"]
        /\ \A d \in Callers \ {c} : call'[d] = call[d]
    BY <1>2 DEF TakeJob, TypeOK
  <2>2. /\ call'[c].op = j /\ call'[c].pc = "begun" /\ call'[c].at = "START"
        /\ ~call'[c].values.ideasOk /\ ~call'[c].values.publishOk
    BY <2>1 DEF NoCall, InitialValues
  <2>3. CallInv(call[c])'
    BY <1>2, <2>2 DEF TakeJob, CallInv, Earned, Backed, Beyond
  <2>4. Earned(cp.next, cp.values)'
    BY <1>2 DEF TakeJob, GateInv, Earned
  <2>. QED
    BY <1>2, <2>1, <2>3, <2>4, ThreadStep DEF TakeJob, JobsFollow
<1>3. ASSUME NEW c \in Callers, CheckExecute(c) PROVE GateInv'
  <2>1. JobsFollow /\ \A d \in Callers : Follows(d)
    BY <1>3, NodeFollows, JobEnds DEF CheckExecute, CheckRow, JobsFollow
  <2>. QED
    BY <1>3, <2>1, AsideStep DEF CheckExecute, CheckRow
<1>4. ASSUME NEW c \in Callers, StartGraph(c) PROVE GateInv'
  <2>. DEFINE v == [cp.values EXCEPT !.status = "running", !.step = "ideation"]
  <2>1. cp \in Checkpoint /\ call[c] \in Call
    BY DEF TypeOK
  <2>2. v.ideasOk = cp.values.ideasOk /\ v.publishOk = cp.values.publishOk
    BY <2>1 DEF Checkpoint, Values
  <2>3. cp' = [cp EXCEPT !.next = "ideation", !.parked = FALSE, !.stray = FALSE, !.values = v]
    BY <1>4 DEF StartGraph
  <2>4. cp'.next = "ideation" /\ ~cp'.parked /\ cp'.id = cp.id /\ cp'.values = v
    BY <2>1, <2>3 DEF Checkpoint
  <2>5. Earned(cp.next, cp.values)'
    BY <1>4, <2>2, <2>4 DEF StartGraph, GateInv, Earned, Beyond
  <2>6. call' = [call EXCEPT ![c] =
                    [call[c] EXCEPT !.pc = "node", !.at = "ideation", !.values = v]]
    BY <1>4 DEF StartGraph, TypeOK
  <2>7. /\ call'[c] = [call[c] EXCEPT !.pc = "node", !.at = "ideation", !.values = v]
        /\ \A d \in Callers \ {c} : call'[d] = call[d]
    BY <2>6 DEF TypeOK
  <2>8. /\ call'[c].pc = "node" /\ call'[c].op = call[c].op
        /\ call'[c].at = "ideation" /\ call'[c].values = v
    BY <2>1, <2>7 DEF Call
  <2>9. Earned(call[c].at, call[c].values)'
    BY <1>4, <2>2, <2>8 DEF StartGraph, GateInv, Earned, Beyond
  <2>10. CallInv(call[c])'
    BY <1>4, <2>8, <2>9 DEF StartGraph, GateInv, CallInv, Backed
  <2>. QED
    BY <1>4, <2>4, <2>5, <2>7, <2>10, ThreadStep DEF StartGraph, JobsFollow
<1>5. ASSUME NEW c \in Callers, CheckGate(c) PROVE GateInv'
  <2>1. JobsFollow /\ \A d \in Callers : Follows(d)
    BY <1>5, NodeFollows, JobEnds DEF CheckGate, CheckRow, JobsFollow
  <2>. QED
    BY <1>5, <2>1, AsideStep DEF CheckGate, CheckRow
<1>6. ASSUME NEW c \in Callers, FindGate(c) PROVE GateInv'
  <2>1. CASE JobDone(c) \/ JobRetried(c)
    BY <1>6, <2>1, JobEnds, AsideStep DEF FindGate
  <2>2. CASE call' = [call EXCEPT ![c].pc = "found", ![c].id = cp.id] /\ UNCHANGED jobs /\ cp.next = GateNode(GateOf(call[c].op))
    <3>1. call' = [call EXCEPT ![c] = [call[c] EXCEPT !.pc = "found", !.id = cp.id]]
      BY <2>2 DEF TypeOK
    <3>2. /\ call'[c] = [call[c] EXCEPT !.pc = "found", !.id = cp.id]
          /\ \A d \in Callers \ {c} : call'[d] = call[d]
          /\ call[c] \in Call /\ cp.id \in Nat
      BY <3>1 DEF TypeOK, Checkpoint
    <3>3. /\ call'[c].id = cp.id /\ call'[c].op = call[c].op
          /\ call'[c].at = call[c].at /\ call'[c].values = call[c].values
      BY <3>2 DEF Call
    <3>4. UNCHANGED <<cp, approvals, jobs>> /\ call[c].op \in HitlJobs
      BY <1>6, <2>2 DEF FindGate, At, JobDone, JobRetried
    <3>5. Backed(call[c])'
      <4>1. call[c].op \in JobNames /\ jobs[call[c].op] # "absent"
        BY <3>4 DEF JobNames, GateInv, CallInv
      <4>2. Approves(call[c].op) => GateOf(call[c].op) \in approvals
        BY <3>4, <4>1 DEF GateInv, Requested
      <4>. QED
        BY <2>2, <3>3, <3>4, <4>2 DEF Backed, Gates, GateNode, GateOf
    <3>6. CallInv(call[c])'
      BY <3>2, <3>3, <3>4, <3>5 DEF GateInv, CallInv, Earned
    <3>7. Earned(cp.next, cp.values)'
      BY <3>4 DEF GateInv, Earned
    <3>. QED
      BY <1>6, <3>2, <3>4, <3>6, <3>7, ThreadStep DEF FindGate, JobsFollow
  <2>. QED
    BY <1>6, <2>1, <2>2 DEF FindGate
<1>7. ASSUME NEW c \in Callers, FindWait(c) PROVE GateInv'
  <2>1. CASE JobDone(c) \/ JobRetried(c)
    BY <1>7, <2>1, JobEnds, AsideStep DEF FindWait
  <2>2. CASE call' = [call EXCEPT ![c].pc = "found", ![c].id = cp.id] /\ UNCHANGED jobs
    <3>1. call' = [call EXCEPT ![c] = [call[c] EXCEPT !.pc = "found", !.id = cp.id]]
      BY <2>2 DEF TypeOK
    <3>2. /\ call'[c] = [call[c] EXCEPT !.pc = "found", !.id = cp.id]
          /\ \A d \in Callers \ {c} : call'[d] = call[d]
          /\ call[c] \in Call /\ cp.id \in Nat
      BY <3>1 DEF TypeOK, Checkpoint
    <3>3. /\ call'[c].id = cp.id /\ call'[c].op = call[c].op
          /\ call'[c].at = call[c].at /\ call'[c].values = call[c].values
      BY <3>2 DEF Call
    <3>4. UNCHANGED <<cp, approvals, jobs>> /\ call[c].op \in {"videos", "render"}
      BY <1>7, <2>2 DEF FindWait, At, JobDone, JobRetried
    <3>5. Backed(call[c])'
      BY <3>3, <3>4 DEF Backed, Approves
    <3>6. CallInv(call[c])'
      BY <3>2, <3>3, <3>4, <3>5 DEF GateInv, CallInv, Earned
    <3>7. Earned(cp.next, cp.values)'
      BY <3>4 DEF GateInv, Earned
    <3>. QED
      BY <1>7, <3>2, <3>4, <3>6, <3>7, ThreadStep DEF FindWait, JobsFollow
  <2>. QED
    BY <1>7, <2>1, <2>2 DEF FindWait
<1>8. ASSUME NEW c \in Callers, CheckPoll(c) PROVE GateInv'
  <2>1. JobsFollow /\ \A d \in Callers : Follows(d)
    BY <1>8, NodeFollows, JobEnds DEF CheckPoll, CheckRow, JobsFollow
  <2>. QED
    BY <1>8, <2>1, AsideStep DEF CheckPoll, CheckRow
<1>9. ASSUME NEW c \in Callers, PollEnds(c) PROVE GateInv'
  <2>1. JobsFollow /\ \A d \in Callers : Follows(d)
    <3>1. CASE Hangup(c) /\ UNCHANGED jobs
      BY <3>1 DEF Hangup, TypeOK, Follows, JobsFollow
    <3>2. CASE Hangup(c) /\ jobs' = [jobs EXCEPT !["videos"] = "open", !["poll"] = "done"]
      <4>1. JobsFollow
        BY <3>2 DEF TypeOK, JobsFollow, HitlJobs, JobNames
      <4>2. \A d \in Callers : Follows(d)
        BY <3>2 DEF Hangup, TypeOK, Follows
      <4>. QED
        BY <4>1, <4>2
    <3>. QED
      BY <1>9, <3>1, <3>2, JobEnds DEF PollEnds
  <2>. QED
    BY <1>9, <2>1, AsideStep DEF PollEnds
<1>10. ASSUME NEW c \in Callers, Resume(c) PROVE GateInv'
  <2>1. JobsFollow /\ UNCHANGED <<approvals, submissions, uploads>>
    BY <1>10 DEF Resume, JobsFollow
  <2>2. CASE IdIsPending(c) /\ Answer(c)
    BY <1>10, <2>1, <2>2, AnswerStep DEF Resume
  <2>. DEFINE p == IF cp.next \in WorkNodes THEN "node" ELSE "returned"
  <2>3. CASE /\ UNCHANGED cp
             /\ call' = [call EXCEPT ![c].pc = p, ![c].at = cp.next, ![c].values = cp.values]
    <3>1. call' = [call EXCEPT ![c] =
                      [call[c] EXCEPT !.pc = p, !.at = cp.next, !.values = cp.values]]
      BY <2>3 DEF TypeOK
    <3>2. /\ \A d \in Callers \ {c} : call'[d] = call[d]
          /\ call'[c] = [call[c] EXCEPT !.pc = p, !.at = cp.next, !.values = cp.values]
          /\ call[c] \in Call
      BY <3>1 DEF TypeOK
    <3>3. /\ call'[c].pc # "found" /\ call'[c].op = call[c].op
          /\ call'[c].at = cp.next /\ call'[c].values = cp.values
      BY <3>2 DEF Call
    <3>. QED
      BY <2>1, <2>3, <3>2, <3>3, ReadStep
  <2>. QED
    BY <1>10, <2>2, <2>3 DEF Resume
<1>11. ASSUME NEW c \in Callers, Advance(c) PROVE GateInv'
  <2>1. call[c].values \in Values /\ Successor(call[c].at) \in Nodes
    BY DEF TypeOK, Call, Successor, Nodes, WorkNodes, Interrupts, Waits
  <2>2. Earned(Successor(call[c].at), call[c].values)
    BY DEF GateInv, CallInv, Earned, Successor, Beyond
  <2>. QED
    BY <1>11, <2>1, <2>2, ProceedStep DEF Advance, JobsFollow
<1>12. ASSUME NEW c \in Callers, Ideation(c) PROVE GateInv'
  <2>1. JobsFollow /\ \A d \in Callers : Follows(d)
    BY <1>12, NodeFollows DEF Ideation, JobsFollow, RunStatus, Terminal, Steps
  <2>. QED
    BY <1>12, <2>1, AsideStep DEF Ideation
<1>13. ASSUME NEW c \in Callers, ProductionTurn(c) PROVE GateInv'
  <2>1. JobsFollow /\ \A d \in Callers : Follows(d)
    BY <1>13, NodeFollows DEF ProductionTurn, JobsFollow, RunStatus, Terminal, Steps
  <2>2. "ideation" \in approvals
    BY <1>13 DEF ProductionTurn, GateInv, CallInv, Earned
  <2>. QED
    BY <1>13, <2>1, <2>2, AsideStep DEF ProductionTurn
<1>14. ASSUME NEW c \in Callers, ProductionRefused(c) PROVE GateInv'
  <2>1. JobsFollow /\ \A d \in Callers : Follows(d)
    BY <1>14, NodeFollows DEF ProductionRefused, JobsFollow, RunStatus, Terminal, Steps
  <2>. QED
    BY <1>14, <2>1, AsideStep DEF ProductionRefused
<1>15. ASSUME NEW c \in Callers, ProductionEnds(c) PROVE GateInv'
  <2>1. JobsFollow /\ \A d \in Callers : Follows(d)
    BY <1>15, NodeFollows, EnqueuedFollows
     DEF ProductionEnds, JobsFollow, JobNames, HitlJobs, RunStatus, Terminal, Steps
  <2>. QED
    BY <1>15, <2>1, AsideStep DEF ProductionEnds
<1>16. ASSUME NEW c \in Callers, EditingTurn(c) PROVE GateInv'
  <2>1. JobsFollow /\ \A d \in Callers : Follows(d)
    BY <1>16, NodeFollows DEF EditingTurn, JobsFollow, RunStatus, Terminal, Steps
  <2>. QED
    BY <1>16, <2>1, AsideStep DEF EditingTurn
<1>17. ASSUME NEW c \in Callers, EditingEnds(c) PROVE GateInv'
  <2>1. JobsFollow /\ \A d \in Callers : Follows(d)
    BY <1>17, NodeFollows DEF EditingEnds, JobsFollow, RunStatus, Terminal, Steps
  <2>. QED
    BY <1>17, <2>1, AsideStep DEF EditingEnds
<1>18. ASSUME NEW c \in Callers, PublishingTurn(c) PROVE GateInv'
  <2>1. JobsFollow /\ \A d \in Callers : Follows(d)
    BY <1>18, NodeFollows DEF PublishingTurn, UploadPost, Upload, JobsFollow, RunStatus, Terminal, Steps
  <2>2. approvals = Gates
    BY <1>18 DEF PublishingTurn, UploadPost, Upload, GateInv, CallInv, Earned
  <2>. QED
    BY <1>18, <2>1, <2>2, AsideStep DEF PublishingTurn, UploadPost, Upload
<1>19. ASSUME NEW c \in Callers, PublishingPolls(c) PROVE GateInv'
  <2>1. JobsFollow /\ \A d \in Callers : Follows(d)
    BY <1>19, NodeFollows DEF PublishingPolls, JobsFollow, RunStatus, Terminal, Steps
  <2>. QED
    BY <1>19, <2>1, AsideStep DEF PublishingPolls
<1>20. ASSUME NEW c \in Callers, PublishingEnds(c) PROVE GateInv'
  <2>1. JobsFollow /\ \A d \in Callers : Follows(d)
    BY <1>20, NodeFollows DEF PublishingEnds, PublishingCompletes, UrlKnown, PublishingFails, PublishingStops, JobsFollow, RunStatus, Terminal, Steps
  <2>. QED
    BY <1>20, <2>1, AsideStep DEF PublishingEnds, PublishingCompletes, UrlKnown, PublishingFails, PublishingStops
<1>21. ASSUME NEW c \in Callers, Return(c) PROVE GateInv'
  <2>1. JobsFollow /\ \A d \in Callers : Follows(d)
    BY <1>21, JobEnds DEF Return
  <2>. QED
    BY <1>21, <2>1, AsideStep DEF Return
<1>22. ASSUME NEW c \in Callers, ReturnError(c) PROVE GateInv'
  <2>1. JobsFollow /\ \A d \in Callers : Follows(d)
    BY <1>22, JobEnds DEF ReturnError
  <2>. QED
    BY <1>22, <2>1, AsideStep DEF ReturnError
<1>23. ASSUME NEW c \in Callers, Crash(c) PROVE GateInv'
  <2>1. JobsFollow /\ \A d \in Callers : Follows(d)
    BY <1>23 DEF Crash, Hangup, TypeOK, Follows, JobsFollow
  <2>. QED
    BY <1>23, <2>1, AsideStep DEF Crash
<1>24. ASSUME NEW c \in Callers, NEW o \in ApiOps, ApiCall(c, o) PROVE GateInv'
  <2>1. /\ call'[c] = [NoCall EXCEPT !.op = o, !.pc = "found", !.id = cp.id]
        /\ \A d \in Callers \ {c} : call'[d] = call[d]
    BY <1>24 DEF ApiCall, TypeOK
  <2>2. /\ call'[c].op = o /\ call'[c].id = cp.id /\ call'[c].at = "START"
        /\ ~call'[c].values.ideasOk /\ ~call'[c].values.publishOk
    BY <2>1 DEF NoCall, InitialValues
  <2>3. cp.id \in Nat /\ o \notin JobNames /\ (Approves(o) => o = "api_approve")
    BY DEF TypeOK, Checkpoint, ApiOps, JobNames, HitlJobs, Approves
  <2>4. Earned(call[c].at, call[c].values)' /\ Backed(call[c])'
    BY <1>24, <2>2, <2>3 DEF ApiCall, Earned, Backed, Beyond
  <2>5. CallInv(call[c])'
    BY <1>24, <2>2, <2>3, <2>4 DEF ApiCall, CallInv
  <2>6. approvals \subseteq approvals' /\ UNCHANGED <<cp, jobs, submissions, uploads>>
    BY <1>24 DEF ApiCall
  <2>7. Requested'
    BY <2>6 DEF GateInv, Requested
  <2>. QED
    BY <2>1, <2>5, <2>6, <2>7, ApprovalStep
<1>25. ASSUME NEW j \in Decisions, RequestGate(j) PROVE GateInv'
  <2>1. approvals \subseteq approvals' /\ UNCHANGED <<cp, call, submissions, uploads>>
    BY <1>25 DEF RequestGate
  <2>2. \A k \in JobNames : /\ jobs[k] # "absent" => jobs'[k] # "absent"
                            /\ k # j => jobs'[k] = jobs[k]
    BY <1>25 DEF RequestGate, Enqueued, TypeOK
  <2>3. Requested'
    BY <1>25, <2>1, <2>2 DEF RequestGate, GateInv, Requested, JobNames
  <2>. QED
    BY <2>1, <2>2, <2>3, ApprovalStep
<1>26. ASSUME ClipsArrive PROVE GateInv'
  <2>1. JobsFollow /\ \A d \in Callers : Follows(d)
    BY <1>26, EnqueuedFollows DEF ClipsArrive, Follows, JobsFollow, JobNames, HitlJobs
  <2>. QED
    BY <1>26, <2>1, AsideStep DEF ClipsArrive
<1>27. ASSUME RenderArrives PROVE GateInv'
  <2>1. JobsFollow /\ \A d \in Callers : Follows(d)
    BY <1>27, EnqueuedFollows DEF RenderArrives, Follows, JobsFollow, JobNames, HitlJobs
  <2>. QED
    BY <1>27, <2>1, AsideStep DEF RenderArrives
<1>28. ASSUME RunFails PROVE GateInv'
  <2>1. JobsFollow /\ \A d \in Callers : Follows(d)
    BY <1>28 DEF RunFails, Stuck, Follows, JobsFollow
  <2>. QED
    BY <1>28, <2>1, AsideStep DEF RunFails, Stuck
<1>29. CASE UNCHANGED vars
  BY <1>29, AsideStep DEF vars, Follows, JobsFollow
<1>. QED
  BY NextCases, <1>2, <1>3, <1>4, <1>5, <1>6, <1>7, <1>8, <1>9, <1>10,
     <1>11, <1>12, <1>13, <1>14, <1>15, <1>16, <1>17, <1>18, <1>19, <1>20,
     <1>21, <1>22, <1>23, <1>24, <1>25, <1>26, <1>27, <1>28, <1>29

LEMMA GateInvHolds == Spec => []GateInv
<1>1. Init => GateInv
  <2>. SUFFICES ASSUME Init PROVE GateInv
    OBVIOUS
  <2>1. Earned(cp.next, cp.values)
    BY DEF Init, Earned, Beyond, InitialValues
  <2>2. Requested
    BY DEF Init, Requested, HitlJobs, JobNames
  <2>3. ASSUME NEW c \in Callers PROVE CallInv(call[c])
    BY DEF Init, NoCall, InitialValues, CallInv, Earned, Backed, Beyond, JobNames, HitlJobs
  <2>4. NothingUnapproved
    BY DEF Init, NothingUnapproved
  <2>. QED
    BY <2>1, <2>2, <2>3, <2>4 DEF GateInv
<1>2. TypeOK /\ GateInv /\ [Next]_vars => GateInv'
  BY GateStep
<1>. QED
  BY TypeCorrect, <1>1, <1>2, PTL DEF Spec

\* No clip is paid for before the ideas are approved, and nothing is uploaded
\* before both gates are, whatever races, is delivered twice or crashes.
THEOREM GatesHold == Spec => []NothingUnapproved
<1>1. GateInv => NothingUnapproved
  BY DEF GateInv
<1>. QED
  BY GateInvHolds, <1>1, PTL

-----------------------------------------------------------------------------
(* Races: what holds of a run on whose thread no two calls have met.       *)
(* Nothing is paid for twice, and the row of a run that has ended says so. *)

\* The parts of the inductive invariant.
Working   == {"node", "acted", "polling", "concluded"}
Inside(r) == r.pc \in Working \cup {"returned", "raised"}

\* What holds of a call whether calls race or not.  A job that executes has
\* been enqueued, sora.poll stays out of the thread, the values know of clips
\* only once run.resume_videos exists, and publishing ends the run.
Local(r) ==
    /\ r.op \in JobNames => jobs[r.op] # "absent"
    /\ r.op = "poll" => r.pc \in {"begun", "checked"}
    /\ r.op = "execute" => r.pc # "found"
    /\ r.values.status # "pending"
    /\ r.values.clips \/ (r.at = "editing" /\ r.pc \in {"acted", "concluded"})
          => jobs["videos"] # "absent"
    /\ r.at = "publishing" /\ r.pc = "concluded" => r.values.status \in Terminal

\* The turn of node n is still to be paid for.
Unspent(n) ==
    /\ n = "production" => submissions = 0
    /\ n = "editing" => renders = 0
    /\ n = "publishing" => uploads = 0

\* What holds of a call as long as nobody has raced: an interrupt it has found
\* is still pending, and the thread stands where the call works.
Seat(r) ==
    /\ r.pc = "found" => cp.parked /\ cp.id = r.id
    /\ r.pc \in Working => cp.next = r.at /\ ~cp.parked /\ r.at \in WorkNodes
    /\ r.op = "execute" /\ r.pc = "checked" => cp.next = "START"
    /\ Inside(r) => cp.next # "START"
    /\ Inside(r) /\ r.op = "execute" => cp.next \in {"ideation", "ideation_approval"}
    /\ Inside(r) /\ cp.next = "END" => r.pc = "returned" /\ r.values.status \in Terminal
    /\ r.pc = "node" => Unspent(r.at)

Alone == \A c, d \in Callers : Inside(call[c]) /\ Inside(call[d]) => c = d

BeforeProduction == {"START", "ideation", "ideation_approval"}
BeforeEditing    == BeforeProduction \cup {"production", "wait_for_videos"}
BeforePublishing == BeforeEditing \cup {"editing", "wait_for_render", "publish_approval"}

\* The thread pays on its way through the nodes and never comes back.
Once ==
    /\ submissions <= 1 /\ renders <= 1 /\ uploads <= 1
    /\ cp.next \in BeforeProduction => submissions = 0
    /\ cp.next \in BeforeEditing => renders = 0
    /\ cp.next \in BeforePublishing => uploads = 0

\* sora.poll can no longer complete the run once the thread has gone past the clips.
Late ==
    /\ cp.next \in BeforeProduction => jobs["poll"] = "absent"
    /\ cp.next \in {"wait_for_render", "publish_approval", "publishing"} => jobs["videos"] # "absent"
    /\ cp.next = "END" => jobs["poll"] = "absent" \/ jobs["videos"] # "absent"

Started ==
    /\ status = "pending" => cp.next = "START"
    /\ cp.next = "START" => ~cp.parked

Ending ==
    cp.next = "END" /\ faults = 0 => status \in Terminal \/ \E c \in Callers : Inside(call[c])

RaceInv ==
    /\ \A c \in Callers : Local(call[c])
    /\ cp.parked => cp.next \in Interrupts
    /\ cp.values.status # "pending"
    /\ cp.values.clips => jobs["videos"] # "absent"
    /\ ~raced => /\ \A c \in Callers : Seat(call[c])
                 /\ Alone /\ Once /\ Late /\ Started /\ Ending

-----------------------------------------------------------------------------
(* Steps that leave the thread where it is.                                *)

JobsKept == \A j \in JobNames : jobs[j] # "absent" => jobs'[j] # "absent"
PollKept == cp.next \in BeforeProduction \cup {"END"} /\ jobs["poll"] = "absent"
               => jobs'["poll"] = "absent"

\* A call that does not enter the thread, and may leave it.
LEMMA StayStep ==
    ASSUME TypeOK, TypeOK', RaceInv, UNCHANGED <<cp, raced>>, JobsKept,
           ~raced => PollKept /\ Once' /\ Ending',
           status' = "pending" => status = "pending",
           \A d \in Callers :
              \/ /\ call'[d] = call[d]
                 /\ UNCHANGED <<submissions, renders, uploads>> \/ raced \/ ~Inside(call[d])
              \/ /\ Local(call[d])'
                 /\ ~raced => Seat(call[d])' /\ (Inside(call'[d]) => Inside(call[d]))
    PROVE  RaceInv'
<1>1. ASSUME NEW d \in Callers PROVE Local(call[d])'
  BY DEF RaceInv, Local, JobsKept, JobNames
<1>2. /\ cp'.parked => cp'.next \in Interrupts
      /\ cp'.values.status # "pending"
      /\ cp'.values.clips => jobs'["videos"] # "absent"
  BY DEF RaceInv, JobsKept, JobNames
<1>. SUFFICES ASSUME ~raced
              PROVE  /\ \A d \in Callers : Seat(call[d])'
                     /\ Alone' /\ Once' /\ Late' /\ Started' /\ Ending'
  BY <1>1, <1>2 DEF RaceInv
<1>3. ASSUME NEW d \in Callers PROVE Seat(call[d])'
  BY DEF RaceInv, Seat, Unspent, Inside, Working
<1>4. Alone'
  BY DEF RaceInv, Alone
<1>5. Late'
  BY DEF RaceInv, Late, PollKept, JobsKept, JobNames
<1>6. Started'
  BY DEF RaceInv, Started
<1>. QED
  BY <1>3, <1>4, <1>5, <1>6

LEMMA OnceKept ==
    ASSUME RaceInv, ~raced, UNCHANGED <<cp, submissions, renders, uploads>>
    PROVE  Once'
  BY DEF RaceInv, Once

\* A caller that hangs up stands nowhere.
LEMMA NoCallIsFine ==
    ASSUME NEW c \in Callers, call'[c] = NoCall
    PROVE  Local(call[c])' /\ Seat(call[c])' /\ ~Inside(call'[c])
  BY DEF NoCall, InitialValues, Local, Seat, Inside, Working, JobNames, HitlJobs

\* A call ends, and whatever it writes, an ended run keeps a terminal status.
LEMMA LeaveStep ==
    ASSUME TypeOK, TypeOK', RaceInv, NEW c \in Callers, Hangup(c), JobsKept,
           UNCHANGED <<cp, submissions, renders, uploads, raced>>,
           ~raced => PollKept, faults' = 0 => faults = 0,
           status' = "pending" => status = "pending",
           ~raced /\ cp.next = "END" /\ faults = 0 /\ (status \in Terminal \/ Inside(call[c]))
              => status' \in Terminal
    PROVE  RaceInv'
<1>1. call'[c] = NoCall /\ \A d \in Callers \ {c} : call'[d] = call[d]
  BY DEF Hangup, TypeOK
<1>2. ~raced => Once'
  BY OnceKept
<1>3. ~raced => Ending'
  BY <1>1 DEF RaceInv, Ending
<1>4. \A d \in Callers :
              \/ /\ call'[d] = call[d]
                 /\ UNCHANGED <<submissions, renders, uploads>> \/ raced \/ ~Inside(call[d])
              \/ /\ Local(call[d])'
                 /\ ~raced => Seat(call[d])' /\ (Inside(call'[d]) => Inside(call[d]))
  BY <1>1, NoCallIsFine
<1>. QED
  BY <1>2, <1>3, <1>4, StayStep

LEMMA JobEndKept ==
    ASSUME TypeOK, RaceInv, NEW c \in Callers, JobDone(c) \/ JobRetried(c)
    PROVE  Hangup(c) /\ JobsKept /\ PollKept
<1>1. PICK x \in {"done", "dead", "open"} :
          jobs' = IF call[c].op \in JobNames THEN [jobs EXCEPT ![call[c].op] = x] ELSE jobs
  BY DEF JobDone, JobRetried
<1>2. call[c].op \in JobNames => jobs[call[c].op] # "absent"
  BY DEF RaceInv, Local
<1>3. JobsKept /\ PollKept
  BY <1>1, <1>2 DEF JobsKept, PollKept, TypeOK, JobNames
<1>. QED
  BY <1>3 DEF JobDone, JobRetried

\* A call that is on its way to the thread.
LEMMA ApproachStep ==
    ASSUME TypeOK, TypeOK', RaceInv, NEW c \in Callers, ~Inside(call[c]), JobsKept,
           UNCHANGED <<status, cp, submissions, renders, uploads, raced>>,
           ~raced => PollKept, faults' = 0 => faults = 0,
           \A d \in Callers \ {c} : call'[d] = call[d],
           Local(call[c])', ~raced => Seat(call[c])', ~Inside(call'[c])
    PROVE  RaceInv'
<1>1. ~raced => Once'
  BY OnceKept
<1>2. ~raced => Ending'
  BY DEF RaceInv, Ending
<1>3. \A d \in Callers :
              \/ /\ call'[d] = call[d]
                 /\ UNCHANGED <<submissions, renders, uploads>> \/ raced \/ ~Inside(call[d])
              \/ /\ Local(call[d])'
                 /\ ~raced => Seat(call[d])' /\ (Inside(call'[d]) => Inside(call[d]))
  OBVIOUS
<1>. QED
  BY <1>1, <1>2, <1>3, StayStep

\* A call that works at its node.
LEMMA WorkStep ==
    ASSUME TypeOK, TypeOK', RaceInv, NEW c \in Callers, call[c].pc \in Working, JobsKept,
           UNCHANGED <<cp, raced>>, ~raced => PollKept /\ Once',
           status' = "pending" => status = "pending",
           \A d \in Callers \ {c} : call'[d] = call[d],
           Local(call[c])', ~raced => Seat(call[c])'
    PROVE  RaceInv'
<1>1. ~raced => Ending'
  BY DEF RaceInv, Ending, Seat, WorkNodes
<1>2. ~raced => \A d \in Callers \ {c} : ~Inside(call[d])
  BY DEF RaceInv, Alone, Inside
<1>3. \A d \in Callers :
              \/ /\ call'[d] = call[d]
                 /\ UNCHANGED <<submissions, renders, uploads>> \/ raced \/ ~Inside(call[d])
              \/ /\ Local(call[d])'
                 /\ ~raced => Seat(call[d])' /\ (Inside(call'[d]) => Inside(call[d]))
  BY <1>2 DEF Inside
<1>. QED
  BY <1>1, <1>3, StayStep

-----------------------------------------------------------------------------
(* Steps that move the thread.                                             *)

\* A call that is neither in the thread nor about to enter it on what it has seen.
Away(r) == ~Inside(r) /\ r.pc # "found" /\ ~(r.op = "execute" /\ r.pc = "checked")

LEMMA EnterAlone ==
    ASSUME TypeOK, RaceInv, NEW c \in Callers, Enter(c), ~raced'
    PROVE  ~raced /\ \A d \in Callers \ {c} : Away(call[d])
<1>1. ~raced /\ \A d \in Callers \ {c} : ~Driving(d)
  BY DEF Enter, TypeOK
<1>2. ASSUME NEW d \in Callers \ {c} PROVE Away(call[d])
  BY <1>1 DEF RaceInv, Local, Driving, Away, Inside, Working
<1>. QED
  BY <1>1, <1>2

LEMMA WorkAlone ==
    ASSUME TypeOK, RaceInv, NEW c \in Callers, call[c].pc \in Working, ~raced
    PROVE  \A d \in Callers \ {c} : Away(call[d])
<1>1. ASSUME NEW d \in Callers \ {c} PROVE Away(call[d])
  <2>1. ~Inside(call[d])
    BY DEF RaceInv, Alone, Inside
  <2>2. cp.next # "START" /\ ~cp.parked
    BY DEF RaceInv, Seat, WorkNodes
  <2>. QED
    BY <2>1, <2>2 DEF RaceInv, Seat, Away
<1>. QED
  BY <1>1

LEMMA MoveStep ==
    ASSUME TypeOK, TypeOK', RaceInv, NEW c \in Callers,
           UNCHANGED <<jobs, submissions, renders, uploads, faults>>,
           \A d \in Callers \ {c} : call'[d] = call[d],
           Local(call[c])', cp'.values.status # "pending",
           cp'.parked => cp'.next \in Interrupts,
           cp'.values.clips => jobs["videos"] # "absent",
           ~raced' => /\ ~raced /\ \A d \in Callers \ {c} : Away(call[d])
                      /\ Seat(call[c])' /\ Once' /\ Late'
                      /\ status' # "pending" /\ cp'.next # "START"
                      /\ cp'.next = "END" => Inside(call'[c])
    PROVE  RaceInv'
<1>1. ASSUME NEW d \in Callers PROVE Local(call[d])'
  BY DEF RaceInv, Local
<1>. SUFFICES ASSUME ~raced'
              PROVE  /\ \A d \in Callers : Seat(call[d])'
                     /\ Alone' /\ Once' /\ Late' /\ Started' /\ Ending'
  BY <1>1 DEF RaceInv
<1>2. ASSUME NEW d \in Callers PROVE Seat(call[d])'
  BY DEF Seat, Away, Inside, Working
<1>3. Alone'
  BY DEF Alone, Away
<1>4. Started' /\ Ending'
  BY DEF Started, Ending
<1>. QED
  BY <1>2, <1>3, <1>4

\* The edges of the graph.
Edge(m, n) ==
    <<m, n>> \in {<<"ideation", "ideation_approval">>, <<"ideation_approval", "production">>,
                  <<"ideation_approval", "END">>, <<"production", "wait_for_videos">>,
                  <<"wait_for_videos", "editing">>, <<"editing", "wait_for_render">>,
                  <<"wait_for_render", "publish_approval">>, <<"publish_approval", "publishing">>,
                  <<"publish_approval", "END">>, <<"publishing", "END">>}

LEMMA ProceedFields ==
    ASSUME TypeOK, NEW c \in Callers, NEW n \in Nodes, NEW v \in Values, Proceed(c, n, v)
    PROVE  /\ cp'.next = n /\ cp'.parked = (n \in Interrupts) /\ cp'.values = v
           /\ call'[c].pc = (IF n \in WorkNodes THEN "node" ELSE "returned")
           /\ call'[c].op = call[c].op /\ call'[c].at = n /\ call'[c].values = v
           /\ \A d \in Callers \ {c} : call'[d] = call[d]
<1>. DEFINE p == IF n \in WorkNodes THEN "node" ELSE "returned"
            i == IF n \in Interrupts THEN cp.id + 1 ELSE cp.id
            b == n \in Interrupts
<1>1. cp' = [next |-> n, parked |-> b, id |-> i, stray |-> FALSE, values |-> v]
  BY DEF Proceed
<1>. HIDE DEF i, b
<1>2. cp'.next = n /\ cp'.values = v /\ cp'.parked = b
  BY <1>1
<1>3. call' = [call EXCEPT ![c] = [call[c] EXCEPT !.pc = p, !.at = n, !.used = FALSE, !.values = v]]
  BY DEF Proceed, TypeOK
<1>4. /\ call'[c] = [call[c] EXCEPT !.pc = p, !.at = n, !.used = FALSE, !.values = v]
      /\ call[c] \in Call /\ \A d \in Callers \ {c} : call'[d] = call[d]
  BY <1>3 DEF TypeOK
<1>5. /\ call'[c].pc = p /\ call'[c].op = call[c].op
      /\ call'[c].at = n /\ call'[c].values = v
  BY <1>4 DEF Call
<1>. QED
  BY <1>2, <1>4, <1>5 DEF b

LEMMA ProceedMove ==
    ASSUME TypeOK, TypeOK', RaceInv, NEW c \in Callers,
           UNCHANGED <<status, jobs, submissions, renders, uploads, faults>>,
           call[c].pc \notin {"begun", "checked"},
           NEW n \in Nodes, NEW v \in Values, Proceed(c, n, v), n # "START",
           v.status # "pending", v.clips => jobs["videos"] # "absent",
           ~raced' => /\ ~raced /\ \A d \in Callers \ {c} : Away(call[d])
                      /\ Edge(cp.next, n)
                      /\ n = "wait_for_render" => jobs["videos"] # "absent"
                      /\ n = "END" => v.status \in Terminal
                      /\ call[c].op = "execute" => n = "ideation_approval"
    PROVE  RaceInv'
<1>1. /\ cp'.next = n /\ cp'.parked = (n \in Interrupts) /\ cp'.values = v
      /\ call'[c].pc = (IF n \in WorkNodes THEN "node" ELSE "returned")
      /\ call'[c].op = call[c].op /\ call'[c].at = n /\ call'[c].values = v
      /\ \A d \in Callers \ {c} : call'[d] = call[d]
  BY ProceedFields
<1>2. Local(call[c])'
  BY <1>1 DEF RaceInv, Local
<1>3. ASSUME ~raced' PROVE Once' /\ Late' /\ Unspent(n)'
  <2>1. Once /\ Late /\ Edge(cp.next, n)
    BY <1>3 DEF RaceInv
  <2>2. Once'
    BY <1>1, <2>1 DEF Once, Edge, BeforeProduction, BeforeEditing, BeforePublishing
  <2>3. Late'
    BY <1>1, <1>3, <2>1 DEF Late, Edge, BeforeProduction
  <2>4. Unspent(n)'
    BY <2>1 DEF Once, Unspent, Edge, BeforeProduction, BeforeEditing, BeforePublishing
  <2>. QED
    BY <2>2, <2>3, <2>4
<1>4. ASSUME ~raced' PROVE Seat(call[c])' /\ Inside(call'[c])
  BY <1>1, <1>3, <1>4 DEF Seat, Inside, Working, WorkNodes, Interrupts, Waits
<1>5. ~raced' => status # "pending"
  BY DEF RaceInv, Started, Edge
<1>. QED
  BY <1>1, <1>2, <1>3, <1>4, <1>5, MoveStep

-----------------------------------------------------------------------------
(* What the steps of a node do to the record of its call.                  *)

LEMMA PcFields ==
    ASSUME TypeOK, NEW c \in Callers, NEW p \in Pc, call' = [call EXCEPT ![c].pc = p]
    PROVE  /\ call'[c].pc = p /\ call'[c].op = call[c].op /\ call'[c].at = call[c].at
           /\ call'[c].values = call[c].values
           /\ \A d \in Callers \ {c} : call'[d] = call[d]
<1>1. /\ call'[c] = [call[c] EXCEPT !.pc = p] /\ call[c] \in Call
      /\ \A d \in Callers \ {c} : call'[d] = call[d]
  BY DEF TypeOK
<1>. QED
  BY <1>1 DEF Call

Finds(c)        == call' = [call EXCEPT ![c].pc = "found", ![c].id = cp.id]
Writes(c, p, v) == call' = [call EXCEPT ![c].pc = p, ![c].values = v]

LEMMA FoundFields ==
    ASSUME TypeOK, NEW c \in Callers, Finds(c)
    PROVE  /\ call'[c].pc = "found" /\ call'[c].op = call[c].op /\ call'[c].at = call[c].at
           /\ call'[c].values = call[c].values /\ call'[c].id = cp.id
           /\ \A d \in Callers \ {c} : call'[d] = call[d]
<1>1. call' = [call EXCEPT ![c] = [call[c] EXCEPT !.pc = "found", !.id = cp.id]]
  BY DEF TypeOK, Finds
<1>2. call'[c] = [call[c] EXCEPT !.pc = "found", !.id = cp.id] /\ call[c] \in Call
  BY <1>1 DEF TypeOK
<1>3. \A d \in Callers \ {c} : call'[d] = call[d]
  BY <1>1 DEF TypeOK
<1>4. /\ call'[c].pc = "found" /\ call'[c].op = call[c].op /\ call'[c].at = call[c].at
      /\ call'[c].values = call[c].values /\ call'[c].id = cp.id
  BY <1>2 DEF Call
<1>. QED
  BY <1>3, <1>4

LEMMA ActedFields ==
    ASSUME TypeOK, NEW c \in Callers, NEW used \in BOOLEAN, Acted(c, used)
    PROVE  /\ call'[c].pc = "acted" /\ call'[c].op = call[c].op /\ call'[c].at = call[c].at
           /\ call'[c].values = call[c].values
           /\ \A d \in Callers \ {c} : call'[d] = call[d]
<1>1. call' = [call EXCEPT ![c] = [call[c] EXCEPT !.pc = "acted", !.used = used]]
  BY DEF TypeOK, Acted
<1>2. /\ call'[c] = [call[c] EXCEPT !.pc = "acted", !.used = used] /\ call[c] \in Call
      /\ \A d \in Callers \ {c} : call'[d] = call[d]
  BY <1>1 DEF TypeOK
<1>. QED
  BY <1>2 DEF Call

LEMMA ValuesFields ==
    ASSUME TypeOK, NEW c \in Callers, NEW p \in Pc, NEW v \in Values, Writes(c, p, v)
    PROVE  /\ call'[c].pc = p /\ call'[c].op = call[c].op /\ call'[c].at = call[c].at
           /\ call'[c].values = v
           /\ \A d \in Callers \ {c} : call'[d] = call[d]
<1>1. call' = [call EXCEPT ![c] = [call[c] EXCEPT !.pc = p, !.values = v]]
  BY DEF TypeOK, Writes
<1>2. call'[c] = [call[c] EXCEPT !.pc = p, !.values = v] /\ call[c] \in Call
  BY <1>1 DEF TypeOK
<1>3. \A d \in Callers \ {c} : call'[d] = call[d]
  BY <1>1 DEF TypeOK
<1>4. /\ call'[c].pc = p /\ call'[c].op = call[c].op /\ call'[c].at = call[c].at
      /\ call'[c].values = v
  BY <1>2 DEF Call
<1>. QED
  BY <1>3, <1>4

\* A node raises, or goes on polling.
LEMMA PcStep ==
    ASSUME TypeOK, TypeOK', RaceInv, NEW c \in Callers, call[c].pc \in Working,
           NEW p \in {"raised", "polling"}, call' = [call EXCEPT ![c].pc = p],
           UNCHANGED <<cp, jobs, submissions, renders, uploads, raced>>,
           status' = "pending" => status = "pending"
    PROVE  RaceInv'
<1>1. /\ call'[c].pc = p /\ call'[c].op = call[c].op /\ call'[c].at = call[c].at
      /\ call'[c].values = call[c].values
      /\ \A d \in Callers \ {c} : call'[d] = call[d]
  BY PcFields DEF Pc
<1>2. Local(call[c])'
  BY <1>1 DEF RaceInv, Local, Working
<1>3. ASSUME ~raced PROVE Seat(call[c])'
  <2>1. Seat(call[c])
    BY <1>3 DEF RaceInv
  <2>. QED
    BY <1>1, <2>1 DEF Seat, Inside, Working, WorkNodes
<1>. QED
  BY <1>1, <1>2, <1>3, WorkStep, OnceKept DEF JobsKept, PollKept

\* A node returns its update.
LEMMA ConcludeStep ==
    ASSUME TypeOK, TypeOK', RaceInv, NEW c \in Callers, call[c].pc \in Working,
           NEW v \in Values, Conclude(c, v),
           v.status # "pending", v.clips = call[c].values.clips,
           call[c].at = "editing" => call[c].pc = "acted",
           call[c].at = "publishing" => v.status \in Terminal,
           UNCHANGED <<cp, submissions, renders, uploads, raced>>,
           JobsKept, ~raced => PollKept, status' = "pending" => status = "pending"
    PROVE  RaceInv'
<1>1. /\ call'[c].pc = "concluded" /\ call'[c].op = call[c].op /\ call'[c].at = call[c].at
      /\ call'[c].values = v
      /\ \A d \in Callers \ {c} : call'[d] = call[d]
  BY ValuesFields DEF Conclude, Writes, Pc
<1>2. Local(call[c])'
  <2>1. Local(call[c])
    BY DEF RaceInv
  <2>. QED
    BY <1>1, <2>1 DEF Local, JobsKept, JobNames, Working
<1>3. ASSUME ~raced PROVE Seat(call[c])'
  <2>1. Seat(call[c])
    BY <1>3 DEF RaceInv
  <2>. QED
    BY <1>1, <2>1 DEF Seat, Inside, Working, WorkNodes
<1>. QED
  BY <1>1, <1>2, <1>3, WorkStep, OnceKept

\* The turn of a node's agent ends, and the node has been paid for.
LEMMA TurnStep ==
    ASSUME TypeOK, TypeOK', RaceInv, NEW c \in Callers, call[c].pc = "node",
           NEW used \in BOOLEAN, Acted(c, used),
           call[c].at = "editing" => call[c].values.clips,
           UNCHANGED <<cp, jobs, raced>>, status' = "pending" => status = "pending",
           ~raced => Once'
    PROVE  RaceInv'
<1>1. /\ call'[c].pc = "acted" /\ call'[c].op = call[c].op /\ call'[c].at = call[c].at
      /\ call'[c].values = call[c].values
      /\ \A d \in Callers \ {c} : call'[d] = call[d]
  BY ActedFields
<1>2. Local(call[c])'
  <2>1. Local(call[c])
    BY DEF RaceInv
  <2>. QED
    BY <1>1, <2>1 DEF Local
<1>3. ASSUME ~raced PROVE Seat(call[c])'
  <2>1. Seat(call[c])
    BY <1>3 DEF RaceInv
  <2>. QED
    BY <1>1, <2>1 DEF Seat, Inside, Working, WorkNodes
<1>. QED
  BY <1>1, <1>2, <1>3, WorkStep DEF JobsKept, PollKept, Working

-----------------------------------------------------------------------------
(* The answers.                                                            *)

LEMMA EditedFields ==
    ASSUME NEW v \in Values, NEW st \in RunStatus, NEW x \in Steps, NEW b \in BOOLEAN
    PROVE  /\ [v EXCEPT !.ideasOk = b, !.step = x].status = v.status
           /\ [v EXCEPT !.ideasOk = b, !.step = x].clips = v.clips
           /\ [v EXCEPT !.ideasOk = b, !.status = st].status = st
           /\ [v EXCEPT !.ideasOk = b, !.status = st].clips = v.clips
           /\ [v EXCEPT !.publishOk = b, !.step = x].status = v.status
           /\ [v EXCEPT !.publishOk = b, !.step = x].clips = v.clips
           /\ [v EXCEPT !.publishOk = b, !.status = st].status = st
           /\ [v EXCEPT !.publishOk = b, !.status = st].clips = v.clips
           /\ [v EXCEPT !.clips = b, !.step = x, !.status = st].status = st
           /\ [v EXCEPT !.final = b, !.step = x, !.status = st].status = st
           /\ [v EXCEPT !.final = b, !.step = x, !.status = st].clips = v.clips
           /\ [v EXCEPT !.status = st].status = st
           /\ [v EXCEPT !.status = st].clips = v.clips
           /\ [v EXCEPT !.status = st, !.step = x].status = st
           /\ [v EXCEPT !.status = st, !.step = x].clips = v.clips
           /\ [v EXCEPT !.step = x, !.status = st].status = st
           /\ [v EXCEPT !.step = x, !.status = st].clips = v.clips
  BY DEF Values

\* A call answers the interrupt it has found.
LEMMA AnswerMove ==
    ASSUME TypeOK, TypeOK', RaceInv, NEW c \in Callers, call[c].pc = "found", Enter(c),
           IdIsPending(c), Answer(c),
           UNCHANGED <<status, jobs, submissions, renders, uploads, faults>>
    PROVE  RaceInv'
<1>. DEFINE v == cp.values
            o == call[c].op
<1>1. v \in Values /\ cp.next \in Nodes /\ v.status # "pending" /\ Local(call[c])
  BY DEF TypeOK, Checkpoint, RaceInv
<1>2. ~raced' => ~raced /\ \A d \in Callers \ {c} : Away(call[d])
  BY EnterAlone
<1>3. o # "execute" /\ (v.clips => jobs["videos"] # "absent")
  BY <1>1 DEF Local, RaceInv
<1>4. ASSUME NEW n \in Nodes \ {"START", "wait_for_render"}, NEW w \in Values, Proceed(c, n, w),
             w.status # "pending", w.clips => jobs["videos"] # "absent",
             Edge(cp.next, n), n = "END" => w.status \in Terminal
      PROVE  RaceInv'
  BY <1>2, <1>3, <1>4, ProceedMove
<1>5. CASE cp.next = "ideation_approval"
  <2>. DEFINE w1 == [v EXCEPT !.ideasOk = TRUE, !.step = "production"]
              w2 == [v EXCEPT !.ideasOk = FALSE, !.status = "rejected"]
  <2>1. /\ w1 \in Values /\ w1.status = v.status /\ w1.clips = v.clips
        /\ w2 \in Values /\ w2.status = "rejected" /\ w2.clips = v.clips
    BY <1>1 DEF Values, RunStatus, Terminal, Steps
  <2>2. Proceed(c, "production", w1) \/ Proceed(c, "END", w2)
    BY <1>5 DEF Answer, AnswerIdeation, Waits
  <2>. HIDE DEF w1, w2
  <2>. QED
    BY <1>1, <1>3, <1>4, <1>5, <2>1, <2>2 DEF Edge, Nodes, WorkNodes, Terminal
<1>6. CASE cp.next = "publish_approval"
  <2>. DEFINE w1 == [v EXCEPT !.publishOk = TRUE, !.step = "publishing"]
              w2 == [v EXCEPT !.publishOk = FALSE, !.status = "rejected"]
  <2>1. /\ w1 \in Values /\ w1.status = v.status /\ w1.clips = v.clips
        /\ w2 \in Values /\ w2.status = "rejected" /\ w2.clips = v.clips
    BY <1>1 DEF Values, RunStatus, Terminal, Steps
  <2>2. Proceed(c, "publishing", w1) \/ Proceed(c, "END", w2)
    BY <1>6 DEF Answer, AnswerPublish, Waits
  <2>. HIDE DEF w1, w2
  <2>. QED
    BY <1>1, <1>3, <1>4, <1>6, <2>1, <2>2 DEF Edge, Nodes, WorkNodes, Terminal
<1>7. CASE cp.next = "wait_for_videos" /\ ~cp.stray /\ o = "videos"
  <2>. DEFINE w == [v EXCEPT !.clips = TRUE, !.step = "editing", !.status = "running"]
  <2>1. w \in Values /\ w.status = "running"
    BY <1>1 DEF Values, RunStatus, Terminal, Steps
  <2>2. Proceed(c, "editing", w)
    BY <1>7 DEF Answer, AnswerVideos, Waits
  <2>3. jobs["videos"] # "absent"
    BY <1>1, <1>7 DEF Local, JobNames
  <2>. HIDE DEF w
  <2>. QED
    BY <1>4, <1>7, <2>1, <2>2, <2>3 DEF Edge, Nodes, WorkNodes
<1>8. CASE cp.next = "wait_for_render" /\ ~cp.stray /\ o = "render"
  <2>. DEFINE w == [v EXCEPT !.final = TRUE, !.step = "publish_approval",
                             !.status = "awaiting_publish_approval"]
  <2>1. w \in Values /\ w.status = "awaiting_publish_approval" /\ w.clips = v.clips
    BY <1>1 DEF Values, RunStatus, Terminal, Steps
  <2>2. Proceed(c, "publish_approval", w)
    BY <1>8 DEF Answer, AnswerRender, Waits
  <2>. HIDE DEF w
  <2>. QED
    BY <1>3, <1>4, <1>8, <2>1, <2>2 DEF Edge, Nodes, Interrupts
<1>9. CASE cp.next \in Waits /\ cp.stray
  <2>1. StopWaiting(c, v)
    BY <1>9 DEF Answer, Waits
  <2>2. CASE Proceed(c, IF cp.next = "wait_for_videos" THEN "editing" ELSE "publish_approval", v)
    BY <1>1, <1>3, <1>4, <1>9, <2>2 DEF Edge, Nodes, WorkNodes, Interrupts, Waits
  <2>3. CASE call' = [call EXCEPT ![c].pc = "raised"] /\ UNCHANGED cp
    <3>1. /\ call'[c].pc = "raised" /\ call'[c].op = call[c].op /\ call'[c].at = call[c].at
          /\ call'[c].values = call[c].values
          /\ \A d \in Callers \ {c} : call'[d] = call[d]
      BY <2>3, PcFields DEF Pc
    <3>2. Local(call[c])'
      BY <1>1, <3>1 DEF Local
    <3>3. Seat(call[c])'
      BY <1>3, <1>9, <2>3, <3>1 DEF Seat, Inside, Working, Waits
    <3>4. ~raced => Once /\ Late /\ Started
      BY DEF RaceInv
    <3>5. ~raced' => Once' /\ Late' /\ status' # "pending"
      BY <1>2, <1>9, <2>3, <3>4 DEF Once, Late, Started, Waits
    <3>. QED
      BY <1>1, <1>2, <1>3, <1>9, <2>3, <3>1, <3>2, <3>3, <3>5, MoveStep DEF Waits, Interrupts
  <2>. QED
    BY <2>1, <2>2, <2>3 DEF StopWaiting
<1>10. CASE cp.next \in Waits /\ KeepWaiting(c, v)
  <2>1. /\ call'[c].pc = "returned" /\ call'[c].op = call[c].op /\ call'[c].at = call[c].at
        /\ call'[c].values = v
        /\ \A d \in Callers \ {c} : call'[d] = call[d]
    BY <1>1, <1>10, ValuesFields DEF KeepWaiting, Writes, Pc
  <2>2. cp' = [cp EXCEPT !.stray = TRUE] /\ cp \in Checkpoint
    BY <1>10 DEF KeepWaiting, TypeOK
  <2>3. cp'.next = cp.next /\ cp'.parked = cp.parked /\ cp'.values = v
    BY <2>2 DEF Checkpoint
  <2>4. Local(call[c])'
    BY <1>1, <1>3, <2>1 DEF Local
  <2>5. Seat(call[c])'
    BY <1>3, <1>10, <2>1, <2>3 DEF Seat, Inside, Working, Waits
  <2>6. ~raced => Once /\ Late /\ Started
    BY DEF RaceInv
  <2>7. ~raced' => Once' /\ Late' /\ status' # "pending"
    BY <1>2, <1>10, <2>3, <2>6 DEF Once, Late, Started, Waits
  <2>. QED
    BY <1>1, <1>2, <1>3, <1>10, <2>1, <2>3, <2>4, <2>5, <2>7, MoveStep DEF Waits, Interrupts
<1>11. cp.parked /\ cp.next \in Interrupts
  BY DEF IdIsPending, RaceInv
<1>12. CASE /\ cp.next \in Waits /\ ~cp.stray
            /\ ~(cp.next = "wait_for_videos" /\ o = "videos")
            /\ ~(cp.next = "wait_for_render" /\ o = "render")
  <2>1. KeepWaiting(c, v)
    BY <1>12 DEF Answer, Waits
  <2>. QED
    BY <1>10, <1>12, <2>1
<1>. QED
  BY <1>5, <1>6, <1>7, <1>8, <1>9, <1>11, <1>12 DEF Interrupts

-----------------------------------------------------------------------------
(* Every step.                                                             *)

\* A handler checks the row, and is skipped if the row is not as it should be.
LEMMA CheckStep ==
    ASSUME TypeOK, TypeOK', RaceInv, NEW c \in Callers, NEW o, NEW s, CheckRow(c, o, s),
           s = "pending" \/ "execute" \notin o
    PROVE  RaceInv'
<1>. USE DEF spent, stored, history, bounds
<1>1. CASE JobDone(c)
  BY <1>1, JobEndKept, LeaveStep DEF CheckRow, At, Inside, Working
<1>2. CASE call' = [call EXCEPT ![c].pc = "checked"] /\ UNCHANGED jobs /\ status = s
  <2>1. /\ call'[c].pc = "checked" /\ call'[c].op = call[c].op /\ call'[c].at = call[c].at
        /\ call'[c].values = call[c].values
        /\ \A d \in Callers \ {c} : call'[d] = call[d]
    BY <1>2, PcFields DEF Pc
  <2>2. /\ UNCHANGED <<status, cp, submissions, renders, uploads, raced, faults, jobs>>
        /\ call[c].pc = "begun" /\ call[c].op \in o
    BY <1>2 DEF CheckRow, At
  <2>3. Local(call[c])'
    BY <2>1, <2>2 DEF RaceInv, Local
  <2>4. ASSUME ~raced PROVE Seat(call[c])'
    <3>1. Started
      BY <2>4 DEF RaceInv
    <3>2. call'[c].op = "execute" => cp'.next = "START"
      BY <1>2, <2>1, <2>2, <3>1 DEF Started
    <3>. QED
      BY <2>1, <3>2 DEF Seat, Inside, Working
  <2>. QED
    BY <2>1, <2>2, <2>3, <2>4, ApproachStep DEF Inside, Working, JobsKept, PollKept
<1>. QED
  BY <1>1, <1>2 DEF CheckRow

\* A call finds the pending interrupt.
LEMMA FindStep ==
    ASSUME TypeOK, TypeOK', RaceInv, NEW c \in Callers, Finds(c), cp.parked,
           ~Inside(call[c]), call[c].op \notin {"execute", "poll"},
           UNCHANGED <<status, cp, jobs, submissions, renders, uploads, raced, faults>>
    PROVE  RaceInv'
<1>1. /\ call'[c].pc = "found" /\ call'[c].op = call[c].op /\ call'[c].at = call[c].at
      /\ call'[c].values = call[c].values /\ call'[c].id = cp.id
      /\ \A d \in Callers \ {c} : call'[d] = call[d]
  BY FoundFields
<1>2. Local(call[c])'
  BY <1>1 DEF RaceInv, Local
<1>3. Seat(call[c])'
  BY <1>1 DEF Seat, Inside, Working
<1>. QED
  BY <1>1, <1>2, <1>3, ApproachStep DEF Inside, Working, JobsKept, PollKept

\* A step of the world around the calls.
LEMMA OutsideStep ==
    ASSUME TypeOK, TypeOK', RaceInv, JobsKept, PollKept,
           UNCHANGED <<cp, call, submissions, renders, uploads, raced, faults>>,
           status' = "pending" => status = "pending",
           status \in Terminal => status' \in Terminal
    PROVE  RaceInv'
<1>1. ~raced => Once'
  BY OnceKept
<1>2. ~raced => Ending'
  BY DEF RaceInv, Ending
<1>. QED
  BY <1>1, <1>2, StayStep

LEMMA EnqueuedKept ==
    ASSUME TypeOK, NEW j \in JobNames, jobs' = Enqueued(j)
    PROVE  JobsKept /\ (j # "poll" => PollKept)
  BY DEF TypeOK, Enqueued, JobsKept, PollKept, JobNames

\* One step of any caller, provider or operator.
LEMMA RaceStep ==
    ASSUME TypeOK, RaceInv, [Next]_vars
    PROVE  RaceInv'
<1>1. TypeOK'
  BY TypeStep
<1>. USE <1>1 DEF spent, stored, history, bounds
<1>2. ASSUME NEW c \in Callers, NEW j \in JobNames, TakeJob(c, j) PROVE RaceInv'
  <2>1. /\ call'[c] = [NoCall EXCEPT !.op = j, !.pc = "begun"]
        /\ \A d \in Callers \ {c} : call'[d] = call[d]
    BY <1>2 DEF TakeJob, TypeOK
  <2>2. /\ call'[c].op = j /\ call'[c].pc = "begun" /\ call'[c].at = "START"
        /\ call'[c].values.status = "running" /\ ~call'[c].values.clips
    BY <2>1 DEF NoCall, InitialValues
  <2>3. Local(call[c])' /\ Seat(call[c])'
    BY <1>2, <2>2 DEF TakeJob, Local, Seat, Inside, Working
  <2>4. faults' = 0 => faults = 0
    BY <1>2 DEF TakeJob, TypeOK
  <2>. QED
    BY <1>2, <2>1, <2>2, <2>3, <2>4, ApproachStep
     DEF TakeJob, Free, Inside, Working, JobsKept, PollKept
<1>3. ASSUME NEW c \in Callers, CheckExecute(c) PROVE RaceInv'
  BY <1>3, CheckStep DEF CheckExecute
<1>4. ASSUME NEW c \in Callers, StartGraph(c) PROVE RaceInv'
  <2>. DEFINE v == [cp.values EXCEPT !.status = "running", !.step = "ideation"]
  <2>1. cp \in Checkpoint /\ call[c] \in Call
    BY DEF TypeOK
  <2>2. v.status = "running" /\ v.clips = cp.values.clips
    BY <2>1 DEF Checkpoint, Values
  <2>3. cp' = [cp EXCEPT !.next = "ideation", !.parked = FALSE, !.stray = FALSE, !.values = v]
    BY <1>4 DEF StartGraph
  <2>4. cp'.next = "ideation" /\ ~cp'.parked /\ cp'.values = v
    BY <2>1, <2>3 DEF Checkpoint
  <2>5. call' = [call EXCEPT ![c] =
                    [call[c] EXCEPT !.pc = "node", !.at = "ideation", !.values = v]]
    BY <1>4 DEF StartGraph, TypeOK
  <2>6. /\ call'[c] = [call[c] EXCEPT !.pc = "node", !.at = "ideation", !.values = v]
        /\ \A d \in Callers \ {c} : call'[d] = call[d]
    BY <2>5 DEF TypeOK
  <2>7. /\ call'[c].pc = "node" /\ call'[c].op = call[c].op
        /\ call'[c].at = "ideation" /\ call'[c].values = v
    BY <2>1, <2>6 DEF Call
  <2>. HIDE DEF v
  <2>8. /\ UNCHANGED <<jobs, submissions, renders, uploads, faults>>
        /\ status' = "running" /\ Enter(c) /\ call[c].pc = "checked" /\ call[c].op = "execute"
    BY <1>4 DEF StartGraph, At
  <2>9. Local(call[c])'
    BY <2>2, <2>7, <2>8 DEF RaceInv, Local
  <2>10. ASSUME ~raced'
         PROVE  /\ ~raced /\ \A d \in Callers \ {c} : Away(call[d])
                /\ Seat(call[c])' /\ Once' /\ Late'
    <3>1. ~raced /\ \A d \in Callers \ {c} : Away(call[d])
      BY <2>8, <2>10, EnterAlone
    <3>2. cp.next = "START" /\ Once /\ Late
      BY <2>8, <3>1 DEF RaceInv, Seat
    <3>3. Once' /\ Late'
      BY <2>4, <2>8, <3>2 DEF Once, Late, BeforeProduction, BeforeEditing, BeforePublishing
    <3>4. Seat(call[c])'
      BY <2>4, <2>7, <2>8 DEF Seat, Inside, Working, WorkNodes, Unspent
    <3>. QED
      BY <3>1, <3>3, <3>4
  <2>. QED
    BY <2>2, <2>4, <2>6, <2>8, <2>9, <2>10, MoveStep DEF RaceInv
<1>5. ASSUME NEW c \in Callers, CheckGate(c) PROVE RaceInv'
  BY <1>5, CheckStep DEF CheckGate, HitlJobs
<1>6. ASSUME NEW c \in Callers, FindGate(c) PROVE RaceInv'
  <2>1. CASE JobRetried(c)
    BY <1>6, <2>1, JobEndKept, LeaveStep DEF FindGate, At, Inside, Working
  <2>2. CASE Finds(c) /\ cp.parked /\ UNCHANGED jobs
    BY <1>6, <2>2, FindStep DEF FindGate, At, Inside, Working, HitlJobs
  <2>. QED
    BY <1>6, <2>1, <2>2 DEF FindGate, Finds
<1>7. ASSUME NEW c \in Callers, FindWait(c) PROVE RaceInv'
  <2>1. CASE JobDone(c) \/ JobRetried(c)
    BY <1>7, <2>1, JobEndKept, LeaveStep DEF FindWait, At, Inside, Working
  <2>2. CASE Finds(c) /\ cp.parked /\ UNCHANGED jobs
    BY <1>7, <2>2, FindStep DEF FindWait, At, Inside, Working
  <2>. QED
    BY <1>7, <2>1, <2>2 DEF FindWait, Finds
<1>8. ASSUME NEW c \in Callers, CheckPoll(c) PROVE RaceInv'
  BY <1>8, CheckStep DEF CheckPoll
<1>9. ASSUME NEW c \in Callers, PollEnds(c) PROVE RaceInv'
  <2>1. /\ UNCHANGED <<cp, submissions, renders, uploads, raced, faults>>
        /\ call[c].pc = "checked" /\ call[c].op = "poll" /\ ~Inside(call[c])
    BY <1>9 DEF PollEnds, At, Inside, Working
  <2>2. CASE Hangup(c) /\ UNCHANGED <<status, jobs>>
    BY <2>1, <2>2, LeaveStep DEF JobsKept, PollKept
  <2>3. CASE /\ jobs["videos"] = "absent" /\ Hangup(c) /\ status' = "awaiting_render"
             /\ jobs' = [jobs EXCEPT !["videos"] = "open", !["poll"] = "done"]
    <3>1. jobs["poll"] # "absent"
      BY <2>1 DEF RaceInv, Local, JobNames
    <3>2. JobsKept /\ PollKept
      BY <2>3, <3>1 DEF JobsKept, PollKept, TypeOK, JobNames
    <3>3. ~raced => cp.next # "END"
      BY <2>3, <3>1 DEF RaceInv, Late
    <3>. QED
      BY <2>1, <2>3, <3>2, <3>3, LeaveStep
  <2>4. CASE JobDone(c) /\ status' = "failed"
    BY <2>1, <2>4, JobEndKept, LeaveStep DEF Terminal
  <2>. QED
    BY <1>9, <2>2, <2>3, <2>4 DEF PollEnds
<1>10. ASSUME NEW c \in Callers, Resume(c) PROVE RaceInv'
  <2>1. /\ UNCHANGED <<status, jobs, submissions, renders, uploads, faults>>
        /\ call[c].pc = "found" /\ Enter(c)
    BY <1>10 DEF Resume
  <2>2. CASE IdIsPending(c) /\ Answer(c)
    BY <2>1, <2>2, AnswerMove
  <2>. DEFINE p == IF cp.next \in WorkNodes THEN "node" ELSE "returned"
  <2>3. CASE /\ ~IdIsPending(c) /\ UNCHANGED cp
             /\ call' = [call EXCEPT ![c].pc = p, ![c].at = cp.next, ![c].values = cp.values]
    <3>1. call' = [call EXCEPT ![c] =
                      [call[c] EXCEPT !.pc = p, !.at = cp.next, !.values = cp.values]]
      BY <2>3 DEF TypeOK
    <3>2. /\ \A d \in Callers \ {c} : call'[d] = call[d]
          /\ call'[c] = [call[c] EXCEPT !.pc = p, !.at = cp.next, !.values = cp.values]
          /\ call[c] \in Call
      BY <3>1 DEF TypeOK
    <3>3. /\ call'[c].pc \in {"node", "returned"} /\ call'[c].op = call[c].op
          /\ call'[c].at = cp.next /\ call'[c].values = cp.values
      BY <3>2 DEF Call
    <3>4. Local(call[c])'
      BY <2>1, <3>3 DEF RaceInv, Local
    <3>5. raced'
      BY <2>1, <2>3, EnterAlone DEF RaceInv, Seat, IdIsPending
    <3>. QED
      BY <2>1, <2>3, <3>2, <3>4, <3>5, MoveStep DEF RaceInv
  <2>. QED
    BY <1>10, <2>2, <2>3 DEF Resume
<1>11. ASSUME NEW c \in Callers, Advance(c) PROVE RaceInv'
  <2>. DEFINE n == Successor(call[c].at)
              v == call[c].values
  <2>1. v \in Values /\ n \in Nodes /\ n # "START"
    BY DEF TypeOK, Call, Successor, Nodes, WorkNodes, Interrupts, Waits
  <2>2. /\ UNCHANGED <<status, jobs, submissions, renders, uploads, raced, faults>>
        /\ call[c].pc = "concluded" /\ Proceed(c, n, v)
    BY <1>11 DEF Advance
  <2>3. Local(call[c])
    BY DEF RaceInv
  <2>4. ASSUME ~raced
        PROVE  /\ \A d \in Callers \ {c} : Away(call[d])
               /\ Edge(cp.next, n)
               /\ n = "wait_for_render" => jobs["videos"] # "absent"
               /\ n = "END" => v.status \in Terminal
               /\ call[c].op = "execute" => n = "ideation_approval"
    <3>1. \A d \in Callers \ {c} : Away(call[d])
      BY <2>2, <2>4, WorkAlone DEF Working
    <3>2. /\ cp.next = call[c].at /\ call[c].at \in WorkNodes
          /\ call[c].op = "execute" => cp.next \in {"ideation", "ideation_approval"}
      BY <2>2, <2>4 DEF RaceInv, Seat, Inside, Working
    <3>3. Edge(cp.next, n)
      BY <3>2 DEF Edge, Successor, WorkNodes
    <3>4. n = "wait_for_render" => jobs["videos"] # "absent"
      BY <2>2, <2>3, <3>2 DEF Local, Successor, WorkNodes
    <3>5. n = "END" => v.status \in Terminal
      BY <2>2, <2>3, <3>2 DEF Local, Successor, WorkNodes
    <3>6. call[c].op = "execute" => n = "ideation_approval"
      BY <3>2 DEF Successor, WorkNodes
    <3>. QED
      BY <3>1, <3>3, <3>4, <3>5, <3>6
  <2>5. v.status # "pending" /\ (v.clips => jobs["videos"] # "absent")
    BY <2>3 DEF Local
  <2>. HIDE DEF n, v
  <2>. QED
    BY <2>1, <2>2, <2>4, <2>5, ProceedMove
<1>12. ASSUME NEW c \in Callers, Ideation(c) PROVE RaceInv'
  <2>. DEFINE v1 == [call[c].values EXCEPT !.step = "ideation", !.status = "awaiting_ideation_approval"]
              v2 == [call[c].values EXCEPT !.status = "failed"]
  <2>1. call[c].values \in Values
    BY DEF TypeOK, Call
  <2>2. /\ v1 \in Values /\ v1.status # "pending" /\ v1.clips = call[c].values.clips
        /\ v2 \in Values /\ v2.status # "pending" /\ v2.clips = call[c].values.clips
    BY <2>1 DEF Values, RunStatus, Terminal, Steps
  <2>3. /\ UNCHANGED <<cp, jobs, submissions, renders, uploads, raced>>
        /\ call[c].pc = "node" /\ call[c].at = "ideation"
        /\ status' = "pending" => status = "pending"
    BY <1>12 DEF Ideation, In
  <2>4. Conclude(c, v1) \/ Conclude(c, v2) \/ Raise(c)
    BY <1>12 DEF Ideation
  <2>. HIDE DEF v1, v2
  <2>. QED
    BY <2>2, <2>3, <2>4, ConcludeStep, PcStep DEF Raise, Working, JobsKept, PollKept
<1>13. ASSUME NEW c \in Callers, ProductionTurn(c) PROVE RaceInv'
  <2>1. PICK used \in BOOLEAN :
            Acted(c, used) /\ submissions' = IF used THEN submissions + 1 ELSE submissions
    BY <1>13 DEF ProductionTurn
  <2>2. /\ UNCHANGED <<cp, jobs, renders, uploads, raced>> /\ status' # "pending"
        /\ call[c].pc = "node" /\ call[c].at = "production"
    BY <1>13 DEF ProductionTurn, In
  <2>3. ASSUME ~raced PROVE Once'
    <3>1. Once /\ submissions = 0 /\ cp.next = "production"
      BY <2>2, <2>3 DEF RaceInv, Seat, Unspent, Working
    <3>. QED
      BY <2>1, <2>2, <3>1 DEF Once, BeforeProduction, BeforeEditing, BeforePublishing
  <2>. QED
    BY <2>1, <2>2, <2>3, TurnStep
<1>14. ASSUME NEW c \in Callers, ProductionRefused(c) PROVE RaceInv'
  BY <1>14, PcStep DEF ProductionRefused, Raise, In, Working
<1>15. ASSUME NEW c \in Callers, ProductionEnds(c) PROVE RaceInv'
  <2>. DEFINE v == [call[c].values EXCEPT !.step = "wait_for_videos",
                                          !.status = "awaiting_video_generation"]
  <2>1. call[c].values \in Values
    BY DEF TypeOK, Call
  <2>2. v \in Values /\ v.status # "pending" /\ v.clips = call[c].values.clips
    BY <2>1 DEF Values, RunStatus, Terminal, Steps
  <2>3. /\ UNCHANGED <<cp, submissions, renders, uploads, raced>>
        /\ call[c].pc = "acted" /\ call[c].at = "production"
        /\ status' = "pending" => status = "pending"
    BY <1>15 DEF ProductionEnds, In
  <2>4. CASE jobs' = Enqueued("poll") /\ Conclude(c, v)
    <3>1. JobsKept
      BY <2>4, EnqueuedKept DEF JobNames
    <3>2. ~raced => PollKept
      BY <2>3 DEF RaceInv, Seat, PollKept, Working, BeforeProduction
    <3>. HIDE DEF v
    <3>. QED
      BY <2>2, <2>3, <2>4, <3>1, <3>2, ConcludeStep DEF Working
  <2>5. CASE UNCHANGED jobs /\ Raise(c)
    BY <2>3, <2>5, PcStep DEF Raise, Working
  <2>. QED
    BY <1>15, <2>4, <2>5 DEF ProductionEnds
<1>16. ASSUME NEW c \in Callers, EditingTurn(c) PROVE RaceInv'
  <2>1. PICK used \in BOOLEAN :
            Acted(c, used) /\ renders' = IF used THEN renders + 1 ELSE renders
    BY <1>16 DEF EditingTurn
  <2>2. /\ UNCHANGED <<status, cp, jobs, submissions, uploads, raced>> /\ call[c].values.clips
        /\ call[c].pc = "node" /\ call[c].at = "editing"
    BY <1>16 DEF EditingTurn, In
  <2>3. ASSUME ~raced PROVE Once'
    <3>1. Once /\ renders = 0 /\ cp.next = "editing"
      BY <2>2, <2>3 DEF RaceInv, Seat, Unspent, Working
    <3>. QED
      BY <2>1, <2>2, <3>1 DEF Once, BeforeProduction, BeforeEditing, BeforePublishing
  <2>. QED
    BY <2>1, <2>2, <2>3, TurnStep
<1>17. ASSUME NEW c \in Callers, EditingEnds(c) PROVE RaceInv'
  <2>. DEFINE v == [call[c].values EXCEPT !.step = "wait_for_render", !.status = "awaiting_render"]
  <2>1. call[c].values \in Values
    BY DEF TypeOK, Call
  <2>2. v \in Values /\ v.status # "pending" /\ v.clips = call[c].values.clips
    BY <2>1 DEF Values, RunStatus, Terminal, Steps
  <2>3. UNCHANGED <<cp, jobs, submissions, renders, uploads, raced>> /\ call[c].at = "editing"
    BY <1>17 DEF EditingEnds, In
  <2>4. CASE call[c].pc = "acted" /\ status' = "awaiting_render" /\ Conclude(c, v)
    <3>. HIDE DEF v
    <3>. QED
      BY <2>2, <2>3, <2>4, ConcludeStep DEF Working, JobsKept, PollKept
  <2>5. CASE call[c].pc \in {"node", "acted"} /\ Raise(c) /\ UNCHANGED status
    BY <2>3, <2>5, PcStep DEF Raise, Working
  <2>. QED
    BY <1>17, <2>4, <2>5 DEF EditingEnds, In
<1>18. ASSUME NEW c \in Callers, PublishingTurn(c) PROVE RaceInv'
  <2>1. PICK used \in BOOLEAN : Acted(c, used) /\ IF used THEN UploadPost ELSE UNCHANGED uploads
    BY <1>18 DEF PublishingTurn
  <2>2. /\ UNCHANGED <<status, cp, jobs, submissions, renders, raced>>
        /\ call[c].pc = "node" /\ call[c].at = "publishing"
    BY <1>18 DEF PublishingTurn, In
  <2>3. ASSUME ~raced PROVE Once'
    <3>1. Once /\ uploads = 0 /\ cp.next = "publishing"
      BY <2>2, <2>3 DEF RaceInv, Seat, Unspent, Working
    <3>2. uploads' \in {0, 1}
      BY <2>1, <3>1 DEF UploadPost, Upload
    <3>. QED
      BY <2>2, <3>1, <3>2 DEF Once, BeforeProduction, BeforeEditing, BeforePublishing
  <2>. QED
    BY <2>1, <2>2, <2>3, TurnStep
<1>19. ASSUME NEW c \in Callers, PublishingPolls(c) PROVE RaceInv'
  BY <1>19, PcStep DEF PublishingPolls, In, Working
<1>20. ASSUME NEW c \in Callers, PublishingEnds(c) PROVE RaceInv'
  <2>. DEFINE v1 == [call[c].values EXCEPT !.status = "completed", !.step = "completed"]
              v2 == [call[c].values EXCEPT !.status = "failed"]
  <2>1. call[c].values \in Values
    BY DEF TypeOK, Call
  <2>2. /\ v1 \in Values /\ v1.status = "completed" /\ v1.clips = call[c].values.clips
        /\ v2 \in Values /\ v2.status = "failed" /\ v2.clips = call[c].values.clips
    BY <2>1 DEF Values, RunStatus, Terminal, Steps
  <2>3. /\ UNCHANGED <<cp, jobs, submissions, renders, uploads, raced>>
        /\ call[c].pc \in Working /\ call[c].at = "publishing"
        /\ status' = "pending" => status = "pending"
    BY <1>20 DEF PublishingEnds, PublishingCompletes, UrlKnown, PublishingFails, PublishingStops, In, Working
  <2>4. Conclude(c, v1) \/ Conclude(c, v2)
    BY <1>20 DEF PublishingEnds, PublishingCompletes, UrlKnown, PublishingFails, PublishingStops
  <2>. HIDE DEF v1, v2
  <2>. QED
    BY <2>2, <2>3, <2>4, ConcludeStep DEF Terminal, JobsKept, PollKept
<1>21. ASSUME NEW c \in Callers, Return(c) PROVE RaceInv'
  <2>1. /\ UNCHANGED <<cp, submissions, renders, uploads, raced, faults>>
        /\ call[c].pc = "returned" /\ Inside(call[c]) /\ JobDone(c)
    BY <1>21 DEF Return, Inside
  <2>2. status' \in {status, "rejected", call[c].values.status}
    BY <1>21 DEF Return
  <2>3. status' = "pending" => status = "pending"
    BY <2>2 DEF RaceInv, Local
  <2>4. ~raced /\ cp.next = "END" => status' \in Terminal
    <3>1. ~raced /\ cp.next = "END" => call[c].op # "execute" /\ call[c].values.status \in Terminal
      BY <2>1 DEF RaceInv, Seat
    <3>. QED
      BY <1>21, <3>1 DEF Return, Terminal
  <2>. QED
    BY <2>1, <2>3, <2>4, JobEndKept, LeaveStep
<1>22. ASSUME NEW c \in Callers, ReturnError(c) PROVE RaceInv'
  <2>1. /\ UNCHANGED <<cp, submissions, renders, uploads, raced, faults>>
        /\ call[c].pc = "raised" /\ Inside(call[c]) /\ (JobDone(c) \/ JobRetried(c))
        /\ status' \in {status, "failed"}
    BY <1>22 DEF ReturnError, Inside
  <2>2. ~raced => cp.next # "END"
    BY <2>1 DEF RaceInv, Seat
  <2>. QED
    BY <2>1, <2>2, JobEndKept, LeaveStep
<1>23. ASSUME NEW c \in Callers, Crash(c) PROVE RaceInv'
  <2>1. faults' # 0
    BY <1>23 DEF Crash, TypeOK
  <2>2. /\ UNCHANGED <<status, cp, jobs, submissions, renders, uploads, raced>> /\ Hangup(c)
    BY <1>23 DEF Crash
  <2>3. call'[c] = NoCall /\ \A d \in Callers \ {c} : call'[d] = call[d]
    BY <2>2 DEF Hangup, TypeOK
  <2>4. ~raced => Once' /\ Ending'
    BY <2>1, <2>2, OnceKept DEF Ending
  <2>. QED
    BY <2>2, <2>3, <2>4, NoCallIsFine, StayStep DEF JobsKept, PollKept
<1>24. ASSUME NEW c \in Callers, NEW o \in ApiOps, ApiCall(c, o) PROVE RaceInv'
  <2>1. /\ call'[c] = [NoCall EXCEPT !.op = o, !.pc = "found", !.id = cp.id]
        /\ \A d \in Callers \ {c} : call'[d] = call[d]
    BY <1>24 DEF ApiCall, TypeOK
  <2>2. /\ call'[c].op = o /\ call'[c].pc = "found" /\ call'[c].id = cp.id
        /\ call'[c].at = "START" /\ call'[c].values.status = "running" /\ ~call'[c].values.clips
    BY <2>1 DEF NoCall, InitialValues
  <2>3. o \notin JobNames /\ o # "execute" /\ o # "poll"
    BY DEF ApiOps, JobNames, HitlJobs
  <2>4. /\ UNCHANGED <<status, cp, jobs, submissions, renders, uploads, raced, faults>>
        /\ cp.parked /\ call[c].pc = "idle"
    BY <1>24 DEF ApiCall, Free
  <2>5. Local(call[c])' /\ Seat(call[c])'
    BY <2>2, <2>3, <2>4 DEF Local, Seat, Inside, Working
  <2>. QED
    BY <2>1, <2>2, <2>4, <2>5, ApproachStep DEF Inside, Working, JobsKept, PollKept
<1>25. ASSUME NEW j \in Decisions, RequestGate(j) PROVE RaceInv'
  <2>1. j \in JobNames /\ j # "poll"
    BY WorkflowAssumption DEF JobNames, HitlJobs
  <2>. QED
    BY <1>25, <2>1, EnqueuedKept, OutsideStep DEF RequestGate
<1>26. ASSUME ClipsArrive PROVE RaceInv'
  <2>1. JobsKept /\ PollKept
    BY <1>26, EnqueuedKept DEF ClipsArrive, JobsKept, PollKept, JobNames
  <2>. QED
    BY <1>26, <2>1, OutsideStep DEF ClipsArrive, Terminal
<1>27. ASSUME RenderArrives PROVE RaceInv'
  BY <1>27, EnqueuedKept, OutsideStep DEF RenderArrives, JobNames
<1>28. ASSUME RunFails PROVE RaceInv'
  BY <1>28, OutsideStep DEF RunFails, Stuck, JobsKept, PollKept, Terminal
<1>29. CASE UNCHANGED vars
  BY <1>29, OutsideStep DEF vars, JobsKept, PollKept
<1>. QED
  BY NextCases, <1>2, <1>3, <1>4, <1>5, <1>6, <1>7, <1>8, <1>9, <1>10,
     <1>11, <1>12, <1>13, <1>14, <1>15, <1>16, <1>17, <1>18, <1>19, <1>20,
     <1>21, <1>22, <1>23, <1>24, <1>25, <1>26, <1>27, <1>28, <1>29

-----------------------------------------------------------------------------
(* Theorems.                                                               *)

LEMMA RaceInvHolds == Spec => []RaceInv
<1>1. Init => RaceInv
  <2>. SUFFICES ASSUME Init PROVE RaceInv
    OBVIOUS
  <2>1. \A c \in Callers : Local(call[c]) /\ Seat(call[c]) /\ ~Inside(call[c])
    BY DEF Init, NoCall, InitialValues, Local, Seat, Inside, Working, JobNames, HitlJobs
  <2>2. cp.next = "START" /\ ~cp.parked /\ cp.values.status = "running" /\ ~cp.values.clips
    BY DEF Init, InitialValues
  <2>3. Alone
    BY <2>1 DEF Alone
  <2>4. Once
    BY DEF Init, Once
  <2>5. Late
    BY <2>2 DEF Init, Late, JobNames
  <2>6. Started /\ Ending
    BY <2>2 DEF Started, Ending
  <2>. QED
    BY <2>1, <2>2, <2>3, <2>4, <2>5, <2>6 DEF RaceInv
<1>2. TypeOK /\ RaceInv /\ [Next]_vars => RaceInv'
  BY RaceStep
<1>. QED
  BY TypeCorrect, <1>1, <1>2, PTL DEF Spec

\* However many calls, crashes, lapsed leases, retries and repeated decisions
\* there are: sora_generate, remotion_render and upload_post are paid for a
\* second time only if two calls have driven the thread of the run at once.
THEOREM SpendingTwiceNeedsRace == Spec => []SecondSpendNeedsRace
<1>1. TypeOK /\ RaceInv => SecondSpendNeedsRace
  BY DEF TypeOK, RaceInv, Once, SecondSpendNeedsRace
<1>. QED
  BY TypeCorrect, RaceInvHolds, <1>1, PTL

\* Without races and crashes, the row of a run whose thread has reached END
\* shows how it ended once every call is back.
THEOREM EndingIsProjected == Spec => []EndIsProjected
<1>1. RaceInv => EndIsProjected
  BY DEF RaceInv, Ending, EndIsProjected, Quiet, Free, Inside, Working
<1>. QED
  BY RaceInvHolds, <1>1, PTL

-----------------------------------------------------------------------------
(* The handlers and the graph rely on no more than AtLeastOnce.            *)

\* A caller that is free executes nothing.
FreeIsOut == \A c \in Callers : Free(c) => call[c].op = "none"

State     == [j \in Delivered |-> jobs[j]]
Executed  == [j \in Delivered |-> {c \in Callers : call[c].op = j}]
Starts    == [j \in Delivered |-> tries[j]]

\* Steps inside of the handlers and the graph.
LEMMA PromiseStutter ==
    ASSUME CallsOK, CallsOK',
           \A c \in Callers : call'[c].op = call[c].op,
           \A j \in Delivered : jobs'[j] = jobs[j] /\ tries'[j] = tries[j]
    PROVE  UNCHANGED Promise!vars
  BY DEF Promise!vars

\* A job is submitted, or was before.
LEMMA PromiseSubmits ==
    ASSUME CallsOK, JobsOK, NEW j \in Delivered, jobs' = Enqueued(j),
           \A c \in Callers : call'[c].op = call[c].op, tries' = tries
    PROVE  [Promise!Next]_(Promise!vars)
<1>1. CASE jobs[j] = "absent"
  <2>1. Promise!Submit(j)
    BY <1>1 DEF Promise!Submit, Enqueued, JobsOK, Delivered
  <2>. QED
    BY <2>1 DEF Promise!Next
<1>2. CASE jobs[j] # "absent"
  BY <1>2 DEF Enqueued, JobsOK, Delivered, Promise!vars
<1>. QED
  BY <1>1, <1>2

\* A caller is back, and the row of its job gets the state `verdict'.
LEMMA PromiseEnds ==
    ASSUME CallsOK, JobsOK, NEW c \in Callers, Hangup(c), tries' = tries,
           NEW verdict \in {"open", "done", "dead"},
           jobs' = IF call[c].op \in JobNames THEN [jobs EXCEPT ![call[c].op] = verdict] ELSE jobs,
           (call[c].op \in Delivered /\ verdict = "dead") => tries[call[c].op] >= MaxTries
    PROVE  [Promise!Next]_(Promise!vars)
<1>. DEFINE o == call[c].op
<1>1. \A d \in Callers : call'[d].op = IF d = c THEN "none" ELSE call[d].op
  BY DEF Hangup, CallsOK, NoCall
<1>2. "none" \notin Delivered /\ Delivered \subseteq JobNames
  BY DEF Delivered, JobNames, HitlJobs
<1>3. CASE o \in Delivered
  <2>1. State' = [State EXCEPT ![o] = verdict]
    BY <1>2, <1>3 DEF State, JobsOK
  <2>2. Executed' = [Executed EXCEPT ![o] = @ \ {c}]
    BY <1>1, <1>2, <1>3 DEF Executed
  <2>3. Starts' = Starts /\ Starts[o] = tries[o] /\ c \in Executed[o]
    BY <1>3 DEF Starts, Executed
  <2>4. Promise!End(o, c, verdict)
    BY <1>3, <2>1, <2>2, <2>3 DEF Promise!End, State, Executed, Starts
  <2>. QED
    BY <1>3, <2>4 DEF Promise!Next
<1>4. CASE o \notin Delivered
  <2>1. State' = State
    BY <1>2, <1>4 DEF State, JobsOK
  <2>2. Executed' = Executed
    BY <1>1, <1>2, <1>4 DEF Executed
  <2>3. Starts' = Starts
    BY DEF Starts
  <2>. QED
    BY <2>1, <2>2, <2>3 DEF Promise!vars, State, Executed, Starts
<1>. QED
  BY <1>3, <1>4

LEMMA PromiseDone ==
    ASSUME CallsOK, JobsOK, NEW c \in Callers, JobDone(c), tries' = tries
    PROVE  [Promise!Next]_(Promise!vars)
  BY PromiseEnds DEF JobDone

LEMMA PromiseRetried ==
    ASSUME CallsOK, JobsOK, NEW c \in Callers, JobRetried(c), tries' = tries
    PROVE  [Promise!Next]_(Promise!vars)
<1>. DEFINE verdict == IF tries[call[c].op] >= MaxTries THEN "dead" ELSE "open"
<1>1. verdict \in {"open", "done", "dead"} /\ (verdict = "dead" => tries[call[c].op] >= MaxTries)
  OBVIOUS
<1>2. Hangup(c)
  BY DEF JobRetried
<1>3. jobs' = IF call[c].op \in JobNames THEN [jobs EXCEPT ![call[c].op] = verdict] ELSE jobs
  BY DEF JobRetried
<1>. HIDE DEF verdict
<1>. QED
  BY <1>1, <1>2, <1>3, PromiseEnds

\* A worker starts on a job.
LEMMA PromiseTaken ==
    ASSUME CallsOK, JobsOK, FreeIsOut, NEW c \in Callers, NEW j \in JobNames, TakeJob(c, j)
    PROVE  [Promise!Next]_(Promise!vars)
<1>1. \A d \in Callers : call'[d].op = IF d = c THEN j ELSE call[d].op
  BY DEF TakeJob, CallsOK, NoCall
<1>2. "none" \notin Delivered /\ Delivered \subseteq JobNames /\ "poll" \notin Delivered
  BY DEF Delivered, JobNames, HitlJobs
<1>3. State' = State
  BY DEF TakeJob, State
<1>4. Free(c) /\ call[c].op = "none"
  BY DEF TakeJob, FreeIsOut
<1>5. CASE j \in Delivered
  <2>1. Executed' = [Executed EXCEPT ![j] = @ \cup {c}]
    BY <1>1, <1>2, <1>4, <1>5 DEF Executed
  <2>2. Starts' = [Starts EXCEPT ![j] = @ + 1]
    BY <1>2, <1>5 DEF TakeJob, Starts, JobsOK
  <2>3. Promise!Free(c)
    BY <1>2, <1>4 DEF Promise!Free
  <2>4. State[j] = "open"
    BY <1>5 DEF TakeJob, State
  <2>5. Promise!Start(j, c)
    BY <1>3, <2>1, <2>2, <2>3, <2>4 DEF Promise!Start, State, Executed, Starts
  <2>. QED
    BY <1>5, <2>5 DEF Promise!Next
<1>6. CASE j \notin Delivered
  <2>1. Executed' = Executed
    BY <1>1, <1>2, <1>4, <1>6 DEF Executed
  <2>2. Starts' = Starts
    BY <1>2, <1>6 DEF TakeJob, Starts, JobsOK
  <2>. QED
    BY <1>3, <2>1, <2>2 DEF Promise!vars, State, Executed, Starts
<1>. QED
  BY <1>5, <1>6

LEMMA PromiseCrash ==
    ASSUME CallsOK, JobsOK, NEW c \in Callers, Crash(c)
    PROVE  [Promise!Next]_(Promise!vars)
<1>1. \A d \in Callers : call'[d].op = IF d = c THEN "none" ELSE call[d].op
  BY DEF Crash, Hangup, CallsOK, NoCall
<1>2. "none" \notin Delivered
  BY DEF Delivered, JobNames, HitlJobs
<1>3. Executed' = [j \in Delivered |-> Executed[j] \ {c}]
  BY <1>1, <1>2 DEF Executed
<1>4. State' = State /\ Starts' = Starts
  BY DEF Crash, State, Starts
<1>5. Promise!Lose({c})
  BY <1>3, <1>4 DEF Promise!Lose, State, Executed, Starts
<1>. QED
  BY <1>5 DEF Promise!Next

\* No call changes the job it is about, and none ends.
OpsKept ==
    \A c \in Callers : /\ call'[c].op = call[c].op
                       /\ Free(c)' => Free(c)

Busy == Pc \ {"idle"}

\* The ways the handlers and the graph write the record of a call.
LEMMA PcKeepsOps ==
    ASSUME TypeOK, NEW c \in Callers, NEW p \in Busy, call' = [call EXCEPT ![c].pc = p]
    PROVE  OpsKept
  BY PcFields DEF Pc, Busy, OpsKept, Free

LEMMA FoundKeepsOps ==
    ASSUME TypeOK, NEW c \in Callers, Finds(c)
    PROVE  OpsKept
  BY FoundFields DEF OpsKept, Free

LEMMA ActedKeepsOps ==
    ASSUME TypeOK, NEW c \in Callers, NEW used \in BOOLEAN, Acted(c, used)
    PROVE  OpsKept
  BY ActedFields DEF OpsKept, Free

LEMMA ValuesKeepOps ==
    ASSUME TypeOK, NEW c \in Callers, NEW p \in Busy, NEW v \in Values, Writes(c, p, v)
    PROVE  OpsKept
  BY ValuesFields DEF Pc, Busy, OpsKept, Free

LEMMA NodeKeepsOps ==
    ASSUME TypeOK, NEW c \in Callers, NEW p \in Busy, NEW n \in Nodes, NEW v \in Values,
           call' = [call EXCEPT ![c].pc = p, ![c].at = n, ![c].values = v]
    PROVE  OpsKept
<1>1. call' = [call EXCEPT ![c] = [call[c] EXCEPT !.pc = p, !.at = n, !.values = v]]
  BY DEF TypeOK
<1>2. call'[c] = [call[c] EXCEPT !.pc = p, !.at = n, !.values = v] /\ call[c] \in Call
  BY <1>1 DEF TypeOK
<1>3. call'[c].pc = p /\ call'[c].op = call[c].op
  <2>1. ASSUME NEW r \in Call
        PROVE  /\ [r EXCEPT !.pc = p, !.at = n, !.values = v].pc = p
               /\ [r EXCEPT !.pc = p, !.at = n, !.values = v].op = r.op
    BY DEF Call
  <2>. HIDE DEF TypeOK
  <2>. QED
    BY <1>2, <2>1
<1>4. \A d \in Callers \ {c} : call'[d] = call[d]
  BY <1>1 DEF TypeOK
<1>. QED
  BY <1>3, <1>4 DEF Busy, OpsKept, Free

LEMMA ProceedKeepsOps ==
    ASSUME TypeOK, NEW c \in Callers, NEW n \in Nodes, NEW v \in Values, Proceed(c, n, v)
    PROVE  OpsKept
  BY ProceedFields DEF OpsKept, Free

\* A call that goes on keeps its job.
LEMMA AnswerKeepsOp ==
    ASSUME TypeOK, NEW c \in Callers, Answer(c)
    PROVE  OpsKept
<1>. DEFINE v == cp.values
<1>1. v \in Values
  BY DEF TypeOK, Checkpoint
<1>2. CASE KeepWaiting(c, v)
  BY <1>1, <1>2, ValuesKeepOps DEF KeepWaiting, Writes, Pc, Busy
<1>3. CASE \E n \in Nodes, w \in Values : Proceed(c, n, w)
  BY <1>3, ProceedKeepsOps
<1>4. CASE call' = [call EXCEPT ![c].pc = "raised"] /\ UNCHANGED cp
  BY <1>4, PcKeepsOps DEF Pc, Busy
<1>. QED
  BY <1>1, <1>2, <1>3, <1>4, ValuesType
   DEF Answer, AnswerIdeation, AnswerPublish, AnswerVideos, AnswerRender, StopWaiting, Nodes,
       WorkNodes, Interrupts, Waits, RunStatus, Terminal, Steps

Stays == OpsKept /\ UNCHANGED tries /\ \A j \in Delivered : jobs'[j] = jobs[j]
Ends(c) == UNCHANGED tries /\ (JobDone(c) \/ JobRetried(c))

LEMMA StaysPromise ==
    ASSUME CallsOK, CallsOK', FreeIsOut, Stays
    PROVE  UNCHANGED Promise!vars /\ FreeIsOut'
<1>1. FreeIsOut'
  BY DEF FreeIsOut, Stays, OpsKept
<1>2. UNCHANGED Promise!vars
  BY PromiseStutter DEF Stays, OpsKept, JobsOK
<1>. QED
  BY <1>1, <1>2

LEMMA EndsPromise ==
    ASSUME CallsOK, JobsOK, FreeIsOut, NEW c \in Callers, Ends(c)
    PROVE  [Promise!Next]_(Promise!vars) /\ FreeIsOut'
<1>1. FreeIsOut'
  BY DEF Ends, JobDone, JobRetried, Hangup, FreeIsOut, Free, CallsOK, NoCall
<1>. QED
  BY <1>1, PromiseDone, PromiseRetried DEF Ends

\* Every step of the workflow is one the promise of the queue allows.
LEMMA PromiseStep ==
    ASSUME TypeOK, TypeOK', FreeIsOut, [Next]_vars
    PROVE  [Promise!Next]_(Promise!vars) /\ FreeIsOut'
<1>. DEFINE Goal == [Promise!Next]_(Promise!vars) /\ FreeIsOut'
<1>0. CallsOK /\ CallsOK' /\ JobsOK /\ cp \in Checkpoint
  BY DEF TypeOK, CallsOK, JobsOK
<1>. USE DEF spent, stored, history, bounds
<1>s. Stays => Goal
  BY <1>0, StaysPromise
<1>e. \A c \in Callers : Ends(c) => Goal
  BY <1>0, EndsPromise
<1>1. ASSUME NEW c \in Callers, NEW j \in JobNames, TakeJob(c, j) PROVE Goal
  <2>1. FreeIsOut'
    BY <1>0, <1>1 DEF TakeJob, FreeIsOut, Free, CallsOK, NoCall
  <2>. QED
    BY <1>0, <1>1, <2>1, PromiseTaken
<1>2. ASSUME NEW c \in Callers, NEW o, NEW s, CheckRow(c, o, s) PROVE Stays \/ Ends(c)
  BY <1>2, PcKeepsOps DEF CheckRow, Stays, Ends, Pc, Busy
<1>3. ASSUME NEW c \in Callers, StartGraph(c) PROVE Stays
  <2>1. [cp.values EXCEPT !.status = "running", !.step = "ideation"] \in Values
    BY <1>0, ValuesType DEF Checkpoint, RunStatus, Steps
  <2>. QED
    BY <1>3, <2>1, NodeKeepsOps DEF StartGraph, Stays, Pc, Busy, Nodes, WorkNodes
<1>4. ASSUME NEW c \in Callers, FindGate(c) \/ FindWait(c) PROVE Stays \/ Ends(c)
  BY <1>4, FoundKeepsOps DEF FindGate, FindWait, Finds, Stays, Ends
<1>5. ASSUME NEW c \in Callers, PollEnds(c) PROVE Goal
  <2>1. At(c, {"poll"}, "checked") /\ Hangup(c) /\ UNCHANGED tries
    BY <1>5 DEF PollEnds, JobDone
  <2>2. FreeIsOut'
    BY <1>0, <2>1 DEF Hangup, FreeIsOut, Free, CallsOK, NoCall
  <2>3. \A j \in Delivered : {d \in Callers : call'[d].op = j} = {d \in Callers : call[d].op = j}
    BY <1>0, <2>1 DEF At, Hangup, Delivered, JobNames, HitlJobs, CallsOK, NoCall
  <2>4. CASE \A j \in Delivered : jobs'[j] = jobs[j]
    BY <2>1, <2>2, <2>3, <2>4 DEF Promise!vars
  <2>5. CASE /\ jobs["videos"] = "absent"
             /\ jobs' = [jobs EXCEPT !["videos"] = "open", !["poll"] = "done"]
    <3>1. Promise!Submit("videos")
      BY <1>0, <2>1, <2>3, <2>5 DEF Promise!Submit, JobsOK, Delivered, JobNames
    <3>. QED
      BY <2>2, <3>1 DEF Promise!Next, Delivered, JobNames
  <2>. QED
    BY <1>0, <1>5, <2>1, <2>4, <2>5 DEF PollEnds, JobDone, At, Delivered, JobsOK
<1>6. ASSUME NEW c \in Callers, Resume(c) PROVE Stays
  <2>1. cp.values \in Values /\ cp.next \in Nodes
    BY <1>0 DEF Checkpoint
  <2>2. UNCHANGED <<tries, jobs>> /\ (OpsKept => Stays)
    BY <1>6 DEF Resume, Stays
  <2>3. OpsKept
    <3>1. CASE Answer(c)
      BY <3>1, AnswerKeepsOp
    <3>2. CASE \E p \in Busy : call' = [call EXCEPT ![c].pc = p, ![c].at = cp.next, ![c].values = cp.values]
      BY <3>2, <2>1, NodeKeepsOps
    <3>. QED
      BY <1>6, <3>1, <3>2 DEF Resume, Busy, Pc
  <2>. QED
    BY <2>2, <2>3
<1>7. ASSUME NEW c \in Callers, Advance(c) PROVE Stays
  <2>1. call[c].values \in Values /\ Successor(call[c].at) \in Nodes
    BY <1>0 DEF CallsOK, Call, Successor, Nodes, WorkNodes, Interrupts, Waits
  <2>. QED
    BY <1>7, <2>1, ProceedKeepsOps DEF Advance, Stays
<1>8. ASSUME NEW c \in Callers,
             \/ \E used \in BOOLEAN : Acted(c, used)
             \/ Raise(c)
             \/ \E v \in Values : Conclude(c, v)
             \/ call' = [call EXCEPT ![c].pc = "polling"]
      PROVE  OpsKept
  BY <1>8, PcKeepsOps, ActedKeepsOps, ValuesKeepOps DEF Raise, Conclude, Writes, Pc, Busy
<1>9. ASSUME NEW c \in Callers
      PROVE  /\ call[c].values \in Values
             /\ \A st \in RunStatus, x \in Steps :
                  /\ [call[c].values EXCEPT !.status = st] \in Values
                  /\ [call[c].values EXCEPT !.status = st, !.step = x] \in Values
                  /\ [call[c].values EXCEPT !.step = x, !.status = st] \in Values
  BY <1>0, ValuesType DEF CallsOK, Call
<1>10. ASSUME NEW c \in Callers,
              \/ Ideation(c) \/ ProductionTurn(c) \/ ProductionRefused(c)
              \/ EditingTurn(c) \/ EditingEnds(c)
       PROVE  Stays
  <2>1. UNCHANGED <<tries, jobs>> /\ (OpsKept => Stays)
    BY <1>10 DEF Ideation, ProductionTurn, ProductionRefused, EditingTurn, EditingEnds, Stays
  <2>2. CASE Ideation(c)
    BY <1>8, <1>9, <2>1, <2>2 DEF Ideation, RunStatus, Terminal, Steps
  <2>3. CASE EditingEnds(c)
    BY <1>8, <1>9, <2>1, <2>3 DEF EditingEnds, RunStatus, Terminal, Steps
  <2>4. CASE ProductionTurn(c) \/ ProductionRefused(c) \/ EditingTurn(c)
    BY <1>8, <2>1, <2>4 DEF ProductionTurn, ProductionRefused, EditingTurn
  <2>. QED
    BY <1>10, <2>2, <2>3, <2>4
<1>11. ASSUME NEW c \in Callers, PublishingTurn(c) \/ PublishingPolls(c) \/ PublishingEnds(c)
       PROVE  Stays
  <2>1. UNCHANGED <<tries, jobs>> /\ (OpsKept => Stays)
    BY <1>11 DEF PublishingTurn, PublishingPolls, PublishingEnds, Stays
  <2>2. OpsKept
    BY <1>8, <1>9, <1>11
     DEF PublishingTurn, PublishingPolls, PublishingEnds, PublishingCompletes, PublishingFails,
         PublishingStops, RunStatus, Terminal, Steps
  <2>. QED
    BY <2>1, <2>2
<1>12. ASSUME NEW c \in Callers, ProductionEnds(c) PROVE Stays
  <2>1. OpsKept
    BY <1>8, <1>9, <1>12 DEF ProductionEnds, RunStatus, Terminal, Steps
  <2>2. UNCHANGED tries /\ \A j \in Delivered : jobs'[j] = jobs[j]
    BY <1>0, <1>12 DEF ProductionEnds, Enqueued, Delivered, JobsOK
  <2>. QED
    BY <2>1, <2>2 DEF Stays
<1>13. ASSUME NEW c \in Callers, Return(c) \/ ReturnError(c) PROVE Ends(c)
  BY <1>13 DEF Return, ReturnError, Ends
<1>14. ASSUME NEW c \in Callers, Crash(c) PROVE Goal
  <2>1. FreeIsOut'
    BY <1>0, <1>14 DEF Crash, Hangup, FreeIsOut, Free, CallsOK, NoCall
  <2>. QED
    BY <1>0, <1>14, <2>1, PromiseCrash
<1>15. ASSUME NEW c \in Callers, NEW o \in ApiOps, ApiCall(c, o) PROVE Goal
  <2>1. \A d \in Callers \ {c} : call'[d] = call[d]
    BY <1>0, <1>15 DEF ApiCall, CallsOK
  <2>2. call'[c].op = o /\ call'[c].pc = "found"
    BY <1>0, <1>15 DEF ApiCall, CallsOK, NoCall
  <2>3. o \notin Delivered /\ call[c].op \notin Delivered
    BY <1>15 DEF ApiCall, FreeIsOut, Delivered, JobNames, HitlJobs, ApiOps
  <2>4. \A j \in Delivered : {d \in Callers : call'[d].op = j} = {d \in Callers : call[d].op = j}
    BY <2>1, <2>2, <2>3
  <2>5. FreeIsOut'
    BY <2>1, <2>2 DEF FreeIsOut, Free
  <2>. QED
    BY <1>15, <2>4, <2>5 DEF ApiCall, Promise!vars
<1>16. ASSUME NEW j \in Delivered, jobs' = Enqueued(j), UNCHANGED <<tries, call>> PROVE Goal
  BY <1>0, <1>16, PromiseSubmits DEF FreeIsOut, Free
<1>17. ASSUME UNCHANGED <<jobs, tries, call>> PROVE Stays
  BY <1>17 DEF Stays, OpsKept, Free
<1>18. ASSUME NEW j \in Decisions, RequestGate(j) PROVE Goal
  BY <1>16, <1>18, WorkflowAssumption DEF RequestGate, Delivered, JobNames, HitlJobs
<1>19. ASSUME ClipsArrive \/ RenderArrives \/ RunFails PROVE Goal
  BY <1>s, <1>16, <1>17, <1>19 DEF ClipsArrive, RenderArrives, RunFails, Delivered, JobNames
<1>20. ASSUME UNCHANGED vars PROVE Stays
  BY <1>17, <1>20 DEF vars
<1>21. ASSUME NEW c \in Callers, CheckExecute(c) \/ CheckGate(c) \/ CheckPoll(c) PROVE Stays \/ Ends(c)
  BY <1>2, <1>21 DEF CheckExecute, CheckGate, CheckPoll
<1>. HIDE DEF Goal
<1>. QED
  BY NextCases, <1>s, <1>e, <1>1, <1>3, <1>4, <1>5, <1>6, <1>7, <1>10, <1>11, <1>12, <1>13, <1>14,
     <1>15, <1>18, <1>19, <1>20, <1>21 DEF Goal

\* The workflow relies on no more than AtLeastOnce: whatever a handler does
\* before it is back, its job is settled when it is back and not before, one
\* that nobody executes is left alone, and none is given up before its last
\* attempt.
THEOREM JobsKeepPromise == Spec => PromiseRelied
<1>1. Init => FreeIsOut
  BY DEF Init, FreeIsOut, NoCall
<1>2. Init => Promise!Init
  BY DEF Init, NoCall, Promise!Init, Delivered, JobNames, HitlJobs
<1>3. TypeOK /\ TypeOK' /\ FreeIsOut /\ [Next]_vars => [Promise!Next]_(Promise!vars) /\ FreeIsOut'
  BY PromiseStep
<1>. QED
  BY TypeCorrect, <1>1, <1>2, <1>3, PTL DEF Spec, PromiseRelied, Promise!Spec

-----------------------------------------------------------------------------
(* Which way a thread goes.                                                *)

\* Only three kinds of steps write a checkpoint.
Writers == \E c \in Callers : StartGraph(c) \/ Resume(c) \/ Advance(c)

LEMMA OthersKeepThread ==
    ASSUME [Next]_vars, ~Writers
    PROVE  cp' = cp
<1>. USE DEF spent, stored, history, bounds
<1>1. ASSUME NEW c \in Callers, NEW j \in JobNames, TakeJob(c, j) PROVE cp' = cp
  BY <1>1 DEF TakeJob
<1>2. ASSUME NEW c \in Callers, CheckExecute(c) \/ CheckGate(c) \/ CheckPoll(c) PROVE cp' = cp
  BY <1>2 DEF CheckExecute, CheckGate, CheckPoll, CheckRow
<1>3. ASSUME NEW c \in Callers, FindGate(c) \/ FindWait(c) \/ PollEnds(c) PROVE cp' = cp
  BY <1>3 DEF FindGate, FindWait, PollEnds
<1>4. ASSUME NEW c \in Callers,
             Ideation(c) \/ ProductionTurn(c) \/ ProductionRefused(c) \/ ProductionEnds(c)
      PROVE  cp' = cp
  BY <1>4 DEF Ideation, ProductionTurn, ProductionRefused, ProductionEnds
<1>5. ASSUME NEW c \in Callers, EditingTurn(c) \/ EditingEnds(c) PROVE cp' = cp
  BY <1>5 DEF EditingTurn, EditingEnds
<1>6. ASSUME NEW c \in Callers, PublishingTurn(c) \/ PublishingPolls(c) \/ PublishingEnds(c)
      PROVE  cp' = cp
  BY <1>6 DEF PublishingTurn, PublishingPolls, PublishingEnds
<1>7. ASSUME NEW c \in Callers, Return(c) \/ ReturnError(c) \/ Crash(c) PROVE cp' = cp
  BY <1>7 DEF Return, ReturnError, Crash
<1>8. ASSUME NEW c \in Callers, NEW o \in ApiOps, ApiCall(c, o) PROVE cp' = cp
  BY <1>8 DEF ApiCall
<1>9. ASSUME NEW j \in Decisions, RequestGate(j) PROVE cp' = cp
  BY <1>9 DEF RequestGate
<1>10. CASE ClipsArrive \/ RenderArrives \/ RunFails
  BY <1>10 DEF ClipsArrive, RenderArrives, RunFails
<1>11. CASE UNCHANGED vars
  BY <1>11 DEF vars
<1>. QED
  BY NextCases, <1>1, <1>2, <1>3, <1>4, <1>5, <1>6, <1>7, <1>8, <1>9, <1>10, <1>11 DEF Writers

\* Where an answer may take the thread.
LEMMA AnswerGoesOn ==
    ASSUME NEW c \in Callers, cp \in Checkpoint, cp.next \in Interrupts, Answer(c)
    PROVE  cp'.next = cp.next \/ <<cp.next, cp'.next>> \in
              {<<"ideation_approval", "production">>, <<"ideation_approval", "END">>,
               <<"wait_for_videos", "editing">>, <<"wait_for_render", "publish_approval">>,
               <<"publish_approval", "publishing">>, <<"publish_approval", "END">>}
<1>0. ASSUME NEW n, NEW v, Proceed(c, n, v) PROVE cp'.next = n
  BY <1>0 DEF Proceed
<1>1. CASE cp.next = "ideation_approval"
  <2>1. AnswerIdeation(c, cp.values)
    BY <1>1 DEF Answer, Waits
  <2>2. cp'.next \in {"production", "END"}
    BY <1>0, <2>1 DEF AnswerIdeation
  <2>. QED
    BY <1>1, <2>2
<1>2. CASE cp.next = "publish_approval"
  <2>1. AnswerPublish(c, cp.values)
    BY <1>2 DEF Answer, Waits
  <2>2. cp'.next \in {"publishing", "END"}
    BY <1>0, <2>1 DEF AnswerPublish
  <2>. QED
    BY <1>2, <2>2
<1>3. ASSUME NEW v, KeepWaiting(c, v) PROVE cp'.next = cp.next
  BY <1>3 DEF KeepWaiting, Checkpoint
<1>4. ASSUME NEW v, StopWaiting(c, v)
      PROVE  cp'.next \in {cp.next, IF cp.next = "wait_for_videos" THEN "editing" ELSE "publish_approval"}
  BY <1>0, <1>4 DEF StopWaiting
<1>5. CASE cp.next = "wait_for_videos"
  <2>1. \E v : StopWaiting(c, v) \/ AnswerVideos(c, v) \/ KeepWaiting(c, v)
    BY <1>5 DEF Answer, Waits
  <2>2. cp'.next \in {cp.next, "editing"}
    BY <1>0, <1>3, <1>4, <1>5, <2>1 DEF AnswerVideos
  <2>. QED
    BY <1>5, <2>2
<1>6. CASE cp.next = "wait_for_render"
  <2>1. \E v : StopWaiting(c, v) \/ AnswerRender(c, v) \/ KeepWaiting(c, v)
    BY <1>6 DEF Answer, Waits
  <2>2. cp'.next \in {cp.next, "publish_approval"}
    BY <1>0, <1>3, <1>4, <1>6, <2>1 DEF AnswerRender
  <2>. QED
    BY <1>6, <2>2
<1>. QED
  BY <1>1, <1>2, <1>5, <1>6 DEF Interrupts, Waits

Forward == /\ cp'.next # cp.next => Place(cp.next) < Place(cp'.next)
           /\ cp.next = "END" => cp' = cp

LEMMA ForwardStep ==
    ASSUME TypeOK, RaceInv, [Next]_vars, ~raced'
    PROVE  Forward
<1>0. cp \in Checkpoint
  BY DEF TypeOK
<1>1. CASE ~Writers
  BY <1>1, OthersKeepThread DEF Forward
<1>2. ASSUME NEW c \in Callers, StartGraph(c) PROVE Forward
  <2>1. ~raced /\ call[c].op = "execute" /\ call[c].pc = "checked"
    BY <1>2 DEF StartGraph, Enter, At, TypeOK
  <2>2. cp.next = "START"
    BY <2>1 DEF RaceInv, Seat
  <2>3. cp'.next = "ideation"
    BY <1>0, <1>2 DEF StartGraph, Checkpoint
  <2>. QED
    BY <2>2, <2>3 DEF Forward, Place
<1>3. ASSUME NEW c \in Callers, Resume(c) PROVE Forward
  <2>1. ~raced /\ call[c].pc = "found"
    BY <1>3 DEF Resume, Enter, TypeOK
  <2>2. cp.next \in Interrupts
    BY <2>1 DEF RaceInv, Seat
  <2>3. CASE Answer(c)
    BY <1>0, <2>2, <2>3, AnswerGoesOn DEF Forward, Place, Interrupts, Waits
  <2>4. CASE cp' = cp
    BY <2>4 DEF Forward
  <2>. QED
    BY <1>3, <2>3, <2>4 DEF Resume
<1>4. ASSUME NEW c \in Callers, Advance(c) PROVE Forward
  <2>1. ~raced /\ call[c].pc = "concluded"
    BY <1>4 DEF Advance, history, TypeOK
  <2>2. cp.next = call[c].at /\ cp.next \in WorkNodes
    BY <2>1 DEF RaceInv, Seat, Working
  <2>3. cp'.next = Successor(cp.next)
    BY <1>4, <2>2 DEF Advance, Proceed
  <2>. QED
    BY <2>2, <2>3 DEF Forward, Place, Successor, WorkNodes
<1>. QED
  BY <1>1, <1>2, <1>3, <1>4 DEF Writers

\* With any number of calls, attempts and crashes: a thread that two calls have not driven
\* at once never goes back, and nothing touches it once it has ended.
THEOREM ThreadsGoForward == Spec => ThreadGoesForward
<1>1. TypeOK /\ RaceInv /\ [Next]_vars => (~raced' => Forward)
  BY ForwardStep
<1>. QED
  BY TypeCorrect, RaceInvHolds, <1>1, PTL DEF Spec, ThreadGoesForward, Forward

-----------------------------------------------------------------------------
(* What a completed run has behind it.                                     *)

\* What values say of the run has happened.
Known(v) ==
    /\ v.clips => submissions > 0
    /\ v.final => renders > 0
    /\ v.status = "completed" => published

\* So have the uses of the tools by the turns that the call is in.
Whole(r) ==
    /\ Known(r.values)
    /\ r.at = "production" /\ r.pc = "acted" /\ r.used => submissions > 0
    /\ r.at = "publishing" /\ (r.pc = "polling" \/ (r.pc = "acted" /\ r.used)) => uploads > 0

\* Each thing that happens to a run presupposes the one before it.
Chain ==
    /\ clipsIn \/ jobs["poll"] # "absent" \/ jobs["videos"] # "absent" => submissions > 0
    /\ renders > 0 => submissions > 0
    /\ jobs["render"] # "absent" => renders > 0
    /\ uploads > 0 => renders > 0
    /\ published => uploads > 0
    /\ status = "completed" => published

WholeInv == Chain /\ Known(cp.values) /\ \A c \in Callers : Whole(call[c])

\* Nothing that has happened is undone.
Grows ==
    /\ submissions > 0 => submissions' > 0
    /\ renders > 0 => renders' > 0
    /\ uploads > 0 => uploads' > 0
    /\ published => published'

SameJobs == \A j \in JobNames : jobs'[j] # "absent" <=> jobs[j] # "absent"

LEMMA OneCall ==
    ASSUME WholeInv, Grows, Chain', Known(cp.values)', NEW c \in Callers,
           Whole(call[c])', \A d \in Callers \ {c} : call'[d] = call[d]
    PROVE  WholeInv'
<1>1. ASSUME NEW d \in Callers \ {c} PROVE Whole(call[d])'
  BY DEF WholeInv, Whole, Known, Grows
<1>. QED
  BY <1>1 DEF WholeInv

\* A call that leaves the thread and the providers as they are.
LEMMA AsideWhole ==
    ASSUME WholeInv, SameJobs, UNCHANGED <<cp, submissions, renders, uploads, clipsIn, published>>,
           status' = "completed" => status = "completed" \/ published,
           NEW c \in Callers, Whole(call[c])', \A d \in Callers \ {c} : call'[d] = call[d]
    PROVE  WholeInv'
<1>1. Grows /\ Chain' /\ Known(cp.values)'
  BY DEF WholeInv, Grows, Chain, Known, SameJobs, JobNames, HitlJobs
<1>. QED
  BY <1>1, OneCall

\* A call that reads or writes the thread and does nothing else.
LEMMA ThreadWhole ==
    ASSUME WholeInv, UNCHANGED <<jobs, submissions, renders, uploads, clipsIn, published>>,
           status' = "completed" => status = "completed",
           Known(cp.values)',
           NEW c \in Callers, Whole(call[c])', \A d \in Callers \ {c} : call'[d] = call[d]
    PROVE  WholeInv'
<1>1. Grows /\ Chain'
  BY DEF WholeInv, Grows, Chain
<1>. QED
  BY <1>1, OneCall

LEMMA NoCallIsWhole == Whole(NoCall)
  BY DEF Whole, Known, NoCall, InitialValues

\* A call that ends.
LEMMA EndWhole ==
    ASSUME TypeOK, GateInv, WholeInv, NEW c \in Callers, JobDone(c) \/ JobRetried(c),
           UNCHANGED <<cp, submissions, renders, uploads, clipsIn, published>>,
           status' = "completed" => status = "completed" \/ published
    PROVE  WholeInv'
<1>1. call'[c] = NoCall /\ \A d \in Callers \ {c} : call'[d] = call[d]
  BY DEF JobDone, JobRetried, Hangup, TypeOK
<1>2. Whole(call[c])'
  BY <1>1 DEF Whole, Known, NoCall, InitialValues
<1>3. PICK x \in {"done", "dead", "open"} :
          jobs' = IF call[c].op \in JobNames THEN [jobs EXCEPT ![call[c].op] = x] ELSE jobs
  BY DEF JobDone, JobRetried
<1>4. call[c].op \in JobNames => jobs[call[c].op] # "absent"
  BY DEF GateInv, CallInv
<1>5. SameJobs
  BY <1>3, <1>4 DEF SameJobs, TypeOK
<1>. QED
  BY <1>1, <1>2, <1>5, AsideWhole

\* A call that goes on in its handler.
LEMMA GoesOnWhole ==
    ASSUME TypeOK, WholeInv, NEW c \in Callers,
           \/ \E p \in {"checked", "raised"} : call' = [call EXCEPT ![c].pc = p]
           \/ Finds(c),
           UNCHANGED <<jobs, cp, submissions, renders, uploads, clipsIn, published>>,
           status' = "completed" => status = "completed"
    PROVE  WholeInv'
<1>1. /\ call'[c].pc \in {"checked", "raised", "found"} /\ call'[c].values = call[c].values
      /\ \A d \in Callers \ {c} : call'[d] = call[d]
  BY PcFields, FoundFields DEF Pc
<1>2. Whole(call[c])'
  BY <1>1 DEF WholeInv, Whole, Known
<1>3. SameJobs
  BY DEF SameJobs
<1>. QED
  BY <1>1, <1>2, <1>3, AsideWhole

\* A node returns its update.
LEMMA ConcludeWhole ==
    ASSUME TypeOK, WholeInv, Grows, Chain', cp' = cp, NEW c \in Callers, NEW v \in Values,
           Conclude(c, v), Known(v)'
    PROVE  WholeInv'
<1>1. /\ call'[c].pc = "concluded" /\ call'[c].values = v
      /\ \A d \in Callers \ {c} : call'[d] = call[d]
  BY ValuesFields DEF Conclude, Writes, Pc
<1>2. Whole(call[c])' /\ Known(cp.values)'
  BY <1>1 DEF WholeInv, Whole, Known, Grows
<1>. QED
  BY <1>1, <1>2, OneCall

LEMMA ActedUsed ==
    ASSUME TypeOK, NEW c \in Callers, NEW used \in BOOLEAN, Acted(c, used)
    PROVE  call'[c].used = used
<1>1. call' = [call EXCEPT ![c] = [call[c] EXCEPT !.pc = "acted", !.used = used]]
  BY DEF TypeOK, Acted
<1>2. call'[c] = [call[c] EXCEPT !.pc = "acted", !.used = used] /\ call[c] \in Call
  BY <1>1 DEF TypeOK
<1>. QED
  BY <1>2 DEF Call

\* The turn of a node's agent ends.
LEMMA TurnWhole ==
    ASSUME TypeOK, WholeInv, Grows, Chain', cp' = cp, NEW c \in Callers,
           NEW used \in BOOLEAN, Acted(c, used),
           call[c].at = "production" /\ used => submissions' > 0,
           call[c].at = "publishing" /\ used => uploads' > 0
    PROVE  WholeInv'
<1>1. /\ call'[c].pc = "acted" /\ call'[c].at = call[c].at /\ call'[c].values = call[c].values
      /\ call'[c].used = used /\ \A d \in Callers \ {c} : call'[d] = call[d]
  BY ActedFields, ActedUsed
<1>2. Whole(call[c])' /\ Known(cp.values)'
  BY <1>1 DEF WholeInv, Whole, Known, Grows
<1>. QED
  BY <1>1, <1>2, OneCall

-----------------------------------------------------------------------------
(* The values that nodes and answers write.                                *)

LEMMA KnownEdits ==
    ASSUME NEW v \in Values, Known(v), NEW st \in RunStatus, NEW x \in Steps, NEW b \in BOOLEAN,
           st = "completed" => published
    PROVE  /\ Known([v EXCEPT !.ideasOk = b, !.step = x])
           /\ Known([v EXCEPT !.ideasOk = b, !.status = st])
           /\ Known([v EXCEPT !.publishOk = b, !.step = x])
           /\ Known([v EXCEPT !.publishOk = b, !.status = st])
           /\ Known([v EXCEPT !.status = st])
           /\ Known([v EXCEPT !.status = st, !.step = x])
           /\ Known([v EXCEPT !.step = x, !.status = st])
           /\ submissions > 0 => Known([v EXCEPT !.clips = TRUE, !.step = x, !.status = st])
           /\ renders > 0 => Known([v EXCEPT !.final = TRUE, !.step = x, !.status = st])
  BY DEF Known, Values

\* An answer to the pending interrupt.
LEMMA AnswerKnown ==
    ASSUME TypeOK, GateInv, WholeInv, NEW c \in Callers, cp.next \in Interrupts, Answer(c)
    PROVE  \/ \E n \in Nodes, w \in Values : Known(w) /\ Proceed(c, n, w)
           \/ KeepWaiting(c, cp.values)
           \/ call' = [call EXCEPT ![c].pc = "raised"] /\ cp' = cp
<1>. DEFINE v == cp.values
<1>0. v \in Values /\ Known(v) /\ Nodes # {}
  BY DEF TypeOK, Checkpoint, WholeInv, Nodes
<1>1. \A st \in RunStatus : st # "completed" =>
        \A x \in Steps, b \in BOOLEAN :
           /\ Known([v EXCEPT !.ideasOk = b, !.step = x])
           /\ Known([v EXCEPT !.ideasOk = b, !.status = st])
           /\ Known([v EXCEPT !.publishOk = b, !.step = x])
           /\ Known([v EXCEPT !.publishOk = b, !.status = st])
           /\ submissions > 0 => Known([v EXCEPT !.clips = TRUE, !.step = x, !.status = st])
           /\ renders > 0 => Known([v EXCEPT !.final = TRUE, !.step = x, !.status = st])
  <2>1. PICK u : u = v
    OBVIOUS
  <2>. QED
    BY <1>0, <2>1, KnownEdits
<1>. HIDE DEF v
<1>2. CASE cp.next = "ideation_approval"
  <2>1. AnswerIdeation(c, v)
    BY <1>2 DEF Answer, Waits, v
  <2>2. /\ [v EXCEPT !.ideasOk = TRUE, !.step = "production"] \in Values
        /\ [v EXCEPT !.ideasOk = FALSE, !.status = "rejected"] \in Values
    BY <1>0, ValuesType DEF Steps, RunStatus, Terminal
  <2>3. /\ Known([v EXCEPT !.ideasOk = TRUE, !.step = "production"])
        /\ Known([v EXCEPT !.ideasOk = FALSE, !.status = "rejected"])
    BY <1>1 DEF Steps, RunStatus, Terminal
  <2>. QED
    BY <2>1, <2>2, <2>3 DEF AnswerIdeation, Nodes, WorkNodes
<1>3. CASE cp.next = "publish_approval"
  <2>1. AnswerPublish(c, v)
    BY <1>3 DEF Answer, Waits, v
  <2>2. /\ [v EXCEPT !.publishOk = TRUE, !.step = "publishing"] \in Values
        /\ [v EXCEPT !.publishOk = FALSE, !.status = "rejected"] \in Values
    BY <1>0, ValuesType DEF Steps, RunStatus, Terminal
  <2>3. /\ Known([v EXCEPT !.publishOk = TRUE, !.step = "publishing"])
        /\ Known([v EXCEPT !.publishOk = FALSE, !.status = "rejected"])
    BY <1>1 DEF Steps, RunStatus, Terminal
  <2>. QED
    BY <2>1, <2>2, <2>3 DEF AnswerPublish, Nodes, WorkNodes
<1>4. CASE StopWaiting(c, v)
  BY <1>0, <1>4 DEF StopWaiting, Nodes, WorkNodes, Interrupts
<1>5. CASE call[c].op = "videos" /\ AnswerVideos(c, v)
  <2>1. submissions > 0
    BY <1>5 DEF GateInv, CallInv, JobNames, WholeInv, Chain
  <2>2. PICK w : w = [v EXCEPT !.clips = TRUE, !.step = "editing", !.status = "running"]
                 /\ Proceed(c, "editing", w)
    BY <1>5 DEF AnswerVideos
  <2>3. w \in Values /\ Known(w)
    BY <1>0, <1>1, <2>1, <2>2, ValuesType DEF Steps, RunStatus
  <2>. QED
    BY <2>2, <2>3 DEF Nodes, WorkNodes
<1>6. CASE call[c].op = "render" /\ AnswerRender(c, v)
  <2>1. renders > 0
    BY <1>6 DEF GateInv, CallInv, JobNames, WholeInv, Chain
  <2>2. PICK w : w = [v EXCEPT !.final = TRUE, !.step = "publish_approval",
                               !.status = "awaiting_publish_approval"]
                 /\ Proceed(c, "publish_approval", w)
    BY <1>6 DEF AnswerRender
  <2>3. w \in Values /\ Known(w)
    BY <1>0, <1>1, <2>1, <2>2, ValuesType DEF Steps, RunStatus
  <2>. QED
    BY <2>2, <2>3 DEF Nodes, Interrupts
<1>7. CASE KeepWaiting(c, v)
  BY <1>7 DEF v
<1>8. \/ AnswerIdeation(c, v) /\ cp.next = "ideation_approval"
      \/ AnswerPublish(c, v) /\ cp.next = "publish_approval"
      \/ StopWaiting(c, v) \/ KeepWaiting(c, v)
      \/ call[c].op = "videos" /\ AnswerVideos(c, v)
      \/ call[c].op = "render" /\ AnswerRender(c, v)
  BY DEF Answer, Waits, v
<1>. QED
  BY <1>2, <1>3, <1>4, <1>5, <1>6, <1>7, <1>8

\* A call that enters the thread at an interrupt, or where it finds it.
LEMMA ResumeWhole ==
    ASSUME TypeOK, GateInv, RaceInv, WholeInv, NEW c \in Callers, Resume(c)
    PROVE  WholeInv'
<1>0. UNCHANGED <<status, jobs, submissions, renders, uploads, clipsIn, published>>
  BY DEF Resume, spent, stored
<1>1. ASSUME NEW n \in Nodes, NEW w \in Values, Known(w), Proceed(c, n, w) PROVE WholeInv'
  <2>1. /\ cp'.values = w /\ call'[c].values = w /\ call'[c].pc \in {"node", "returned"}
        /\ \A d \in Callers \ {c} : call'[d] = call[d]
    BY <1>1, ProceedFields
  <2>2. Known(cp.values)' /\ Whole(call[c])'
    BY <1>0, <1>1, <2>1 DEF Whole, Known
  <2>. QED
    BY <1>0, <2>1, <2>2, ThreadWhole
<1>2. ASSUME KeepWaiting(c, cp.values) PROVE WholeInv'
  <2>1. PICK w \in Values : w = cp.values
    BY DEF TypeOK, Checkpoint
  <2>2. Writes(c, "returned", w) /\ cp'.values = w
    BY <1>2, <2>1 DEF KeepWaiting, Writes, TypeOK, Checkpoint
  <2>3. /\ call'[c].pc = "returned" /\ call'[c].values = w
        /\ \A d \in Callers \ {c} : call'[d] = call[d]
    BY <2>2, ValuesFields DEF Pc
  <2>4. Known(cp.values)' /\ Whole(call[c])'
    BY <1>0, <2>1, <2>2, <2>3 DEF Whole, Known, WholeInv
  <2>. QED
    BY <1>0, <2>3, <2>4, ThreadWhole
<1>3. ASSUME call' = [call EXCEPT ![c].pc = "raised"], cp' = cp PROVE WholeInv'
  BY <1>0, <1>3, GoesOnWhole
<1>4. ASSUME ~IdIsPending(c), cp' = cp,
             call' = [call EXCEPT ![c].pc = IF cp.next \in WorkNodes THEN "node" ELSE "returned",
                                  ![c].at = cp.next, ![c].values = cp.values]
      PROVE  WholeInv'
  <2>. DEFINE p == IF cp.next \in WorkNodes THEN "node" ELSE "returned"
  <2>1. call' = [call EXCEPT ![c] = [call[c] EXCEPT !.pc = p, !.at = cp.next, !.values = cp.values]]
    BY <1>4 DEF TypeOK
  <2>2. /\ call'[c] = [call[c] EXCEPT !.pc = p, !.at = cp.next, !.values = cp.values]
        /\ call[c] \in Call /\ \A d \in Callers \ {c} : call'[d] = call[d]
    BY <2>1 DEF TypeOK
  <2>3. p \in {"node", "returned"}
    OBVIOUS
  <2>. HIDE DEF p
  <2>4. call'[c].pc = p /\ call'[c].values = cp.values
    BY <2>2 DEF Call
  <2>5. Known(cp.values)' /\ Whole(call[c])'
    BY <1>0, <1>4, <2>3, <2>4 DEF Whole, Known, WholeInv
  <2>. QED
    BY <1>0, <2>2, <2>5, ThreadWhole
<1>5. CASE IdIsPending(c) /\ Answer(c)
  <2>1. cp.next \in Interrupts
    BY <1>5 DEF IdIsPending, RaceInv
  <2>. QED
    BY <1>1, <1>2, <1>3, <1>5, <2>1, AnswerKnown
<1>. QED
  BY <1>4, <1>5 DEF Resume

LEMMA StartWhole ==
    ASSUME TypeOK, WholeInv, NEW c \in Callers, StartGraph(c)
    PROVE  WholeInv'
<1>0. /\ UNCHANGED <<jobs, submissions, renders, uploads, clipsIn, published>>
      /\ status' = "running"
  BY DEF StartGraph, spent, stored
<1>. DEFINE u == [cp.values EXCEPT !.status = "running", !.step = "ideation"]
<1>1. u \in Values
  BY ValuesType DEF TypeOK, Checkpoint, RunStatus, Steps
<1>2. Known(u)
  <2>1. PICK v \in Values : v = cp.values
    BY DEF TypeOK, Checkpoint
  <2>. QED
    BY <2>1, KnownEdits DEF RunStatus, Steps, WholeInv
<1>3. /\ cp' = [cp EXCEPT !.next = "ideation", !.parked = FALSE, !.stray = FALSE, !.values = u]
      /\ call' = [call EXCEPT ![c].pc = "node", ![c].at = "ideation", ![c].values = u]
  BY DEF StartGraph
<1>. HIDE DEF u
<1>4. cp'.values = u
  BY <1>3 DEF TypeOK, Checkpoint
<1>5. /\ call'[c] = [call[c] EXCEPT !.pc = "node", !.at = "ideation", !.values = u]
      /\ call[c] \in Call /\ \A d \in Callers \ {c} : call'[d] = call[d]
  BY <1>3 DEF TypeOK
<1>6. call'[c].pc = "node" /\ call'[c].values = u
  BY <1>5 DEF Call
<1>7. Known(cp.values)' /\ Whole(call[c])'
  BY <1>0, <1>2, <1>4, <1>6 DEF Whole, Known
<1>. QED
  BY <1>0, <1>5, <1>7, ThreadWhole

LEMMA AdvanceWhole ==
    ASSUME TypeOK, WholeInv, NEW c \in Callers, Advance(c)
    PROVE  WholeInv'
<1>0. UNCHANGED <<status, jobs, submissions, renders, uploads, clipsIn, published>>
  BY DEF Advance, spent, stored
<1>1. PICK w \in Values : w = call[c].values
  BY DEF TypeOK, Call
<1>2. PICK n \in Nodes : Proceed(c, n, w)
  BY <1>1 DEF Advance, Successor, Nodes, WorkNodes, Interrupts, Waits
<1>3. /\ cp'.values = w /\ call'[c].values = w /\ call'[c].pc \in {"node", "returned"}
      /\ \A d \in Callers \ {c} : call'[d] = call[d]
  BY <1>2, ProceedFields
<1>4. Known(cp.values)' /\ Whole(call[c])'
  BY <1>0, <1>1, <1>3 DEF Whole, Known, WholeInv
<1>. QED
  BY <1>0, <1>3, <1>4, ThreadWhole

\* The steps of the four work nodes.
LEMMA NodeWhole ==
    ASSUME TypeOK, WholeInv, NEW c \in Callers,
           \/ Ideation(c) \/ ProductionTurn(c) \/ ProductionRefused(c) \/ ProductionEnds(c)
           \/ EditingTurn(c) \/ EditingEnds(c)
           \/ PublishingTurn(c) \/ PublishingPolls(c) \/ PublishingEnds(c)
    PROVE  WholeInv'
<1>0. PICK r \in Call : r = call[c] /\ Whole(r)
  BY DEF TypeOK, WholeInv
<1>1. PICK v \in Values : v = call[c].values /\ Known(v)
  BY DEF TypeOK, WholeInv, Call, Whole
<1>2. \A st \in RunStatus : st # "completed" \/ published =>
        \A x \in Steps :
           /\ Known([v EXCEPT !.status = st]) /\ [v EXCEPT !.status = st] \in Values
           /\ Known([v EXCEPT !.step = x, !.status = st]) /\ [v EXCEPT !.step = x, !.status = st] \in Values
  BY <1>1, KnownEdits, ValuesType
<1>3. ASSUME NEW w \in Values, Known(w), Grows PROVE Known(w)'
  BY <1>3 DEF Known, Grows
<1>4. ASSUME Raise(c), UNCHANGED <<cp, jobs, submissions, renders, uploads, clipsIn, published>>,
             status' = "completed" => status = "completed"
      PROVE  WholeInv'
  BY <1>4, GoesOnWhole DEF Raise
<1>5. ASSUME NEW w \in Values, Known(w), Conclude(c, w), SameJobs,
             UNCHANGED <<cp, submissions, renders, uploads, clipsIn, published>>,
             status' = "completed" => status = "completed"
      PROVE  WholeInv'
  <2>1. Grows /\ Chain'
    BY <1>5 DEF Grows, Chain, WholeInv, SameJobs, JobNames
  <2>. QED
    BY <1>3, <1>5, <2>1, ConcludeWhole
<1>6. CASE Ideation(c)
  <2>1. UNCHANGED <<cp, jobs, submissions, renders, uploads, clipsIn, published>>
    BY <1>6 DEF Ideation, spent
  <2>2. status' = "completed" => status = "completed"
    BY <1>6 DEF Ideation
  <2>3. \/ Raise(c)
        \/ Conclude(c, [v EXCEPT !.status = "failed"])
        \/ Conclude(c, [v EXCEPT !.step = "ideation", !.status = "awaiting_ideation_approval"])
    BY <1>1, <1>6 DEF Ideation
  <2>4. SameJobs
    BY <2>1 DEF SameJobs
  <2>. QED
    BY <1>2, <1>4, <1>5, <2>1, <2>2, <2>3, <2>4 DEF RunStatus, Terminal, Steps
<1>7. CASE ProductionTurn(c)
  <2>1. PICK used \in BOOLEAN : /\ Acted(c, used)
                                /\ submissions' = IF used THEN submissions + 1 ELSE submissions
    BY <1>7 DEF ProductionTurn
  <2>2. UNCHANGED <<cp, jobs, renders, uploads, clipsIn, published>> /\ status' # "completed"
    BY <1>7 DEF ProductionTurn, stored
  <2>3. (submissions > 0 => submissions' > 0) /\ (used => submissions' > 0)
    BY <2>1 DEF TypeOK
  <2>4. Grows
    BY <2>2, <2>3 DEF Grows
  <2>5. Chain'
    BY <2>2, <2>3 DEF Chain, WholeInv
  <2>6. call[c].at # "publishing"
    BY <1>7 DEF ProductionTurn, In
  <2>. QED
    BY <2>1, <2>2, <2>3, <2>4, <2>5, <2>6, TurnWhole
<1>8. CASE ProductionRefused(c)
  BY <1>4, <1>8 DEF ProductionRefused, spent, stored
<1>9. CASE ProductionEnds(c)
  <2>1. /\ UNCHANGED <<cp, submissions, renders, uploads, clipsIn, published>>
        /\ status' # "completed" \/ status' = status
    BY <1>9 DEF ProductionEnds, spent, stored
  <2>2. CASE Raise(c) /\ UNCHANGED jobs
    BY <1>4, <1>9, <2>1, <2>2 DEF ProductionEnds, spent, stored
  <2>3. CASE call[c].used \/ submissions > 0
    <3>1. submissions > 0
      BY <1>0, <1>9, <2>3 DEF ProductionEnds, In, Whole
    <3>. DEFINE w == [v EXCEPT !.step = "wait_for_videos", !.status = "awaiting_video_generation"]
    <3>2. w \in Values /\ Known(w)
      BY <1>2 DEF RunStatus, Steps
    <3>3. CASE Conclude(c, w) /\ jobs' = Enqueued("poll")
      <4>1. \A j \in JobNames \ {"poll"} : jobs'[j] # "absent" <=> jobs[j] # "absent"
        BY <3>3 DEF Enqueued, TypeOK
      <4>2. UNCHANGED <<cp, submissions, renders, uploads, clipsIn, published>>
        BY <1>9 DEF ProductionEnds, spent, stored
      <4>3. Grows
        BY <4>2 DEF Grows
      <4>4. Chain'
        BY <2>1, <3>1, <4>1, <4>2 DEF Chain, WholeInv, JobNames
      <4>5. Known(w)'
        BY <1>3, <3>2, <4>3
      <4>. HIDE DEF w
      <4>. QED
        BY <3>2, <3>3, <4>2, <4>3, <4>4, <4>5, ConcludeWhole
    <3>. QED
      BY <1>1, <1>9, <2>2, <3>3 DEF ProductionEnds
  <2>. QED
    BY <1>9, <2>2, <2>3 DEF ProductionEnds
<1>10. CASE EditingTurn(c)
  <2>1. PICK used \in BOOLEAN : Acted(c, used) /\ renders' = IF used THEN renders + 1 ELSE renders
    BY <1>10 DEF EditingTurn
  <2>2. UNCHANGED <<status, cp, jobs, submissions, uploads, clipsIn, published>>
    BY <1>10 DEF EditingTurn, stored
  <2>3. renders > 0 => renders' > 0
    BY <2>1 DEF TypeOK
  <2>4. submissions > 0
    BY <1>1, <1>10 DEF EditingTurn, Known
  <2>5. Grows
    BY <2>2, <2>3 DEF Grows
  <2>6. Chain'
    BY <2>2, <2>3, <2>4 DEF Chain, WholeInv
  <2>7. call[c].at \notin {"publishing", "production"}
    BY <1>10 DEF EditingTurn, In
  <2>. QED
    BY <2>1, <2>2, <2>5, <2>6, <2>7, TurnWhole
<1>11. CASE EditingEnds(c)
  <2>1. UNCHANGED <<cp, jobs, submissions, renders, uploads, clipsIn, published>>
    BY <1>11 DEF EditingEnds, spent, stored
  <2>2. status' = "completed" => status = "completed"
    BY <1>11 DEF EditingEnds
  <2>3. \/ Raise(c)
        \/ Conclude(c, [v EXCEPT !.step = "wait_for_render", !.status = "awaiting_render"])
    BY <1>1, <1>11 DEF EditingEnds
  <2>4. SameJobs
    BY <2>1 DEF SameJobs
  <2>. QED
    BY <1>2, <1>4, <1>5, <2>1, <2>2, <2>3, <2>4 DEF RunStatus, Steps
<1>12. CASE PublishingTurn(c)
  <2>1. PICK used \in BOOLEAN : Acted(c, used) /\ IF used THEN UploadPost ELSE UNCHANGED uploads
    BY <1>12 DEF PublishingTurn
  <2>2. UNCHANGED <<status, cp, jobs, submissions, renders, clipsIn, published>>
    BY <1>12 DEF PublishingTurn, stored
  <2>3. uploads > 0 => uploads' > 0
    BY <2>1 DEF TypeOK, UploadPost, Upload
  <2>4. used => uploads' > 0
    BY <2>1 DEF TypeOK, UploadPost, Upload, WholeInv, Chain
  <2>5. renders > 0
    BY <1>1, <1>12 DEF PublishingTurn, Known
  <2>6. Grows
    BY <2>2, <2>3 DEF Grows
  <2>7. Chain'
    BY <2>2, <2>3, <2>5 DEF Chain, WholeInv
  <2>8. call[c].at # "production"
    BY <1>12 DEF PublishingTurn, In
  <2>. QED
    BY <2>1, <2>2, <2>4, <2>6, <2>7, <2>8, TurnWhole
<1>13. CASE PublishingPolls(c)
  <2>1. UNCHANGED <<cp, jobs, submissions, renders, uploads, clipsIn, published>> /\ status' # "completed"
    BY <1>13 DEF PublishingPolls, spent, stored
  <2>2. /\ call'[c].pc = "polling" /\ call'[c].at = "publishing" /\ call'[c].values = v
        /\ \A d \in Callers \ {c} : call'[d] = call[d]
    BY <1>1, <1>13, PcFields DEF PublishingPolls, In, Pc
  <2>3. uploads > 0
    BY <1>0, <1>13 DEF PublishingPolls, In, Whole
  <2>4. Whole(call[c])'
    BY <1>1, <2>1, <2>2, <2>3 DEF Whole, Known
  <2>5. SameJobs
    BY <2>1 DEF SameJobs
  <2>. QED
    BY <2>1, <2>2, <2>4, <2>5, AsideWhole
<1>14. CASE PublishingEnds(c)
  <2>1. UNCHANGED <<cp, jobs, submissions, renders, uploads, clipsIn>>
    BY <1>14 DEF PublishingEnds, spent
  <2>2. SameJobs
    BY <2>1 DEF SameJobs
  <2>3. CASE PublishingCompletes(c)
    <3>1. uploads > 0
      BY <1>0, <2>3 DEF PublishingCompletes, UrlKnown, In, Whole
    <3>2. PICK w \in Values : /\ w = [v EXCEPT !.status = "completed", !.step = "completed"]
                              /\ Conclude(c, w)
      BY <1>1, <2>3, ValuesType DEF PublishingCompletes, RunStatus, Terminal, Steps
    <3>3. published' /\ Grows
      BY <2>1, <2>3 DEF PublishingCompletes, Grows
    <3>4. Chain'
      BY <2>1, <3>1, <3>3 DEF Chain, WholeInv
    <3>5. w.clips = v.clips /\ w.final = v.final
      BY <3>2 DEF Values
    <3>6. Known(w)'
      BY <1>1, <2>1, <3>3, <3>5 DEF Known
    <3>. QED
      BY <2>1, <3>2, <3>3, <3>4, <3>6, ConcludeWhole
  <2>4. CASE PublishingFails(c) \/ PublishingStops(c)
    <3>1. Conclude(c, [v EXCEPT !.status = "failed"]) /\ UNCHANGED published
      BY <1>1, <2>4 DEF PublishingFails, PublishingStops
    <3>2. status' = "completed" => status = "completed"
      BY <2>4 DEF PublishingFails, PublishingStops
    <3>. QED
      BY <1>2, <1>5, <2>1, <2>2, <3>1, <3>2 DEF RunStatus, Terminal, Steps
  <2>. QED
    BY <1>14, <2>3, <2>4 DEF PublishingEnds
<1>. QED
  BY <1>6, <1>7, <1>8, <1>9, <1>10, <1>11, <1>12, <1>13, <1>14

\* What happens outside of the thread.
LEMMA OutsideWhole ==
    ASSUME TypeOK, GateInv, WholeInv,
           \/ ClipsArrive \/ RenderArrives \/ RunFails
           \/ \E j \in Decisions : RequestGate(j)
           \/ \E c \in Callers : PollEnds(c)
    PROVE  WholeInv'
<1>. USE DEF WholeInv
<1>0. ASSUME UNCHANGED <<cp, call, submissions, renders, uploads, published>>, Chain'
      PROVE  WholeInv'
  BY <1>0 DEF Whole, Known
<1>1. CASE ClipsArrive
  <2>1. submissions > 0 /\ UNCHANGED <<cp, call, submissions, renders, uploads, published>>
    BY <1>1 DEF ClipsArrive, spent
  <2>2. \A j \in JobNames \ {"videos"} : jobs'[j] # "absent" <=> jobs[j] # "absent"
    BY <1>1 DEF ClipsArrive, Enqueued, TypeOK
  <2>3. status' = "completed" => status = "completed"
    BY <1>1 DEF ClipsArrive
  <2>4. Chain'
    BY <2>1, <2>2, <2>3 DEF Chain, JobNames
  <2>. QED
    BY <1>0, <2>1, <2>4
<1>2. CASE RenderArrives
  <2>1. renders > 0 /\ UNCHANGED <<status, cp, call, submissions, renders, uploads, clipsIn, published>>
    BY <1>2 DEF RenderArrives, spent, stored
  <2>2. \A j \in JobNames \ {"render"} : jobs'[j] # "absent" <=> jobs[j] # "absent"
    BY <1>2 DEF RenderArrives, Enqueued, TypeOK
  <2>3. Chain'
    BY <2>1, <2>2 DEF Chain, JobNames
  <2>. QED
    BY <1>0, <2>1, <2>3
<1>3. CASE RunFails
  <2>1. /\ UNCHANGED <<cp, jobs, call, submissions, renders, uploads, clipsIn, published>>
        /\ status' = "failed"
    BY <1>3 DEF RunFails, spent, stored
  <2>2. Chain'
    BY <2>1 DEF Chain
  <2>. QED
    BY <1>0, <2>1, <2>2
<1>4. ASSUME NEW j \in Decisions, RequestGate(j) PROVE WholeInv'
  <2>1. UNCHANGED <<status, cp, call, submissions, renders, uploads, clipsIn, published>>
    BY <1>4 DEF RequestGate, spent, stored
  <2>2. \A k \in {"poll", "videos", "render"} : jobs'[k] = jobs[k]
    BY <1>4, WorkflowAssumption DEF RequestGate, Enqueued, TypeOK, JobNames, HitlJobs
  <2>3. Chain'
    BY <2>1, <2>2 DEF Chain
  <2>. QED
    BY <1>0, <2>1, <2>3
<1>5. ASSUME NEW c \in Callers, PollEnds(c) PROVE WholeInv'
  <2>1. /\ UNCHANGED <<cp, submissions, renders, uploads, published>>
        /\ call[c].op = "poll" /\ (status' = "completed" => status = "completed")
    BY <1>5 DEF PollEnds, At, spent
  <2>2. submissions > 0
    BY <2>1 DEF GateInv, CallInv, JobNames, Chain
  <2>3. call'[c] = NoCall /\ \A d \in Callers \ {c} : call'[d] = call[d]
    BY <1>5 DEF PollEnds, JobDone, Hangup, TypeOK
  <2>4. jobs'["render"] = jobs["render"]
    BY <1>5, <2>1 DEF PollEnds, JobDone, TypeOK, JobNames
  <2>5. Grows /\ Known(cp.values)'
    BY <2>1 DEF Grows, Known
  <2>6. Chain'
    BY <2>1, <2>2, <2>4 DEF Chain
  <2>7. Whole(call[c])'
    BY <2>3 DEF Whole, Known, NoCall, InitialValues
  <2>. QED
    BY <2>3, <2>5, <2>6, <2>7, OneCall
<1>. QED
  BY <1>1, <1>2, <1>3, <1>4, <1>5

\* The calls outside of the graph.
LEMMA CallWhole ==
    ASSUME TypeOK, GateInv, WholeInv, NEW c \in Callers,
           \/ \E j \in JobNames : TakeJob(c, j)
           \/ \E o \in ApiOps : ApiCall(c, o)
           \/ CheckExecute(c) \/ CheckGate(c) \/ CheckPoll(c) \/ FindGate(c) \/ FindWait(c)
           \/ Return(c) \/ ReturnError(c) \/ Crash(c)
    PROVE  WholeInv'
<1>1. ASSUME NEW o, NEW p \in {"begun", "found"}, NEW i,
             call' = [call EXCEPT ![c] = [NoCall EXCEPT !.op = o, !.pc = p, !.id = i]],
             SameJobs, UNCHANGED <<status, cp, submissions, renders, uploads, clipsIn, published>>
      PROVE  WholeInv'
  <2>1. /\ call'[c] = [NoCall EXCEPT !.op = o, !.pc = p, !.id = i]
        /\ \A d \in Callers \ {c} : call'[d] = call[d]
    BY <1>1 DEF TypeOK
  <2>2. call'[c].pc = p /\ call'[c].values = InitialValues
    BY <2>1 DEF NoCall
  <2>3. Whole(call[c])'
    BY <2>2 DEF Whole, Known, InitialValues
  <2>. QED
    BY <1>1, <2>1, <2>3, AsideWhole
<1>2. ASSUME NEW j \in JobNames, TakeJob(c, j) PROVE WholeInv'
  <2>1. /\ call'[c] = [NoCall EXCEPT !.op = j, !.pc = "begun"]
        /\ \A d \in Callers \ {c} : call'[d] = call[d]
        /\ UNCHANGED <<status, cp, jobs, submissions, renders, uploads, clipsIn, published>>
    BY <1>2 DEF TakeJob, TypeOK, spent, stored
  <2>2. call'[c].pc = "begun" /\ call'[c].values = InitialValues
    BY <2>1 DEF NoCall
  <2>3. Whole(call[c])'
    BY <2>2 DEF Whole, Known, InitialValues
  <2>4. SameJobs
    BY <2>1 DEF SameJobs
  <2>. QED
    BY <2>1, <2>3, <2>4, AsideWhole
<1>3. ASSUME NEW o \in ApiOps, ApiCall(c, o) PROVE WholeInv'
  <2>1. UNCHANGED <<status, cp, jobs, submissions, renders, uploads, clipsIn, published>>
    BY <1>3 DEF ApiCall, spent, stored
  <2>2. SameJobs
    BY <2>1 DEF SameJobs
  <2>. QED
    BY <1>1, <1>3, <2>1, <2>2 DEF ApiCall
<1>4. ASSUME NEW o, NEW s, CheckRow(c, o, s) PROVE WholeInv'
  <2>1. UNCHANGED <<status, cp, submissions, renders, uploads, clipsIn, published>>
    BY <1>4 DEF CheckRow, spent, stored
  <2>. QED
    BY <1>4, <2>1, GoesOnWhole, EndWhole DEF CheckRow
<1>5. CASE CheckExecute(c) \/ CheckGate(c) \/ CheckPoll(c)
  BY <1>4, <1>5 DEF CheckExecute, CheckGate, CheckPoll
<1>6. CASE FindGate(c) \/ FindWait(c)
  <2>1. UNCHANGED <<status, cp, submissions, renders, uploads, clipsIn, published>>
    BY <1>6 DEF FindGate, FindWait, spent, stored
  <2>2. (Finds(c) /\ UNCHANGED jobs) \/ JobDone(c) \/ JobRetried(c)
    BY <1>6 DEF FindGate, FindWait, Finds
  <2>. QED
    BY <2>1, <2>2, GoesOnWhole, EndWhole
<1>7. CASE Return(c)
  <2>1. UNCHANGED <<cp, submissions, renders, uploads, clipsIn, published>> /\ JobDone(c)
    BY <1>7 DEF Return, spent, stored
  <2>2. status' = "completed" => status = "completed" \/ published
    BY <1>7 DEF Return, WholeInv, Whole, Known
  <2>. QED
    BY <2>1, <2>2, EndWhole
<1>8. CASE ReturnError(c)
  <2>1. UNCHANGED <<cp, submissions, renders, uploads, clipsIn, published>>
    BY <1>8 DEF ReturnError, spent, stored
  <2>2. (JobDone(c) \/ JobRetried(c)) /\ (status' = "completed" => status = "completed")
    BY <1>8 DEF ReturnError
  <2>. QED
    BY <2>1, <2>2, EndWhole
<1>9. CASE Crash(c)
  <2>1. /\ UNCHANGED <<status, jobs, cp, submissions, renders, uploads, clipsIn, published>>
        /\ call'[c] = NoCall /\ \A d \in Callers \ {c} : call'[d] = call[d]
    BY <1>9 DEF Crash, Hangup, TypeOK, spent, stored
  <2>2. Whole(call[c])' /\ SameJobs
    BY <2>1 DEF Whole, Known, NoCall, InitialValues, SameJobs
  <2>. QED
    BY <2>1, <2>2, AsideWhole
<1>. QED
  BY <1>2, <1>3, <1>5, <1>6, <1>7, <1>8, <1>9

LEMMA WholeStep ==
    ASSUME TypeOK, GateInv, RaceInv, WholeInv, [Next]_vars
    PROVE  WholeInv'
<1>1. CASE UNCHANGED vars
  BY <1>1 DEF vars, spent, stored, WholeInv, Chain, Known, Whole
<1>. QED
  BY <1>1, NextCases, OutsideWhole, CallWhole, NodeWhole, StartWhole, ResumeWhole, AdvanceWhole

LEMMA WholeInvHolds == Spec => []WholeInv
<1>1. Init => WholeInv
  BY DEF Init, WholeInv, Chain, Known, Whole, NoCall, InitialValues, JobNames, HitlJobs
<1>2. TypeOK /\ GateInv /\ RaceInv /\ WholeInv /\ [Next]_vars => WholeInv'
  BY WholeStep
<1>. QED
  BY TypeCorrect, GateInvHolds, RaceInvHolds, <1>1, <1>2, PTL DEF Spec

\* With any number of calls, attempts and crashes, and whether or not calls race on the
\* thread: a run is completed only once its gates have been approved, its clips and its
\* render made and its video uploaded.
THEOREM CompletedRunsAreWhole == Spec => []CompletedIsWhole
<1>1. GateInv /\ WholeInv => CompletedIsWhole
  BY DEF GateInv, NothingUnapproved, WholeInv, Chain, CompletedIsWhole
<1>. QED
  BY GateInvHolds, WholeInvHolds, <1>1, PTL

-----------------------------------------------------------------------------
(* The order of what happens to a run.                                     *)

\* A step that is none of VideoRun's, whatever it makes of the row.
LEMMA OrderShows ==
    ASSUME UNCHANGED <<approvals, submissions, renders, uploads, published>>,
           status' = "completed" => published
    PROVE  [Video!Next]_(Video!vars)
<1>1. (status = "completed")' \in BOOLEAN
  OBVIOUS
<1>. QED
  BY <1>1 DEF Video!Next, Video!Show

\* The steps outside of the nodes.
LEMMA OrderOutside ==
    ASSUME TypeOK, WholeInv,
           \/ \E c \in Callers, j \in JobNames : TakeJob(c, j)
           \/ \E c \in Callers : \/ CheckExecute(c) \/ StartGraph(c) \/ CheckGate(c) \/ FindGate(c)
                                 \/ FindWait(c) \/ CheckPoll(c) \/ PollEnds(c) \/ Resume(c)
                                 \/ Advance(c) \/ Return(c) \/ ReturnError(c) \/ Crash(c)
           \/ ClipsArrive \/ RenderArrives \/ RunFails
    PROVE  [Video!Next]_(Video!vars)
<1>. USE DEF spent, stored, history
<1>0. status = "completed" => published
  BY DEF WholeInv, Chain
<1>1. ASSUME NEW c \in Callers, NEW j \in JobNames, TakeJob(c, j) PROVE [Video!Next]_(Video!vars)
  BY <1>0, <1>1, OrderShows DEF TakeJob
<1>2. ASSUME NEW c \in Callers, CheckExecute(c) \/ CheckGate(c) \/ CheckPoll(c)
      PROVE  [Video!Next]_(Video!vars)
  BY <1>0, <1>2, OrderShows DEF CheckExecute, CheckGate, CheckPoll, CheckRow
<1>3. ASSUME NEW c \in Callers, FindGate(c) \/ FindWait(c) PROVE [Video!Next]_(Video!vars)
  BY <1>0, <1>3, OrderShows DEF FindGate, FindWait
<1>4. ASSUME NEW c \in Callers, StartGraph(c) \/ Resume(c) \/ Advance(c)
      PROVE  [Video!Next]_(Video!vars)
  <2>1. UNCHANGED <<approvals, submissions, renders, uploads, published>>
    BY <1>4 DEF StartGraph, Resume, Advance
  <2>2. status' = "running" \/ status' = status
    BY <1>4 DEF StartGraph, Resume, Advance
  <2>. QED
    BY <1>0, <2>1, <2>2, OrderShows
<1>5. ASSUME NEW c \in Callers, PollEnds(c) PROVE [Video!Next]_(Video!vars)
  BY <1>0, <1>5, OrderShows DEF PollEnds
<1>6. ASSUME NEW c \in Callers, Return(c) PROVE [Video!Next]_(Video!vars)
  <2>1. status' = "completed" => published
    BY <1>0, <1>6 DEF Return, WholeInv, Whole, Known
  <2>. QED
    BY <1>6, <2>1, OrderShows DEF Return
<1>7. ASSUME NEW c \in Callers, ReturnError(c) PROVE [Video!Next]_(Video!vars)
  <2>1. status' = "completed" => published
    BY <1>0, <1>7 DEF ReturnError
  <2>. QED
    BY <1>7, <2>1, OrderShows DEF ReturnError
<1>8. ASSUME NEW c \in Callers, Crash(c) PROVE [Video!Next]_(Video!vars)
  BY <1>0, <1>8, OrderShows DEF Crash
<1>9. CASE ClipsArrive \/ RenderArrives \/ RunFails
  <2>1. status' = "completed" => published
    BY <1>0, <1>9 DEF ClipsArrive, RenderArrives, RunFails
  <2>. QED
    BY <1>9, <2>1, OrderShows DEF ClipsArrive, RenderArrives, RunFails
<1>. QED
  BY <1>1, <1>2, <1>3, <1>4, <1>5, <1>6, <1>7, <1>8, <1>9

\* The steps of people: at most one gate is approved by each.
LEMMA OrderDecides ==
    ASSUME TypeOK, WholeInv,
           \/ \E c \in Callers, o \in ApiOps : ApiCall(c, o)
           \/ \E j \in Decisions : RequestGate(j)
    PROVE  [Video!Next]_(Video!vars)
<1>. USE DEF spent, stored
<1>0. status = "completed" => published
  BY DEF WholeInv, Chain
<1>1. ASSUME NEW c \in Callers, NEW o \in ApiOps, ApiCall(c, o) PROVE [Video!Next]_(Video!vars)
  <2>1. UNCHANGED <<status, submissions, renders, uploads, published>>
    BY <1>1 DEF ApiCall
  <2>2. approvals' = approvals \/ \E g \in Gates : approvals' = approvals \cup {g}
    <3>1. approvals' = approvals \cup {g \in Gates : o = "api_approve" /\ cp.next = GateNode(g)}
      BY <1>1 DEF ApiCall
    <3>2. \A g, h \in Gates : cp.next = GateNode(g) /\ cp.next = GateNode(h) => g = h
      BY DEF Gates, GateNode
    <3>3. CASE \E g \in Gates : o = "api_approve" /\ cp.next = GateNode(g)
      <4>1. PICK g \in Gates : o = "api_approve" /\ cp.next = GateNode(g)
        BY <3>3
      <4>2. {h \in Gates : o = "api_approve" /\ cp.next = GateNode(h)} = {g}
        BY <3>2, <4>1
      <4>. QED
        BY <3>1, <4>2
    <3>4. CASE ~ \E g \in Gates : o = "api_approve" /\ cp.next = GateNode(g)
      BY <3>1, <3>4
    <3>. QED
      BY <3>3, <3>4
  <2>3. CASE approvals' = approvals
    BY <1>0, <2>1, <2>3, OrderShows
  <2>4. CASE \E g \in Gates : approvals' = approvals \cup {g}
    BY <2>1, <2>4 DEF Video!Next, Video!Approve
  <2>. QED
    BY <2>2, <2>3, <2>4
<1>2. ASSUME NEW j \in Decisions, RequestGate(j) PROVE [Video!Next]_(Video!vars)
  <2>1. UNCHANGED <<status, submissions, renders, uploads, published>>
    BY <1>2 DEF RequestGate
  <2>2. GateOf(j) \in Gates
    BY DEF GateOf, Gates
  <2>3. approvals' \in {approvals, approvals \cup {GateOf(j)}}
    BY <1>2 DEF RequestGate
  <2>4. CASE approvals' = approvals
    BY <1>0, <2>1, <2>4, OrderShows
  <2>5. CASE approvals' = approvals \cup {GateOf(j)}
    BY <2>1, <2>2, <2>5 DEF Video!Next, Video!Approve
  <2>. QED
    BY <2>3, <2>4, <2>5
<1>. QED
  BY <1>1, <1>2

\* The steps of the nodes.
LEMMA OrderNodes ==
    ASSUME TypeOK, GateInv, WholeInv, NEW c \in Callers,
           \/ Ideation(c) \/ ProductionTurn(c) \/ ProductionRefused(c) \/ ProductionEnds(c)
           \/ EditingTurn(c) \/ EditingEnds(c)
           \/ PublishingTurn(c) \/ PublishingPolls(c) \/ PublishingEnds(c)
    PROVE  [Video!Next]_(Video!vars)
<1>. USE DEF spent, stored, history
<1>0. status = "completed" => published
  BY DEF WholeInv, Chain
<1>1. Earned(call[c].at, call[c].values) /\ Known(call[c].values) /\ Whole(call[c])
  BY DEF GateInv, CallInv, WholeInv, Whole
<1>2. CASE Ideation(c) \/ ProductionRefused(c) \/ ProductionEnds(c) \/ EditingEnds(c) \/ PublishingPolls(c)
  <2>1. UNCHANGED <<approvals, submissions, renders, uploads, published>>
    BY <1>2 DEF Ideation, ProductionRefused, ProductionEnds, EditingEnds, PublishingPolls
  <2>2. status' = "completed" => published
    BY <1>0, <1>2 DEF Ideation, ProductionRefused, ProductionEnds, EditingEnds, PublishingPolls
  <2>. QED
    BY <2>1, <2>2, OrderShows
<1>3. CASE ProductionTurn(c)
  <2>1. /\ UNCHANGED <<approvals, renders, uploads, published>>
        /\ status' # "completed" /\ submissions' \in {submissions, submissions + 1}
    BY <1>3 DEF ProductionTurn
  <2>2. "ideation" \in approvals
    BY <1>1, <1>3 DEF ProductionTurn, In, Earned, Beyond
  <2>3. CASE submissions' = submissions
    BY <2>1, <2>3, OrderShows
  <2>4. CASE submissions' = submissions + 1
    <3>1. (status = "completed")' = FALSE
      BY <2>1
    <3>. QED
      BY <2>1, <2>2, <2>4, <3>1 DEF Video!Next, Video!Submit
  <2>. QED
    BY <2>1, <2>3, <2>4
<1>4. CASE EditingTurn(c)
  <2>1. /\ UNCHANGED <<status, approvals, submissions, uploads, published>>
        /\ renders' \in {renders, renders + 1}
    BY <1>4 DEF EditingTurn
  <2>2. submissions > 0
    BY <1>1, <1>4 DEF EditingTurn, Known
  <2>3. CASE renders' = renders
    BY <1>0, <2>1, <2>3, OrderShows
  <2>4. CASE renders' = renders + 1
    BY <2>1, <2>2, <2>4 DEF Video!Next, Video!Render
  <2>. QED
    BY <2>1, <2>3, <2>4
<1>5. CASE PublishingTurn(c)
  <2>1. /\ UNCHANGED <<status, approvals, submissions, renders, published>>
        /\ uploads' \in {uploads, uploads + 1}
    BY <1>5 DEF PublishingTurn, UploadPost, Upload
  <2>2. renders > 0 /\ approvals = Gates
    BY <1>1, <1>5 DEF PublishingTurn, Known, Earned
  <2>3. CASE uploads' = uploads
    BY <1>0, <2>1, <2>3, OrderShows
  <2>4. CASE uploads' = uploads + 1
    BY <2>1, <2>2, <2>4 DEF Video!Next, Video!Upload
  <2>. QED
    BY <2>1, <2>3, <2>4
<1>6. CASE PublishingEnds(c)
  <2>1. UNCHANGED <<approvals, submissions, renders, uploads>>
    BY <1>6 DEF PublishingEnds
  <2>2. CASE PublishingCompletes(c)
    <3>1. uploads > 0
      BY <1>1, <2>2 DEF PublishingCompletes, UrlKnown, In, Whole
    <3>2. published' = TRUE /\ (status = "completed")' = TRUE
      BY <2>2 DEF PublishingCompletes
    <3>. QED
      BY <2>1, <3>1, <3>2 DEF Video!Next, Video!Publish
  <2>3. CASE PublishingFails(c) \/ PublishingStops(c)
    BY <1>0, <2>1, <2>3, OrderShows DEF PublishingFails, PublishingStops
  <2>. QED
    BY <1>6, <2>2, <2>3 DEF PublishingEnds
<1>. QED
  BY <1>2, <1>3, <1>4, <1>5, <1>6

LEMMA OrderStep ==
    ASSUME TypeOK, GateInv, WholeInv, [Next]_vars
    PROVE  [Video!Next]_(Video!vars)
<1>1. CASE UNCHANGED vars
  BY <1>1 DEF vars, spent, stored, history, Video!vars
<1>. QED
  BY <1>1, NextCases, OrderOutside, OrderDecides, OrderNodes

\* With any number of calls, attempts and crashes, whether or not calls race: a run keeps the
\* order of VideoRun.  Ideas are approved before clips are paid for, clips are paid for before
\* a render, both gates are approved and a render is made before an upload, and nothing
\* calls the run completed that has not stored the URL of an upload.
THEOREM RunsKeepOrder == Spec => OrderKept
<1>1. Init => Video!Init
  BY DEF Init, Video!Init
<1>2. TypeOK /\ GateInv /\ WholeInv /\ [Next]_vars => [Video!Next]_(Video!vars)
  BY OrderStep
<1>. QED
  BY TypeCorrect, GateInvHolds, WholeInvHolds, <1>1, <1>2, PTL DEF Spec, OrderKept, Video!Spec

=============================================================================
