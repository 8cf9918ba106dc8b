--------------------------- MODULE RunStart_proofs ---------------------------
(***************************************************************************)
(* Proofs about module RunStart, for every finite number of requests and   *)
(* runs, any messages, limits and number of crashes.                       *)
(***************************************************************************)
EXTENDS RunStart, FiniteSetTheorems, TLAPS

\* The handler h executes, or has just executed, the graph of run r.
Holds(h, r) == req[h].run = r /\ req[h].pc \in {"task", "opening", "graph", "returned"}

\* A row that is not there yet has left no trace.
FreshRows ==
    \A r \in Runs : status[r] = "none" =>
        /\ thread[r] = "none" /\ job[r] = "none" /\ r \notin young
        /\ \A h \in Handlers : ~Holds(h, r)

\* Whoever executes a graph does so for a run, and a graph that runs has a thread.
HoldersHaveRuns ==
    \A h \in Handlers :
        /\ req[h].pc \in {"task", "opening", "graph", "returned"} => req[h].run \in Runs
        /\ req[h].pc = "graph" => thread[req[h].run] # "none"

\* A turn of the supervisor is about a message.
TurnsHaveMessages ==
    \A h \in Handlers :
        /\ req[h].pc \in {"turn", "looked"} => req[h].door = "supervisor"
        /\ req[h].door = "supervisor" => req[h].msg \in Messages

\* What start_run got back from the graph is no longer under way.
ResultsAreFinal ==
    /\ \A h \in Handlers : req[h].pc = "returned" => req[h].result \notin {"pending", "running"}
    /\ \A r \in Runs : thread[r] # "pending"

\* A run with a job is left to the worker.
OneExecutor == \A r \in Runs : job[r] # "none" => \A h \in Handlers : ~Holds(h, r)

\* Until a worker takes the job, nothing happens to its run.
QueuedIsPending ==
    \A r \in Runs : (job[r] = "queued" /\ r \notin lost \cup dropped)
                        => status[r] = "pending" /\ thread[r] = "none"

\* NoOrphan but for the runs whose last write by start_run did not come about,
\* which takes what MirrorInv says of them.
NoEarlyOrphan ==
    \A r \in Runs :
        (status[r] \in {"pending", "running"} /\ r \notin lost \cup dropped \cup outrun)
            => Executed(r) \/ thread[r] = "failed"

StartInv ==
    /\ TypeOK
    /\ FreshRows /\ HoldersHaveRuns /\ TurnsHaveMessages /\ ResultsAreFinal
    /\ OneExecutor /\ QueuedIsPending
    /\ NoEarlyOrphan

-----------------------------------------------------------------------------
(* The invariant.                                                          *)

\* The invariant holds to begin with.
LEMMA StartInvInit == Init => StartInv
  <1>. SUFFICES ASSUME Init
                PROVE  StartInv
    OBVIOUS
  <1>1. NoRequest \in Request
    BY DEF NoRequest, Request, Doors, Statuses
  <1>2. TypeOK
    BY <1>1 DEF Init, TypeOK, Doors
  <1>3. FreshRows /\ HoldersHaveRuns /\ TurnsHaveMessages /\ ResultsAreFinal
        /\ OneExecutor /\ QueuedIsPending
    BY DEF Init, NoRequest, Holds, FreshRows, HoldersHaveRuns, TurnsHaveMessages,
           ResultsAreFinal, OneExecutor, QueuedIsPending
  <1>4. NoEarlyOrphan
    BY DEF Init, NoEarlyOrphan
  <1>. QED
    BY <1>2, <1>3, <1>4 DEF StartInv

\* What the steps make of a request is a request.
LEMMA RequestsChange ==
    ASSUME NEW q \in Request, NEW r \in Runs \cup {NoRun}, NEW d \in Doors, NEW s \in Statuses,
           NEW p \in {"idle", "counted", "turn", "looked", "task", "opening", "graph", "returned"}
    PROVE  /\ [q EXCEPT !.pc = p] \in Request
           /\ [q EXCEPT !.pc = p, !.run = r] \in Request
           /\ [q EXCEPT !.pc = p, !.door = d, !.run = r] \in Request
           /\ [q EXCEPT !.pc = p, !.result = s] \in Request
  <1>1. [q EXCEPT !.pc = p] \in Request /\ [q EXCEPT !.pc = p, !.run = r] \in Request
    BY DEF Request
  <1>2. [q EXCEPT !.pc = p, !.door = d, !.run = r] \in Request
    BY DEF Request
  <1>3. [q EXCEPT !.pc = p, !.result = s] \in Request
    BY DEF Request
  <1>. QED
    BY <1>1, <1>2, <1>3

\* The request of a new turn, and of a request that has been counted.
LEMMA RequestsBegin ==
    /\ NoRequest \in Request
    /\ \A m \in Messages : [NoRequest EXCEPT !.pc = "turn", !.door = "supervisor", !.msg = m] \in Request
    /\ \A d \in Doors : [NoRequest EXCEPT !.pc = "counted", !.door = d] \in Request
  <1>1. NoRequest \in Request
    BY DEF NoRequest, Request, Doors, Statuses
  <1>2. \A m \in Messages : [NoRequest EXCEPT !.pc = "turn", !.door = "supervisor", !.msg = m] \in Request
    BY DEF NoRequest, Request, Doors, Statuses
  <1>3. \A d \in Doors : [NoRequest EXCEPT !.pc = "counted", !.door = d] \in Request
    BY DEF NoRequest, Request, Doors, Statuses
  <1>. QED
    BY <1>1, <1>2, <1>3

\* Every step keeps the requests requests.
LEMMA RequestStep ==
    TypeOK /\ HoldersHaveRuns /\ [Next]_vars => req' \in [Handlers -> Request]
  <1>. SUFFICES ASSUME TypeOK, HoldersHaveRuns, [Next]_vars
                PROVE  req' \in [Handlers -> Request]
    OBVIOUS
  <1>r. req \in [Handlers -> Request]
    BY DEF TypeOK
  <1>e. ASSUME NEW h \in Handlers, Ends(h)
        PROVE  req' \in [Handlers -> Request]
    BY <1>r, <1>e, RequestsBegin DEF Ends
  <1>p. ASSUME NEW h \in Handlers,
               NEW p \in {"idle", "counted", "turn", "looked", "task", "opening", "graph", "returned"},
               Goes(h, p)
        PROVE  req' \in [Handlers -> Request]
    <2>1. [req[h] EXCEPT !.pc = p] \in Request
      BY <1>r, RequestsChange DEF Doors, Statuses
    <2>. QED
      BY <1>r, <1>p, <2>1 DEF Goes
  <1>1. ASSUME NEW h \in Handlers, Handle(h)
        PROVE  req' \in [Handlers -> Request]
    <2>1. ASSUME NEW d \in Doors, CountRuns(h, d)
          PROVE  req' \in [Handlers -> Request]
      BY <2>1, <1>r, RequestsBegin DEF CountRuns
    <2>2. ASSUME NEW m \in Updates, TelegramWebhook(h, m)
          PROVE  req' \in [Handlers -> Request]
      BY <2>2, <1>r, RequestsBegin DEF TelegramWebhook, Turn, Messages
    <2>3. ASSUME NEW m \in Chats, Chat(h, m)
          PROVE  req' \in [Handlers -> Request]
      BY <2>3, <1>r, RequestsBegin DEF Chat, Turn, Messages
    <2>4. ASSUME Refuse(h)
          PROVE  req' \in [Handlers -> Request]
      BY <2>4, <1>e DEF Refuse
    <2>5. ASSUME Look(h)
          PROVE  req' \in [Handlers -> Request]
      BY <2>5, <1>p DEF Look
    <2>6. ASSUME NEW r \in Runs, StartRun(h, r)
          PROVE  req' \in [Handlers -> Request]
      <3>1. door'[r] = "runs" /\ "runs" \in Doors
        BY <2>6 DEF StartRun, NewRun, TypeOK, Doors
      <3>2. [req[h] EXCEPT !.pc = "task", !.door = "runs", !.run = r] \in Request
        BY <1>r, <3>1, RequestsChange DEF Statuses
      <3>. QED
        BY <2>6, <1>r, <1>e, <3>1, <3>2 DEF StartRun, Dispatch
    <2>7. ASSUME NEW r \in Runs, PublicDemoStart(h, r)
          PROVE  req' \in [Handlers -> Request]
      <3>1. door'[r] = "demo" /\ "demo" \in Doors
        BY <2>7 DEF PublicDemoStart, NewRun, TypeOK, Doors
      <3>2. [req[h] EXCEPT !.pc = "task", !.door = "demo", !.run = r] \in Request
        BY <1>r, <3>1, RequestsChange DEF Statuses
      <3>. QED
        BY <2>7, <1>r, <1>e, <3>1, <3>2 DEF PublicDemoStart, Dispatch
    <2>8. ASSUME NEW r \in Runs, StartGraphRun(h, r)
          PROVE  req' \in [Handlers -> Request]
      <3>1. [req[h] EXCEPT !.pc = "opening", !.run = r] \in Request
        BY <1>r, RequestsChange DEF Statuses, Doors
      <3>. QED
        BY <2>8, <1>r, <3>1 DEF StartGraphRun
    <2>9. ASSUME NEW r \in Runs, StartWorkflow(h, r)
          PROVE  req' \in [Handlers -> Request]
      <3>1. [req[h] EXCEPT !.pc = "task", !.run = r] \in Request
        BY <1>r, RequestsChange DEF Statuses, Doors
      <3>. QED
        BY <2>9, <1>r, <3>1 DEF StartWorkflow
    <2>10. ASSUME RunTask(h)
          PROVE  req' \in [Handlers -> Request]
      BY <2>10, <1>p DEF RunTask
    <2>11. ASSUME GraphReturns(h)
          PROVE  req' \in [Handlers -> Request]
      <3>1. req[h].run \in Runs /\ thread[req[h].run] # "none"
        BY <2>11 DEF GraphReturns, At, HoldersHaveRuns
      <3>2. thread'[req[h].run] \in Statuses
        BY <2>11, <3>1 DEF GraphReturns, Ideation, TypeOK, Statuses, Gate
      <3>3. CASE From(h, "supervisor")
        <4>1. [req[h] EXCEPT !.pc = "turn", !.run = NoRun] \in Request
          BY <1>r, RequestsChange DEF Statuses, Doors
        <4>2. req' = [req EXCEPT ![h].pc = "turn", ![h].run = NoRun]
          BY <2>11, <3>3 DEF GraphReturns, From
        <4>. QED
          BY <1>r, <4>1, <4>2
      <3>4. CASE ~From(h, "supervisor") /\ From(h, "langgraph") /\ thread'[req[h].run] # "running"
        <4>1. [req[h] EXCEPT !.pc = "returned", !.result = thread'[req[h].run]] \in Request
          BY <1>r, <3>2, RequestsChange DEF Doors
        <4>2. req' = [req EXCEPT ![h].pc = "returned", ![h].result = thread'[req[h].run]]
          BY <2>11, <3>4 DEF GraphReturns
        <4>. QED
          BY <1>r, <4>1, <4>2
      <3>5. CASE ~From(h, "supervisor") /\ ~(From(h, "langgraph") /\ thread'[req[h].run] # "running")
        BY <2>11, <1>e, <3>5 DEF GraphReturns
      <3>. QED
        BY <3>3, <3>4, <3>5
    <2>12. ASSUME Persist(h)
          PROVE  req' \in [Handlers -> Request]
      BY <2>12, <1>e DEF Persist
    <2>13. ASSUME Opens(h)
          PROVE  req' \in [Handlers -> Request]
      BY <2>13, <1>p DEF Opens
    <2>14. ASSUME Drops(h)
          PROVE  req' \in [Handlers -> Request]
      <3>1. CASE From(h, "supervisor")
        <4>1. [req[h] EXCEPT !.pc = "turn", !.run = NoRun] \in Request
          BY <1>r, RequestsChange DEF Statuses, Doors
        <4>2. req' = [req EXCEPT ![h].pc = "turn", ![h].run = NoRun]
          BY <2>14, <3>1 DEF Drops
        <4>. QED
          BY <1>r, <4>1, <4>2
      <3>2. CASE ~From(h, "supervisor")
        BY <2>14, <1>e, <3>2 DEF Drops
      <3>. QED
        BY <3>1, <3>2
    <2>. QED
      BY <1>1, <2>1, <2>2, <2>3, <2>4, <2>5, <2>6, <2>7, <2>8, <2>9, <2>10, <2>11, <2>12,
         <2>13, <2>14 DEF Handle
  <1>2. ASSUME NEW r \in Runs, Follow(r)
        PROVE  req' \in [Handlers -> Request]
    <2>1. CASE RunAges(r)
      BY <2>1, <1>r DEF RunAges
    <2>2. CASE TakeJob(r)
      BY <2>2, <1>r DEF TakeJob, Running
    <2>3. CASE JobReturns(r)
      BY <2>3, <1>r DEF JobReturns, Ideation
    <2>4. CASE PublicDemoDecides(r)
      BY <2>4, <1>r DEF PublicDemoDecides, Decided, Reach
    <2>5. CASE TelegramCallback(r)
      BY <2>5, <1>r DEF TelegramCallback, Decided, Reach
    <2>6. CASE InterruptRoutes(r)
      BY <2>6, <1>r DEF InterruptRoutes, Decided, Reach
    <2>7. CASE Continue(r)
      BY <2>7, <1>r DEF Continue, Reach
    <2>8. CASE WorkerCrashes(r)
      BY <2>8, <1>r DEF WorkerCrashes
    <2>9. CASE JobDrops(r)
      BY <2>9, <1>r DEF JobDrops
    <2>. QED
      BY <1>2, <2>1, <2>2, <2>3, <2>4, <2>5, <2>6, <2>7, <2>8, <2>9 DEF Follow
  <1>3. ASSUME NEW m \in Updates, KeyExpires(m)
        PROVE  req' \in [Handlers -> Request]
    BY <1>3, <1>r DEF KeyExpires
  <1>4. CASE ApiCrashes
    BY <1>4, RequestsBegin DEF ApiCrashes
  <1>5. CASE UNCHANGED vars
    BY <1>5, <1>r DEF vars
  <1>. QED
    BY <1>1, <1>2, <1>3, <1>4, <1>5 DEF Next

\* Every step keeps the types.
LEMMA TypeStep == TypeOK /\ HoldersHaveRuns /\ TurnsHaveMessages /\ [Next]_vars => TypeOK'
  <1>. SUFFICES ASSUME TypeOK, HoldersHaveRuns, TurnsHaveMessages, [Next]_vars
                PROVE  TypeOK'
    OBVIOUS
  <1>r. req \in [Handlers -> Request] /\ req' \in [Handlers -> Request]
    BY RequestStep DEF TypeOK
  <1>f. \A h \in Handlers : req[h].result \in Statuses /\ req[h].msg \in Messages \cup {NoMessage}
                            /\ req[h].run \in Runs \cup {NoRun}
    BY <1>r DEF Request
  <1>. USE DEF TypeOK, HoldersHaveRuns, Statuses, Gate, rows, history, At
  <1>1. ASSUME NEW h \in Handlers, Handle(h)
        PROVE  TypeOK'
    <2>1. ASSUME NEW d \in Doors, CountRuns(h, d)
          PROVE  TypeOK'
      BY <2>1, <1>r DEF CountRuns
    <2>2. ASSUME NEW m \in Updates, TelegramWebhook(h, m)
          PROVE  TypeOK'
      BY <2>2, <1>r DEF TelegramWebhook
    <2>3. ASSUME NEW m \in Chats, Chat(h, m)
          PROVE  TypeOK'
      BY <2>3, <1>r DEF Chat
    <2>4. ASSUME Refuse(h)
          PROVE  TypeOK'
      BY <2>4, <1>r DEF Refuse
    <2>5. ASSUME Look(h)
          PROVE  TypeOK'
      BY <2>5, <1>r DEF Look
    <2>6. ASSUME NEW r \in Runs, StartRun(h, r)
          PROVE  TypeOK'
      BY <2>6, <1>r DEF Doors, StartRun, NewRun, Dispatch
    <2>7. ASSUME NEW r \in Runs, PublicDemoStart(h, r)
          PROVE  TypeOK'
      BY <2>7, <1>r DEF Doors, PublicDemoStart, NewRun, Dispatch
    <2>8. ASSUME NEW r \in Runs, StartGraphRun(h, r)
          PROVE  TypeOK'
      BY <2>8, <1>r DEF Doors, StartGraphRun, NewRun
    <2>9. ASSUME NEW r \in Runs, StartWorkflow(h, r)
          PROVE  TypeOK'
      <3>1. req[h].msg \in Messages
        BY <2>9 DEF StartWorkflow, TurnsHaveMessages
      <3>2. twins' \in SUBSET Messages
        BY <2>9, <3>1 DEF StartWorkflow
      <3>. QED
        BY <2>9, <1>r, <3>1, <3>2 DEF Doors, StartWorkflow, NewRun
    <2>10. ASSUME RunTask(h)
          PROVE  TypeOK'
      BY <2>10, <1>r DEF RunTask, Running
    <2>11. ASSUME GraphReturns(h)
          PROVE  TypeOK'
      BY <2>11, <1>r DEF GraphReturns, Ideation
    <2>12. ASSUME Persist(h)
          PROVE  TypeOK'
      BY <2>12, <1>r, <1>f DEF Persist
    <2>13. ASSUME Opens(h)
          PROVE  TypeOK'
      BY <2>13, <1>r DEF Opens
    <2>14. ASSUME Drops(h)
          PROVE  TypeOK'
      BY <2>14, <1>r DEF Drops
    <2>. QED
      BY <1>1, <2>1, <2>2, <2>3, <2>4, <2>5, <2>6, <2>7, <2>8, <2>9, <2>10, <2>11, <2>12,
         <2>13, <2>14 DEF Handle
  <1>2. ASSUME NEW r \in Runs, Follow(r)
        PROVE  TypeOK'
    <2>1. CASE RunAges(r)
      BY <2>1, <1>r DEF RunAges
    <2>2. CASE TakeJob(r)
      BY <2>2, <1>r DEF TakeJob, Running
    <2>3. CASE JobReturns(r)
      BY <2>3, <1>r DEF JobReturns, Ideation
    <2>4. CASE PublicDemoDecides(r)
      BY <2>4, <1>r DEF PublicDemoDecides, Decided, Reach
    <2>5. CASE TelegramCallback(r)
      BY <2>5, <1>r DEF TelegramCallback, Decided, Reach
    <2>6. CASE InterruptRoutes(r)
      BY <2>6, <1>r DEF InterruptRoutes, Decided, Reach
    <2>7. CASE Continue(r)
      BY <2>7, <1>r DEF Continue, Reach
    <2>8. CASE WorkerCrashes(r)
      BY <2>8, <1>r DEF WorkerCrashes
    <2>9. CASE JobDrops(r)
      BY <2>9, <1>r DEF JobDrops
    <2>. QED
      BY <1>2, <2>1, <2>2, <2>3, <2>4, <2>5, <2>6, <2>7, <2>8, <2>9 DEF Follow
  <1>3. ASSUME NEW m \in Updates, KeyExpires(m)
        PROVE  TypeOK'
    BY <1>3, <1>r DEF KeyExpires
  <1>4. CASE ApiCrashes
    BY <1>4, <1>r, <1>f DEF ApiCrashes
  <1>5. CASE UNCHANGED vars
    BY <1>5, <1>r DEF vars
  <1>. QED
    BY <1>1, <1>2, <1>3, <1>4, <1>5 DEF Next

\* What a step changes of the rows, the threads, the jobs and the requests that
\* execute graphs keeps the rest of the invariant.
LEMMA StartInvStep == StartInv /\ [Next]_vars => StartInv'
  <1>. SUFFICES ASSUME StartInv, [Next]_vars
                PROVE  StartInv'
    OBVIOUS
  <1>. DEFINE Rest == /\ FreshRows /\ HoldersHaveRuns /\ TurnsHaveMessages /\ ResultsAreFinal
                      /\ OneExecutor /\ QueuedIsPending /\ NoEarlyOrphan
  <1>. SUFFICES Rest'
    BY TypeStep DEF StartInv
  <1>t. TypeOK /\ Rest
    BY DEF StartInv
  <1>. USE <1>t DEF TypeOK, Request, NoRequest, Statuses, Gate, Budgeted, rows, history, At, From, Holds, Executed,
               FreshRows, HoldersHaveRuns, TurnsHaveMessages, ResultsAreFinal, OneExecutor,
               QueuedIsPending, NoEarlyOrphan
  <1>1. ASSUME NEW h \in Handlers, Handle(h)
        PROVE  Rest'
    <2>1. ASSUME NEW d \in Doors, CountRuns(h, d)
          PROVE  Rest'
      BY <2>1 DEF CountRuns
    <2>2. ASSUME NEW m \in Updates, TelegramWebhook(h, m)
          PROVE  Rest'
      <3>1. CASE m \in keys
        BY <2>2, <3>1 DEF TelegramWebhook
      <3>2. CASE m \notin keys
        <4>. m \in Messages /\ UNCHANGED <<rows, outrun, lost, dropped>> /\ Turn(h, m) /\ At(h, "idle")
          BY <2>2, <3>2 DEF TelegramWebhook, Messages
        <4>1. FreshRows'
          BY SMT DEF Turn
        <4>2. HoldersHaveRuns'
          BY SMT DEF Turn
        <4>3. TurnsHaveMessages'
          BY SMT DEF Turn
        <4>4. ResultsAreFinal'
          BY SMT DEF Turn
        <4>5. OneExecutor'
          BY SMT DEF Turn
        <4>6. QueuedIsPending'
          BY SMT DEF Turn
        <4>7. NoEarlyOrphan'
          BY SMT DEF Turn
        <4>. QED
          BY <4>1, <4>2, <4>3, <4>4, <4>5, <4>6, <4>7
      <3>. QED
        BY <3>1, <3>2
    <2>3. ASSUME NEW m \in Chats, Chat(h, m)
          PROVE  Rest'
      BY <2>3 DEF Chat, Turn, Messages
    <2>4. ASSUME Refuse(h)
          PROVE  Rest'
      BY <2>4 DEF Refuse, Ends
    <2>5. ASSUME Look(h)
          PROVE  Rest'
      BY <2>5 DEF Look, Goes
    <2>6. ASSUME NEW r \in Runs, StartRun(h, r)
          PROVE  Rest'
      <3>1. status[r] = "none" /\ door'[r] = "runs"
        BY <2>6 DEF StartRun, NewRun
      <3>2. CASE dispatcher = "db"
        <4>1. FreshRows'
          BY <2>6, <3>1, <3>2 DEF StartRun, NewRun, Dispatch, Ends
        <4>2. HoldersHaveRuns'
          BY <2>6, <3>1, <3>2 DEF StartRun, NewRun, Dispatch, Ends
        <4>3. TurnsHaveMessages'
          BY <2>6, <3>1, <3>2 DEF StartRun, NewRun, Dispatch, Ends
        <4>4. ResultsAreFinal'
          BY <2>6, <3>1, <3>2 DEF StartRun, NewRun, Dispatch, Ends
        <4>5. OneExecutor'
          BY <2>6, <3>1, <3>2 DEF StartRun, NewRun, Dispatch, Ends
        <4>6. QueuedIsPending'
          BY <2>6, <3>1, <3>2 DEF StartRun, NewRun, Dispatch, Ends
        <4>7. NoEarlyOrphan'
          BY <2>6, <3>1, <3>2 DEF StartRun, NewRun, Dispatch, Ends
        <4>. QED
          BY <4>1, <4>2, <4>3, <4>4, <4>5, <4>6, <4>7
      <3>3. CASE dispatcher # "db"
        <4>. req' = [req EXCEPT ![h].pc = "task", ![h].door = "runs", ![h].run = r]
          BY <2>6, <3>1, <3>3 DEF StartRun, Dispatch
        <4>1. FreshRows'
          BY <2>6, <3>1, <3>3 DEF StartRun, NewRun, Dispatch
        <4>2. HoldersHaveRuns'
          BY <2>6, <3>1, <3>3 DEF StartRun, NewRun, Dispatch
        <4>3. TurnsHaveMessages'
          BY <2>6, <3>1, <3>3 DEF StartRun, NewRun, Dispatch
        <4>4. ResultsAreFinal'
          BY <2>6, <3>1, <3>3 DEF StartRun, NewRun, Dispatch
        <4>5. OneExecutor'
          BY <2>6, <3>1, <3>3 DEF StartRun, NewRun, Dispatch
        <4>6. QueuedIsPending'
          BY <2>6, <3>1, <3>3 DEF StartRun, NewRun, Dispatch
        <4>7. NoEarlyOrphan'
          BY <2>6, <3>1, <3>3 DEF StartRun, NewRun, Dispatch
        <4>. QED
          BY <4>1, <4>2, <4>3, <4>4, <4>5, <4>6, <4>7
      <3>. QED
        BY <3>2, <3>3
    <2>7. ASSUME NEW r \in Runs, PublicDemoStart(h, r)
          PROVE  Rest'
      <3>1. status[r] = "none" /\ door'[r] = "demo"
        BY <2>7 DEF PublicDemoStart, NewRun
      <3>2. CASE dispatcher = "db"
        <4>1. FreshRows'
          BY <2>7, <3>1, <3>2 DEF PublicDemoStart, NewRun, Dispatch, Ends
        <4>2. HoldersHaveRuns'
          BY <2>7, <3>1, <3>2 DEF PublicDemoStart, NewRun, Dispatch, Ends
        <4>3. TurnsHaveMessages'
          BY <2>7, <3>1, <3>2 DEF PublicDemoStart, NewRun, Dispatch, Ends
        <4>4. ResultsAreFinal'
          BY <2>7, <3>1, <3>2 DEF PublicDemoStart, NewRun, Dispatch, Ends
        <4>5. OneExecutor'
          BY <2>7, <3>1, <3>2 DEF PublicDemoStart, NewRun, Dispatch, Ends
        <4>6. QueuedIsPending'
          BY <2>7, <3>1, <3>2 DEF PublicDemoStart, NewRun, Dispatch, Ends
        <4>7. NoEarlyOrphan'
          BY <2>7, <3>1, <3>2 DEF PublicDemoStart, NewRun, Dispatch, Ends
        <4>. QED
          BY <4>1, <4>2, <4>3, <4>4, <4>5, <4>6, <4>7
      <3>3. CASE dispatcher # "db"
        <4>. req' = [req EXCEPT ![h].pc = "task", ![h].door = "demo", ![h].run = r]
          BY <2>7, <3>1, <3>3 DEF PublicDemoStart, Dispatch
        <4>1. FreshRows'
          BY <2>7, <3>1, <3>3 DEF PublicDemoStart, NewRun, Dispatch
        <4>2. HoldersHaveRuns'
          BY <2>7, <3>1, <3>3 DEF PublicDemoStart, NewRun, Dispatch
        <4>3. TurnsHaveMessages'
          BY <2>7, <3>1, <3>3 DEF PublicDemoStart, NewRun, Dispatch
        <4>4. ResultsAreFinal'
          BY <2>7, <3>1, <3>3 DEF PublicDemoStart, NewRun, Dispatch
        <4>5. OneExecutor'
          BY <2>7, <3>1, <3>3 DEF PublicDemoStart, NewRun, Dispatch
        <4>6. QueuedIsPending'
          BY <2>7, <3>1, <3>3 DEF PublicDemoStart, NewRun, Dispatch
        <4>7. NoEarlyOrphan'
          BY <2>7, <3>1, <3>3 DEF PublicDemoStart, NewRun, Dispatch
        <4>. QED
          BY <4>1, <4>2, <4>3, <4>4, <4>5, <4>6, <4>7
      <3>. QED
        BY <3>2, <3>3
    <2>8. ASSUME NEW r \in Runs, StartGraphRun(h, r)
          PROVE  Rest'
      <3>1. /\ status[r] = "none" /\ UNCHANGED <<thread, job, lost, outrun, dropped>>
            /\ \A q \in Runs \ {r} : status'[q] = status[q]
            /\ young' = young \cup {r} /\ status'[r] # "none"
        BY <2>8 DEF StartGraphRun, NewRun
      <3>2. /\ \A g \in Handlers \ {h} : req'[g] = req[g]
            /\ req'[h].pc = "opening" /\ req'[h].run = r
            /\ req'[h].door = req[h].door /\ req'[h].msg = req[h].msg
            /\ req'[h].result = req[h].result
        BY <2>8 DEF StartGraphRun
      <3>3. FreshRows'
        BY <3>1, <3>2
      <3>4. HoldersHaveRuns'
        BY <3>1, <3>2
      <3>5. TurnsHaveMessages'
        BY <2>8, <3>1, <3>2 DEF StartGraphRun, NewRun
      <3>6. ResultsAreFinal'
        BY <3>1, <3>2
      <3>7. OneExecutor'
        BY <3>1, <3>2
      <3>8. QueuedIsPending'
        BY <3>1, <3>2
      <3>9. NoEarlyOrphan'
        <4>0. req[h].pc = "counted"
          BY <2>8 DEF StartGraphRun
        <4>1. Executed(r)'
          BY <3>2
        <4>2. ASSUME NEW q \in Runs, q # r, Executed(q)
              PROVE  Executed(q)'
          BY <3>1, <3>2, <4>0, <4>2
        <4>. HIDE DEF Executed
        <4>. QED
          BY <3>1, <4>1, <4>2
      <3>. QED
        BY <3>3, <3>4, <3>5, <3>6, <3>7, <3>8, <3>9
    <2>9. ASSUME NEW r \in Runs, StartWorkflow(h, r)
          PROVE  Rest'
      <3>1. /\ status[r] = "none" /\ UNCHANGED <<thread, job, lost, outrun, dropped>>
            /\ \A q \in Runs \ {r} : status'[q] = status[q]
            /\ young' = young \cup {r} /\ status'[r] # "none"
        BY <2>9 DEF StartWorkflow, NewRun
      <3>2. /\ \A g \in Handlers \ {h} : req'[g] = req[g]
            /\ req'[h].pc = "task" /\ req'[h].run = r
            /\ req'[h].door = req[h].door /\ req'[h].msg = req[h].msg
            /\ req'[h].result = req[h].result
        BY <2>9 DEF StartWorkflow
      <3>3. FreshRows'
        BY <3>1, <3>2
      <3>4. HoldersHaveRuns'
        BY <3>1, <3>2
      <3>5. TurnsHaveMessages'
        BY <2>9, <3>1, <3>2 DEF StartWorkflow, NewRun
      <3>6. ResultsAreFinal'
        BY <3>1, <3>2
      <3>7. OneExecutor'
        BY <3>1, <3>2
      <3>8. QueuedIsPending'
        BY <3>1, <3>2
      <3>9. NoEarlyOrphan'
        <4>0. req[h].pc = "looked"
          BY <2>9 DEF StartWorkflow
        <4>1. Executed(r)'
          BY <3>2
        <4>2. ASSUME NEW q \in Runs, q # r, Executed(q)
              PROVE  Executed(q)'
          BY <3>1, <3>2, <4>0, <4>2
        <4>. HIDE DEF Executed
        <4>. QED
          BY <3>1, <4>1, <4>2
      <3>. QED
        BY <3>3, <3>4, <3>5, <3>6, <3>7, <3>8, <3>9
    <2>10. ASSUME RunTask(h)
          PROVE  Rest'
      BY <2>10 DEF RunTask, Running, Goes
    <2>11. ASSUME GraphReturns(h)
          PROVE  Rest'
      <3>1. /\ req[h].run \in Runs /\ At(h, "graph") /\ Ideation(req[h].run)
            /\ status[req[h].run] # "none"
            /\ UNCHANGED <<job, young, lost, outrun, dropped>>
        BY <2>11 DEF GraphReturns
      <3>2. CASE From(h, "supervisor")
        <4>. req' = [req EXCEPT ![h].pc = "turn", ![h].run = NoRun]
          BY <2>11, <3>2 DEF GraphReturns
        <4>1. FreshRows'
          BY <3>1 DEF Ideation
        <4>2. HoldersHaveRuns'
          BY <3>1 DEF Ideation
        <4>3. TurnsHaveMessages'
          BY <3>1, <3>2
        <4>4. ResultsAreFinal'
          BY <3>1 DEF Ideation
        <4>5. OneExecutor'
          BY <3>1 DEF Ideation
        <4>6. QueuedIsPending'
          BY <3>1 DEF Ideation
        <4>7. NoEarlyOrphan'
          BY <3>1 DEF Ideation
        <4>. QED
          BY <4>1, <4>2, <4>3, <4>4, <4>5, <4>6, <4>7
      <3>3. CASE ~From(h, "supervisor") /\ From(h, "langgraph") /\ thread'[req[h].run] # "running"
        <4>. req' = [req EXCEPT ![h].pc = "returned", ![h].result = thread'[req[h].run]]
          BY <2>11, <3>3 DEF GraphReturns
        <4>1. FreshRows'
          BY <3>1, <3>3 DEF Ideation
        <4>2. HoldersHaveRuns'
          BY <3>1, <3>3 DEF Ideation
        <4>3. TurnsHaveMessages'
          BY <3>1, <3>3
        <4>4. ResultsAreFinal'
          BY <3>1, <3>3 DEF Ideation
        <4>5. OneExecutor'
          BY <3>1, <3>3 DEF Ideation
        <4>6. QueuedIsPending'
          BY <3>1, <3>3 DEF Ideation
        <4>7. NoEarlyOrphan'
          BY <3>1, <3>3 DEF Ideation
        <4>. QED
          BY <4>1, <4>2, <4>3, <4>4, <4>5, <4>6, <4>7
      <3>4. CASE ~From(h, "supervisor") /\ ~(From(h, "langgraph") /\ thread'[req[h].run] # "running")
        <4>. Ends(h)
          BY <2>11, <3>4 DEF GraphReturns
        <4>1. FreshRows'
          BY <3>1 DEF Ideation, Ends
        <4>2. HoldersHaveRuns'
          BY <3>1 DEF Ideation, Ends
        <4>3. TurnsHaveMessages'
          <5>1. \A g \in Handlers : req'[g] \in {req[g], NoRequest}
            BY DEF Ends
          <5>. QED
            BY <5>1
        <4>4. ResultsAreFinal'
          BY <3>1 DEF Ideation, Ends
        <4>5. OneExecutor'
          BY <3>1 DEF Ideation, Ends
        <4>6. QueuedIsPending'
          BY <3>1 DEF Ideation, Ends
        <4>7. NoEarlyOrphan'
          BY <3>1 DEF Ideation, Ends
        <4>. QED
          BY <4>1, <4>2, <4>3, <4>4, <4>5, <4>6, <4>7
      <3>. QED
        BY <3>2, <3>3, <3>4
    <2>12. ASSUME Persist(h)
          PROVE  Rest'
      BY <2>12 DEF Persist, Ends
    <2>13. ASSUME Opens(h)
          PROVE  Rest'
      BY <2>13 DEF Opens, Goes
    <2>14. ASSUME Drops(h)
          PROVE  Rest'
      <3>1. /\ req[h].run \in Runs /\ req[h].pc \in {"task", "opening", "graph"}
            /\ dropped' = dropped \cup {req[h].run}
            /\ UNCHANGED <<rows, outrun, lost>>
        BY <2>14 DEF Drops
      <3>2. /\ \A g \in Handlers \ {h} : req'[g] = req[g]
            /\ req'[h].pc \in {"turn", "idle"}
            /\ req'[h].door = "supervisor" => req[h].door = "supervisor" /\ req'[h].msg = req[h].msg
            /\ req'[h].pc = "turn" => req'[h].door = "supervisor"
        <4>1. CASE From(h, "supervisor")
          <5>1. req' = [req EXCEPT ![h].pc = "turn", ![h].run = NoRun]
            BY <2>14, <4>1 DEF Drops
          <5>. QED
            BY <4>1, <5>1
        <4>2. CASE ~From(h, "supervisor")
          <5>1. req' = [req EXCEPT ![h] = NoRequest]
            BY <2>14, <4>2 DEF Drops, Ends
          <5>. QED
            BY <5>1
        <4>. QED
          BY <4>1, <4>2
      <3>3. FreshRows'
        BY <3>1, <3>2
      <3>4. HoldersHaveRuns'
        BY <3>1, <3>2
      <3>5. TurnsHaveMessages'
        BY <3>1, <3>2
      <3>6. ResultsAreFinal'
        BY <3>1, <3>2
      <3>7. OneExecutor'
        BY <3>1, <3>2
      <3>8. QueuedIsPending'
        BY <3>1, <3>2
      <3>9. NoEarlyOrphan'
        BY <3>1, <3>2
      <3>. QED
        BY <3>3, <3>4, <3>5, <3>6, <3>7, <3>8, <3>9
    <2>. QED
      BY <1>1, <2>1, <2>2, <2>3, <2>4, <2>5, <2>6, <2>7, <2>8, <2>9, <2>10, <2>11, <2>12,
         <2>13, <2>14 DEF Handle
  <1>2. ASSUME NEW r \in Runs, Follow(r)
        PROVE  Rest'
    <2>1. CASE RunAges(r)
      BY <2>1 DEF RunAges
    <2>2. CASE TakeJob(r)
      BY <2>2 DEF TakeJob, Running
    <2>3. CASE JobReturns(r)
      BY <2>3 DEF JobReturns, Ideation
    <2>4. CASE PublicDemoDecides(r)
      BY <2>4 DEF PublicDemoDecides, Decided, Reach
    <2>5. CASE TelegramCallback(r)
      BY <2>5 DEF TelegramCallback, Decided, Reach
    <2>6. CASE InterruptRoutes(r)
      BY <2>6 DEF InterruptRoutes, Decided, Reach
    <2>7. CASE Continue(r)
      BY <2>7 DEF Continue, Reach
    <2>8. CASE WorkerCrashes(r)
      BY <2>8 DEF WorkerCrashes
    <2>9. CASE JobDrops(r)
      BY <2>9 DEF JobDrops
    <2>. QED
      BY <1>2, <2>1, <2>2, <2>3, <2>4, <2>5, <2>6, <2>7, <2>8, <2>9 DEF Follow
  <1>3. ASSUME NEW m \in Updates, KeyExpires(m)
        PROVE  Rest'
    BY <1>3 DEF KeyExpires
  <1>4. CASE ApiCrashes
    BY <1>4, StartAssumption DEF ApiCrashes
  <1>5. CASE UNCHANGED vars
    BY <1>5 DEF vars
  <1>. QED
    BY <1>1, <1>2, <1>3, <1>4, <1>5 DEF Next

\* The state of the doors keeps its types, for every finite number of requests
\* and runs.
THEOREM TypesHold == Spec => []TypeOK
  <1>1. StartInv => TypeOK
    BY DEF StartInv
  <1>. QED
    BY <1>1, StartInvInit, StartInvStep, PTL DEF Spec

-----------------------------------------------------------------------------
(* The doors implement the budget.                                         *)

\* The young runs whose door asked for the budget, the others, and the
\* requests past the guard: what the refinement mapping counts.
Asked    == {r \in young : door[r] \in Budgeted}
Exempted == {r \in young : door[r] \notin Budgeted}
Passed   == {h \in Handlers : At(h, "counted")}

\* The mapped state is finite, and the guard of CountRuns counts both kinds.
LEMMA MappedSizes ==
    ASSUME TypeOK
    PROVE  /\ IsFiniteSet(Asked) /\ Cardinality(Asked) \in Nat
           /\ IsFiniteSet(Exempted) /\ Cardinality(Exempted) \in Nat
           /\ Cardinality(young) = Cardinality(Asked) + Cardinality(Exempted)
  <1>1. IsFiniteSet(young)
    BY StartAssumption, FS_Subset DEF TypeOK
  <1>2. IsFiniteSet(Asked) /\ IsFiniteSet(Exempted)
    BY <1>1, FS_Subset DEF Asked, Exempted
  <1>3. young = Asked \cup Exempted /\ Asked \cap Exempted = {}
    BY DEF Asked, Exempted
  <1>4. Cardinality(young) = Cardinality(Asked) + Cardinality(Exempted) - 0
    BY <1>2, <1>3, FS_Union, FS_EmptySet
  <1>. QED
    BY <1>2, <1>4, FS_CardinalityType

\* A step that leaves the young runs and their doors alone leaves the counts alone.
LEMMA CountsStay ==
    ASSUME UNCHANGED <<young, door>>
    PROVE  UNCHANGED <<Asked, Exempted>>
  BY DEF Asked, Exempted

\* A new run adds one to the count of its door's kind.
LEMMA CountsGrow ==
    ASSUME StartInv, NEW r \in Runs, NEW d \in Doors, NEW m, NEW s, NewRun(r, d, m, s)
    PROVE  /\ d \in Budgeted => /\ Cardinality(Asked') = Cardinality(Asked) + 1
                                /\ Exempted' = Exempted
           /\ d \notin Budgeted => /\ Cardinality(Exempted') = Cardinality(Exempted) + 1
                                   /\ Asked' = Asked
  <1>1. /\ r \notin young /\ young' = young \cup {r}
        /\ door \in [Runs -> Doors] /\ young \in SUBSET Runs
        /\ door' = [door EXCEPT ![r] = d]
    BY DEF StartInv, TypeOK, FreshRows, NewRun
  <1>2. CASE d \in Budgeted
    <2>1. Asked' = Asked \cup {r} /\ r \notin Asked /\ Exempted' = Exempted
      BY <1>1, <1>2 DEF Asked, Exempted
    <2>. QED
      BY <1>2, <2>1, MappedSizes, FS_AddElement DEF StartInv
  <1>3. CASE d \notin Budgeted
    <2>1. Exempted' = Exempted \cup {r} /\ r \notin Exempted /\ Asked' = Asked
      BY <1>1, <1>3 DEF Asked, Exempted
    <2>. QED
      BY <1>3, <2>1, MappedSizes, FS_AddElement DEF StartInv
  <1>. QED
    BY <1>2, <1>3

\* Every step of the doors is a step of the budget or leaves it alone.
LEMMA BudgetStep == StartInv /\ [Next]_vars => [Budget!Next]_Budget!vars
  <1>. SUFFICES ASSUME StartInv, [Next]_vars
                PROVE  [Budget!Next]_Budget!vars
    OBVIOUS
  <1>r. req \in [Handlers -> Request]
    BY DEF StartInv, TypeOK
  <1>c. ASSUME UNCHANGED <<young, door, Passed>>
        PROVE  [Budget!Next]_Budget!vars
    BY <1>c, CountsStay DEF Budget!vars, Passed, Asked, Exempted
  <1>n. ASSUME NEW h \in Handlers, NEW r \in Runs, NEW d \in Doors, NEW m, NEW s,
               NewRun(r, d, m, s), Passed' = Passed \ {h},
               IF d \in Budgeted THEN h \in Passed ELSE h \notin Passed
        PROVE  [Budget!Next]_Budget!vars
    <2>1. CASE d \in Budgeted
      <3>1. Budget!Create(h)
        BY <1>n, <2>1, CountsGrow DEF Budget!Create, Passed, Asked, Exempted
      <3>. QED
        BY <3>1 DEF Budget!Next
    <2>2. CASE d \notin Budgeted
      <3>1. Budget!CreateExempt
        BY <1>n, <2>2, CountsGrow DEF Budget!CreateExempt, Passed, Asked, Exempted
      <3>. QED
        BY <3>1 DEF Budget!Next
    <2>. QED
      BY <2>1, <2>2
  <1>1. ASSUME NEW h \in Handlers, Handle(h)
        PROVE  [Budget!Next]_Budget!vars
    <2>1. ASSUME NEW d \in Doors, CountRuns(h, d)
          PROVE  [Budget!Next]_Budget!vars
      <3>1. Passed' = Passed \cup {h} /\ UNCHANGED <<young, door>>
        BY <2>1, <1>r DEF CountRuns, rows, Passed, At, NoRequest, Request
      <3>2. Cardinality(Asked) + Cardinality(Exempted) < MaxRuns
        BY <2>1, MappedSizes DEF CountRuns, StartInv
      <3>3. Budget!Pass(h)
        BY <3>1, <3>2, CountsStay DEF Budget!Pass, Passed, Asked, Exempted
      <3>. QED
        BY <3>3 DEF Budget!Next
    <2>2. ASSUME NEW m \in Updates, TelegramWebhook(h, m)
          PROVE  [Budget!Next]_Budget!vars
      <3>1. UNCHANGED <<young, door>> /\ Passed' = Passed
        BY <2>2, <1>r DEF TelegramWebhook, Turn, rows, Passed, At, From, NoRequest, Request
      <3>. QED
        BY <1>c, <3>1
    <2>3. ASSUME NEW m \in Chats, Chat(h, m)
          PROVE  [Budget!Next]_Budget!vars
      <3>1. UNCHANGED <<young, door>> /\ Passed' = Passed
        BY <2>3, <1>r DEF Chat, Turn, rows, Passed, At, From, NoRequest, Request
      <3>. QED
        BY <1>c, <3>1
    <2>4. ASSUME Refuse(h)
          PROVE  [Budget!Next]_Budget!vars
      <3>1. Passed' = Passed \ {h} /\ UNCHANGED <<young, door>>
        BY <2>4, <1>r DEF Refuse, Ends, rows, Passed, At, NoRequest, Request
      <3>2. Budget!Withdraw({h})
        BY <3>1, CountsStay DEF Budget!Withdraw, Passed, Asked, Exempted
      <3>3. {h} \in SUBSET Handlers
        OBVIOUS
      <3>. QED
        BY <3>2, <3>3 DEF Budget!Next
    <2>5. ASSUME Look(h)
          PROVE  [Budget!Next]_Budget!vars
      <3>1. UNCHANGED <<young, door>> /\ Passed' = Passed
        BY <2>5, <1>r DEF Look, Goes, rows, Passed, At, From, NoRequest, Request
      <3>. QED
        BY <1>c, <3>1
    <2>6. ASSUME NEW r \in Runs, StartRun(h, r)
          PROVE  [Budget!Next]_Budget!vars
      <3>1. NewRun(r, "runs", NoMessage, "pending")
        BY <2>6 DEF StartRun
      <3>2. Passed' = Passed \ {h} /\ h \in Passed
        BY <2>6, <1>r DEF StartRun, Dispatch, Ends, Passed, At, From, NoRequest, Request
      <3>3. "runs" \in Doors /\ "runs" \in Budgeted
        BY DEF Doors, Budgeted
      <3>. QED
        BY <1>n, <3>1, <3>2, <3>3
    <2>7. ASSUME NEW r \in Runs, PublicDemoStart(h, r)
          PROVE  [Budget!Next]_Budget!vars
      <3>1. NewRun(r, "demo", NoMessage, "pending")
        BY <2>7 DEF PublicDemoStart
      <3>2. Passed' = Passed \ {h} /\ h \notin Passed
        BY <2>7, <1>r DEF PublicDemoStart, Dispatch, Ends, Passed, At, From, NoRequest, Request
      <3>3. "demo" \in Doors /\ "demo" \notin Budgeted
        BY DEF Doors, Budgeted
      <3>. QED
        BY <1>n, <3>1, <3>2, <3>3
    <2>8. ASSUME NEW r \in Runs, StartGraphRun(h, r)
          PROVE  [Budget!Next]_Budget!vars
      <3>1. NewRun(r, "langgraph", NoMessage, "running")
        BY <2>8 DEF StartGraphRun
      <3>2. Passed' = Passed \ {h} /\ h \in Passed
        BY <2>8, <1>r DEF StartGraphRun, Passed, At, From, NoRequest, Request
      <3>3. "langgraph" \in Doors /\ "langgraph" \in Budgeted
        BY DEF Doors, Budgeted
      <3>. QED
        BY <1>n, <3>1, <3>2, <3>3
    <2>9. ASSUME NEW r \in Runs, StartWorkflow(h, r)
          PROVE  [Budget!Next]_Budget!vars
      <3>1. NewRun(r, "supervisor", req[h].msg, "pending")
        BY <2>9 DEF StartWorkflow
      <3>2. Passed' = Passed \ {h} /\ h \notin Passed
        BY <2>9, <1>r DEF StartWorkflow, Passed, At, From, NoRequest, Request
      <3>3. "supervisor" \in Doors /\ "supervisor" \notin Budgeted
        BY DEF Doors, Budgeted
      <3>. QED
        BY <1>n, <3>1, <3>2, <3>3
    <2>10. ASSUME RunTask(h)
          PROVE  [Budget!Next]_Budget!vars
      <3>1. UNCHANGED <<young, door>> /\ Passed' = Passed
        BY <2>10, <1>r DEF RunTask, Goes, rows, Passed, At, From, NoRequest, Request
      <3>. QED
        BY <1>c, <3>1
    <2>11. ASSUME GraphReturns(h)
          PROVE  [Budget!Next]_Budget!vars
      <3>1. UNCHANGED <<young, door>> /\ Passed' = Passed
        BY <2>11, <1>r DEF GraphReturns, Ends, rows, Passed, At, From, NoRequest, Request
      <3>. QED
        BY <1>c, <3>1
    <2>12. ASSUME Persist(h)
          PROVE  [Budget!Next]_Budget!vars
      <3>1. UNCHANGED <<young, door>> /\ Passed' = Passed
        BY <2>12, <1>r DEF Persist, Ends, rows, Passed, At, From, NoRequest, Request
      <3>. QED
        BY <1>c, <3>1
    <2>13. ASSUME Opens(h)
          PROVE  [Budget!Next]_Budget!vars
      <3>1. UNCHANGED <<young, door>> /\ Passed' = Passed
        BY <2>13, <1>r DEF Opens, Goes, rows, Passed, At, From, NoRequest, Request
      <3>. QED
        BY <1>c, <3>1
    <2>14. ASSUME Drops(h)
          PROVE  [Budget!Next]_Budget!vars
      <3>1. UNCHANGED <<young, door>> /\ Passed' = Passed
        BY <2>14, <1>r DEF Drops, Ends, rows, Passed, At, From, NoRequest, Request
      <3>. QED
        BY <1>c, <3>1
    <2>. QED
      BY <1>1, <2>1, <2>2, <2>3, <2>4, <2>5, <2>6, <2>7, <2>8, <2>9, <2>10, <2>11, <2>12,
         <2>13, <2>14 DEF Handle
  <1>2. ASSUME NEW r \in Runs, Follow(r)
        PROVE  [Budget!Next]_Budget!vars
    <2>1. CASE RunAges(r)
      <3>1. Asked' \in SUBSET Asked /\ Exempted' \in SUBSET Exempted /\ Passed' = Passed
        BY <2>1 DEF RunAges, Asked, Exempted, Passed, At
      <3>2. /\ Cardinality(Asked') \in 0..Cardinality(Asked)
            /\ Cardinality(Exempted') \in 0..Cardinality(Exempted)
        BY <3>1, MappedSizes, FS_Subset, FS_CardinalityType DEF StartInv
      <3>3. Budget!Age
        BY <3>1, <3>2 DEF Budget!Age, Passed, Asked, Exempted
      <3>. QED
        BY <3>3 DEF Budget!Next
    <2>2. CASE TakeJob(r)
      BY <2>2, <1>c DEF TakeJob, Running, Passed, At
    <2>3. CASE JobReturns(r)
      BY <2>3, <1>c DEF JobReturns, Passed, At
    <2>4. CASE PublicDemoDecides(r)
      BY <2>4, <1>c DEF PublicDemoDecides, Decided, Reach, Passed, At
    <2>5. CASE TelegramCallback(r)
      BY <2>5, <1>c DEF TelegramCallback, Decided, Reach, Passed, At
    <2>6. CASE InterruptRoutes(r)
      BY <2>6, <1>c DEF InterruptRoutes, Decided, Reach, Passed, At
    <2>7. CASE Continue(r)
      BY <2>7, <1>c DEF Continue, Reach, Passed, At
    <2>8. CASE WorkerCrashes(r)
      BY <2>8, <1>c DEF WorkerCrashes, Passed, At
    <2>9. CASE JobDrops(r)
      BY <2>9, <1>c DEF JobDrops, Passed, At
    <2>. QED
      BY <1>2, <2>1, <2>2, <2>3, <2>4, <2>5, <2>6, <2>7, <2>8, <2>9 DEF Follow
  <1>3. ASSUME NEW m \in Updates, KeyExpires(m)
        PROVE  [Budget!Next]_Budget!vars
    BY <1>3, <1>c DEF KeyExpires, rows, Passed, At
  <1>4. CASE ApiCrashes
    <2>1. Passed' = Passed \ Handlers /\ UNCHANGED <<young, door>>
      BY <1>4 DEF ApiCrashes, rows, Passed, At, NoRequest
    <2>2. Budget!Withdraw(Handlers)
      BY <2>1, CountsStay DEF Budget!Withdraw, Passed, Asked, Exempted
    <2>. QED
      BY <2>2 DEF Budget!Next
  <1>5. CASE UNCHANGED vars
    BY <1>5, <1>c DEF vars, Passed, At
  <1>. QED
    BY <1>1, <1>2, <1>3, <1>4, <1>5 DEF Next

\* The doors keep to the budget of module RunBudget, whatever the limit and
\* however many requests, doors' messages and runs there are.
THEOREM DoorsImplementBudget == Spec => ImplementsBudget
  <1>1. Init => Budget!Init
    <2>. SUFFICES ASSUME Init
                  PROVE  Budget!Init
      OBVIOUS
    <2>1. Asked = {} /\ Exempted = {} /\ Passed = {}
      BY DEF Init, Asked, Exempted, Passed, At, NoRequest
    <2>. QED
      BY <2>1, FS_EmptySet DEF Budget!Init, Asked, Exempted, Passed
  <1>. QED
    BY <1>1, StartInvInit, StartInvStep, BudgetStep, PTL DEF Spec, Budget!Spec, ImplementsBudget
-----------------------------------------------------------------------------
(* Rows, threads and messages.                                             *)

\* One process executes a graph, it came in by the run's door, and until the
\* graph returns nobody else moves the run.
HoldersAlone ==
    \A h \in Handlers, r \in Runs : Holds(h, r) =>
        /\ \A g \in Handlers : Holds(g, r) => g = h
        /\ req[h].door = door[r]
        /\ At(h, "task") => door[r] # "langgraph" /\ status[r] = "pending" /\ thread[r] = "none"
        /\ At(h, "opening") => /\ door[r] = "langgraph"
                               /\ status[r] = "running" /\ thread[r] = "none"
        /\ At(h, "graph") => status[r] = "running" /\ thread[r] = "running"
        /\ At(h, "returned") => door[r] = "langgraph"

\* The same of a job that a worker has taken; start_run of the langgraph router
\* and the supervisor queue none.
JobsAlone ==
    \A r \in Runs :
        /\ job[r] = "taken" => status[r] = "running" /\ thread[r] = "running"
        /\ job[r] # "none" => door[r] \in {"runs", "demo"}

\* Only the supervisor's runs are about a message.
MessageRuns == \A r \in Runs : about[r] \in Messages => door[r] = "supervisor"

\* Past the first gate a thread and its row agree, unless start_run is to write it.
PastGateAgrees ==
    \A r \in Runs : (door[r] # "langgraph" /\ thread[r] \notin {"none", "running", "failed"})
                        => status[r] = thread[r]

\* What start_run is about to write is what the thread says.
WritesThread ==
    \A h \in Handlers, r \in Runs :
        (Holds(h, r) /\ At(h, "returned") /\ r \notin outrun) => req[h].result = thread[r]

\* The row of a run whose graph has returned to start_run is past "running", or
\* the shields blocked its brief, and it stays so if start_run's last write fails.
SettledRows ==
    \A r \in Runs :
        (r \in outrun \/ \E h \in Handlers : Holds(h, r) /\ At(h, "returned")) =>
            /\ door[r] = "langgraph" /\ status[r] # "none"
            /\ status[r] \in {"pending", "running"} => thread[r] = "failed"

MirrorInv ==
    /\ HoldersAlone /\ JobsAlone /\ MessageRuns /\ PastGateAgrees /\ WritesThread
    /\ RowMirrorsThread /\ SettledRows

\* It holds to begin with ...
LEMMA MirrorInvInit == Init => MirrorInv
  BY StartAssumption DEF Init, NoRequest, MirrorInv, Holds, HoldersAlone, JobsAlone, MessageRuns,
         PastGateAgrees, WritesThread, RowMirrorsThread, SettledRows, Messages

\* ... and after every step.
LEMMA MirrorInvStep == StartInv /\ MirrorInv /\ [Next]_vars => MirrorInv'
  <1>. SUFFICES ASSUME StartInv, MirrorInv, [Next]_vars
                PROVE  MirrorInv'
    OBVIOUS
  <1>. USE DEF StartInv, TypeOK, Request, NoRequest, Statuses, Gate, Budgeted, rows, history,
               At, From, Holds, Executed, FreshRows, HoldersHaveRuns, OneExecutor,
               MirrorInv, HoldersAlone, JobsAlone, MessageRuns, PastGateAgrees, WritesThread,
               RowMirrorsThread, SettledRows
  <1>1. ASSUME NEW h \in Handlers, Handle(h)
        PROVE  MirrorInv'
    <2>1. ASSUME NEW d \in Doors, CountRuns(h, d)
          PROVE  MirrorInv'
      BY <2>1 DEF CountRuns
    <2>2. ASSUME NEW m \in Updates, TelegramWebhook(h, m)
          PROVE  MirrorInv'
      <3>1. CASE m \in keys
        BY <2>2, <3>1 DEF TelegramWebhook
      <3>2. CASE m \notin keys
        <4>. UNCHANGED <<rows, outrun, lost, dropped>> /\ Turn(h, m) /\ At(h, "idle")
          BY <2>2, <3>2 DEF TelegramWebhook
        <4>1. HoldersAlone'
          BY SMT DEF Turn
        <4>2. JobsAlone'
          BY SMT DEF Turn
        <4>3. MessageRuns'
          BY SMT DEF Turn
        <4>4. PastGateAgrees'
          BY SMT DEF Turn
        <4>5. WritesThread'
          BY SMT DEF Turn
        <4>6. RowMirrorsThread'
          BY SMT DEF Turn
        <4>7. SettledRows'
          BY SMT DEF Turn
        <4>. QED
          BY <4>1, <4>2, <4>3, <4>4, <4>5, <4>6, <4>7 DEF MirrorInv
      <3>. QED
        BY <3>1, <3>2
    <2>3. ASSUME NEW m \in Chats, Chat(h, m)
          PROVE  MirrorInv'
      BY <2>3 DEF Chat, Turn
    <2>4. ASSUME Refuse(h)
          PROVE  MirrorInv'
      BY <2>4 DEF Refuse, Ends
    <2>5. ASSUME Look(h)
          PROVE  MirrorInv'
      BY <2>5 DEF Look, Goes
    <2>6. ASSUME NEW r \in Runs, StartRun(h, r)
          PROVE  MirrorInv'
      <3>1. status[r] = "none" /\ NoMessage \notin Messages
            /\ door' = [door EXCEPT ![r] = "runs"] /\ door'[r] = "runs"
        BY <2>6, StartAssumption DEF StartRun, NewRun, Doors
      <3>2. CASE dispatcher = "db"
        <4>1. HoldersAlone'
          BY <2>6, <3>1, <3>2 DEF StartRun, NewRun, Dispatch, Ends
        <4>2. JobsAlone'
          BY <2>6, <3>1, <3>2 DEF StartRun, NewRun, Dispatch, Ends
        <4>3. MessageRuns'
          BY <2>6, <3>1, <3>2 DEF StartRun, NewRun, Dispatch, Ends
        <4>4. PastGateAgrees'
          BY <2>6, <3>1, <3>2 DEF StartRun, NewRun, Dispatch, Ends
        <4>5. WritesThread'
          BY <2>6, <3>1, <3>2 DEF StartRun, NewRun, Dispatch, Ends
        <4>6. RowMirrorsThread'
          BY <2>6, <3>1, <3>2 DEF StartRun, NewRun, Dispatch, Ends
        <4>7. SettledRows'
          BY <2>6, <3>1, <3>2 DEF StartRun, NewRun, Dispatch, Ends
        <4>. QED
          BY <4>1, <4>2, <4>3, <4>4, <4>5, <4>6, <4>7 DEF MirrorInv
      <3>3. CASE dispatcher # "db"
        <4>. req' = [req EXCEPT ![h].pc = "task", ![h].door = "runs", ![h].run = r]
          BY <2>6, <3>1, <3>3 DEF StartRun, Dispatch
        <4>1. HoldersAlone'
          BY <2>6, <3>1, <3>3 DEF StartRun, NewRun, Dispatch
        <4>2. JobsAlone'
          BY <2>6, <3>1, <3>3 DEF StartRun, NewRun, Dispatch
        <4>3. MessageRuns'
          BY <2>6, <3>1, <3>3 DEF StartRun, NewRun, Dispatch
        <4>4. PastGateAgrees'
          BY <2>6, <3>1, <3>3 DEF StartRun, NewRun, Dispatch
        <4>5. WritesThread'
          BY <2>6, <3>1, <3>3 DEF StartRun, NewRun, Dispatch
        <4>6. RowMirrorsThread'
          BY <2>6, <3>1, <3>3 DEF StartRun, NewRun, Dispatch
        <4>7. SettledRows'
          BY <2>6, <3>1, <3>3 DEF StartRun, NewRun, Dispatch
        <4>. QED
          BY <4>1, <4>2, <4>3, <4>4, <4>5, <4>6, <4>7 DEF MirrorInv
      <3>. QED
        BY <3>2, <3>3
    <2>7. ASSUME NEW r \in Runs, PublicDemoStart(h, r)
          PROVE  MirrorInv'
      <3>1. status[r] = "none" /\ NoMessage \notin Messages
            /\ door' = [door EXCEPT ![r] = "demo"] /\ door'[r] = "demo"
        BY <2>7, StartAssumption DEF PublicDemoStart, NewRun, Doors
      <3>2. CASE dispatcher = "db"
        <4>1. HoldersAlone'
          BY <2>7, <3>1, <3>2 DEF PublicDemoStart, NewRun, Dispatch, Ends
        <4>2. JobsAlone'
          BY <2>7, <3>1, <3>2 DEF PublicDemoStart, NewRun, Dispatch, Ends
        <4>3. MessageRuns'
          BY <2>7, <3>1, <3>2 DEF PublicDemoStart, NewRun, Dispatch, Ends
        <4>4. PastGateAgrees'
          BY <2>7, <3>1, <3>2 DEF PublicDemoStart, NewRun, Dispatch, Ends
        <4>5. WritesThread'
          BY <2>7, <3>1, <3>2 DEF PublicDemoStart, NewRun, Dispatch, Ends
        <4>6. RowMirrorsThread'
          BY <2>7, <3>1, <3>2 DEF PublicDemoStart, NewRun, Dispatch, Ends
        <4>7. SettledRows'
          BY <2>7, <3>1, <3>2 DEF PublicDemoStart, NewRun, Dispatch, Ends
        <4>. QED
          BY <4>1, <4>2, <4>3, <4>4, <4>5, <4>6, <4>7 DEF MirrorInv
      <3>3. CASE dispatcher # "db"
        <4>. req' = [req EXCEPT ![h].pc = "task", ![h].door = "demo", ![h].run = r]
          BY <2>7, <3>1, <3>3 DEF PublicDemoStart, Dispatch
        <4>1. HoldersAlone'
          BY <2>7, <3>1, <3>3 DEF PublicDemoStart, NewRun, Dispatch
        <4>2. JobsAlone'
          BY <2>7, <3>1, <3>3 DEF PublicDemoStart, NewRun, Dispatch
        <4>3. MessageRuns'
          BY <2>7, <3>1, <3>3 DEF PublicDemoStart, NewRun, Dispatch
        <4>4. PastGateAgrees'
          BY <2>7, <3>1, <3>3 DEF PublicDemoStart, NewRun, Dispatch
        <4>5. WritesThread'
          BY <2>7, <3>1, <3>3 DEF PublicDemoStart, NewRun, Dispatch
        <4>6. RowMirrorsThread'
          BY <2>7, <3>1, <3>3 DEF PublicDemoStart, NewRun, Dispatch
        <4>7. SettledRows'
          BY <2>7, <3>1, <3>3 DEF PublicDemoStart, NewRun, Dispatch
        <4>. QED
          BY <4>1, <4>2, <4>3, <4>4, <4>5, <4>6, <4>7 DEF MirrorInv
      <3>. QED
        BY <3>2, <3>3
    <2>8. ASSUME NEW r \in Runs, StartGraphRun(h, r)
          PROVE  MirrorInv'
      <3>1. HoldersAlone'
        BY <2>8, StartAssumption DEF StartGraphRun, NewRun
      <3>2. JobsAlone'
        BY <2>8, StartAssumption DEF StartGraphRun, NewRun
      <3>3. MessageRuns'
        BY <2>8, StartAssumption DEF StartGraphRun, NewRun
      <3>4. PastGateAgrees'
        BY <2>8, StartAssumption DEF StartGraphRun, NewRun
      <3>5. WritesThread'
        BY <2>8, StartAssumption DEF StartGraphRun, NewRun
      <3>6. RowMirrorsThread'
        BY <2>8, StartAssumption DEF StartGraphRun, NewRun
      <3>7. SettledRows'
        BY <2>8, StartAssumption DEF StartGraphRun, NewRun
      <3>. QED
        BY <3>1, <3>2, <3>3, <3>4, <3>5, <3>6, <3>7 DEF MirrorInv
    <2>9. ASSUME NEW r \in Runs, StartWorkflow(h, r)
          PROVE  MirrorInv'
      <3>a. req[h].door = "supervisor" /\ "supervisor" \in Doors
        BY <2>9 DEF StartWorkflow, TurnsHaveMessages, Doors
      <3>1. HoldersAlone'
        BY <2>9, <3>a DEF StartWorkflow, NewRun
      <3>2. JobsAlone'
        BY <2>9, <3>a DEF StartWorkflow, NewRun
      <3>3. MessageRuns'
        BY <2>9, <3>a DEF StartWorkflow, NewRun
      <3>4. PastGateAgrees'
        BY <2>9, <3>a DEF StartWorkflow, NewRun
      <3>5. WritesThread'
        BY <2>9, <3>a DEF StartWorkflow, NewRun
      <3>6. RowMirrorsThread'
        BY <2>9, <3>a DEF StartWorkflow, NewRun
      <3>7. SettledRows'
        BY <2>9, <3>a DEF StartWorkflow, NewRun
      <3>. QED
        BY <3>1, <3>2, <3>3, <3>4, <3>5, <3>6, <3>7 DEF MirrorInv
    <2>10. ASSUME RunTask(h)
          PROVE  MirrorInv'
      BY <2>10 DEF RunTask, Running, Goes
    <2>11. ASSUME GraphReturns(h)
          PROVE  MirrorInv'
      <3>1. /\ req[h].run \in Runs /\ At(h, "graph") /\ Ideation(req[h].run)
            /\ status[req[h].run] = "running" /\ thread[req[h].run] = "running"
            /\ UNCHANGED <<job, young, lost, outrun, dropped, door, about>>
        BY <2>11 DEF GraphReturns
      <3>2. CASE From(h, "supervisor")
        <4>. req' = [req EXCEPT ![h].pc = "turn", ![h].run = NoRun]
          BY <2>11, <3>2 DEF GraphReturns
        <4>1. HoldersAlone'
          BY <3>1, <3>2 DEF Ideation
        <4>2. JobsAlone'
          BY <3>1, <3>2 DEF Ideation
        <4>3. MessageRuns'
          BY <3>1, <3>2 DEF Ideation
        <4>4. PastGateAgrees'
          BY <3>1, <3>2 DEF Ideation
        <4>5. WritesThread'
          BY <3>1, <3>2 DEF Ideation
        <4>6. RowMirrorsThread'
          BY <3>1, <3>2 DEF Ideation
        <4>7. SettledRows'
          BY <3>1, <3>2 DEF Ideation
        <4>. QED
          BY <4>1, <4>2, <4>3, <4>4, <4>5, <4>6, <4>7 DEF MirrorInv
      <3>3. CASE ~From(h, "supervisor") /\ From(h, "langgraph") /\ thread'[req[h].run] # "running"
        <4>. req' = [req EXCEPT ![h].pc = "returned", ![h].result = thread'[req[h].run]]
          BY <2>11, <3>3 DEF GraphReturns
        <4>1. HoldersAlone'
          BY <3>1, <3>3 DEF Ideation
        <4>2. JobsAlone'
          BY <3>1, <3>3 DEF Ideation
        <4>3. MessageRuns'
          BY <3>1, <3>3 DEF Ideation
        <4>4. PastGateAgrees'
          BY <3>1, <3>3 DEF Ideation
        <4>5. WritesThread'
          BY <3>1, <3>3 DEF Ideation
        <4>6. RowMirrorsThread'
          <5>1. /\ req'[h].pc = "returned" /\ req'[h].run = req[h].run
                /\ \A g \in Handlers \ {h} : req'[g] = req[g]
            BY <3>1
          <5>2. Executed(req[h].run)'
            BY <5>1
          <5>3. ASSUME NEW q \in Runs, q # req[h].run
                PROVE  /\ status'[q] = status[q] /\ thread'[q] = thread[q] /\ door'[q] = door[q]
                       /\ Executed(q) => Executed(q)'
            <6>1. /\ status'[q] = status[q] /\ thread'[q] = thread[q]
                  /\ door' = door /\ job' = job
              BY <3>1, <5>3 DEF Ideation
            <6>2. Executed(q) => Executed(q)'
              BY <5>1, <5>3, <6>1
            <6>. QED
              BY <6>1, <6>2
          <5>4. UNCHANGED <<outrun, lost, dropped>>
            BY <3>1
          <5>. HIDE DEF Executed
          <5>. QED
            BY <3>1, <5>2, <5>3, <5>4
        <4>7. SettledRows'
          BY <3>1, <3>3 DEF Ideation
        <4>. QED
          BY <4>1, <4>2, <4>3, <4>4, <4>5, <4>6, <4>7 DEF MirrorInv
      <3>4. CASE ~From(h, "supervisor") /\ ~(From(h, "langgraph") /\ thread'[req[h].run] # "running")
        <4>. Ends(h)
          BY <2>11, <3>4 DEF GraphReturns
        <4>1. HoldersAlone'
          BY <3>1, <3>4 DEF Ideation, Ends
        <4>2. JobsAlone'
          BY <3>1, <3>4 DEF Ideation, Ends
        <4>3. MessageRuns'
          BY <3>1, <3>4 DEF Ideation, Ends
        <4>4. PastGateAgrees'
          BY <3>1, <3>4 DEF Ideation, Ends
        <4>5. WritesThread'
          BY <3>1, <3>4 DEF Ideation, Ends
        <4>6. RowMirrorsThread'
          BY <3>1, <3>4 DEF Ideation, Ends
        <4>7. SettledRows'
          BY <3>1, <3>4 DEF Ideation, Ends
        <4>. QED
          BY <4>1, <4>2, <4>3, <4>4, <4>5, <4>6, <4>7 DEF MirrorInv
      <3>. QED
        BY <3>2, <3>3, <3>4
    <2>12. ASSUME Persist(h)
          PROVE  MirrorInv'
      <3>1. PICK r \in Runs : r = req[h].run /\ Holds(h, r) /\ At(h, "returned")
        BY <2>12 DEF Persist
      <3>2. /\ \A g \in Handlers \ {h} : req'[g] = req[g]
            /\ req'[h].pc = "idle" /\ req'[h].run = NoRun
        BY <2>12 DEF Persist, Ends
      <3>3. /\ UNCHANGED <<door, about, thread, job, lost, dropped>>
            /\ outrun' \in {outrun, outrun \cup {r}}
            /\ \A q \in Runs \ {r} : status'[q] = status[q]
            /\ \/ status'[r] = req[h].result /\ outrun' = outrun
               \/ status'[r] \in {status[r], "failed"} /\ outrun' = outrun \cup {r}
        BY <2>12, <3>1 DEF Persist
      <3>4. /\ door[r] = "langgraph" /\ job[r] = "none"
            /\ \A g \in Handlers : Holds(g, r) => g = h
            /\ req[h].result \notin {"pending", "running", "none"}
        BY <3>1 DEF ResultsAreFinal
      <3>5. HoldersAlone'
        BY <3>1, <3>2, <3>3, <3>4
      <3>6. JobsAlone'
        BY <3>1, <3>2, <3>3, <3>4
      <3>7. MessageRuns'
        BY <3>1, <3>2, <3>3, <3>4
      <3>8. PastGateAgrees'
        BY <3>1, <3>2, <3>3, <3>4
      <3>9. WritesThread'
        BY <3>1, <3>2, <3>3, <3>4
      <3>10. RowMirrorsThread'
        BY <3>1, <3>2, <3>3, <3>4
      <3>11. SettledRows'
        BY <3>1, <3>2, <3>3, <3>4
      <3>. QED
        BY <3>5, <3>6, <3>7, <3>8, <3>9, <3>10, <3>11 DEF MirrorInv
    <2>13. ASSUME Opens(h)
          PROVE  MirrorInv'
      BY <2>13 DEF Opens, Goes
    <2>14. ASSUME Drops(h)
          PROVE  MirrorInv'
      <3>1. /\ req[h].run \in Runs /\ req[h].pc \in {"task", "opening", "graph"}
            /\ dropped' = dropped \cup {req[h].run}
            /\ UNCHANGED <<rows, outrun, lost>>
        BY <2>14 DEF Drops
      <3>2. /\ \A g \in Handlers \ {h} : req'[g] = req[g]
            /\ req'[h].pc \in {"turn", "idle"}
            /\ req'[h].door = "supervisor" => req[h].door = "supervisor" /\ req'[h].msg = req[h].msg
            /\ req'[h].pc = "turn" => req'[h].door = "supervisor"
        <4>1. CASE From(h, "supervisor")
          <5>1. req' = [req EXCEPT ![h].pc = "turn", ![h].run = NoRun]
            BY <2>14, <4>1 DEF Drops
          <5>. QED
            BY <4>1, <5>1
        <4>2. CASE ~From(h, "supervisor")
          <5>1. req' = [req EXCEPT ![h] = NoRequest]
            BY <2>14, <4>2 DEF Drops, Ends
          <5>. QED
            BY <5>1
        <4>. QED
          BY <4>1, <4>2
      <3>3. HoldersAlone'
        BY <3>1, <3>2
      <3>4. JobsAlone'
        BY <3>1, <3>2
      <3>5. MessageRuns'
        BY <3>1, <3>2
      <3>6. PastGateAgrees'
        BY <3>1, <3>2
      <3>7. WritesThread'
        BY <3>1, <3>2
      <3>8. RowMirrorsThread'
        BY <3>1, <3>2
      <3>9. SettledRows'
        BY <3>1, <3>2
      <3>. QED
        BY <3>3, <3>4, <3>5, <3>6, <3>7, <3>8, <3>9 DEF MirrorInv
    <2>. QED
      BY <1>1, <2>1, <2>2, <2>3, <2>4, <2>5, <2>6, <2>7, <2>8, <2>9, <2>10, <2>11, <2>12,
         <2>13, <2>14 DEF Handle
  <1>2. ASSUME NEW r \in Runs, Follow(r)
        PROVE  MirrorInv'
    <2>1. CASE RunAges(r)
      BY <2>1 DEF RunAges
    <2>2. CASE TakeJob(r)
      BY <2>2 DEF TakeJob, Running
    <2>3. CASE JobReturns(r)
      BY <2>3 DEF JobReturns, Ideation
    <2>4. CASE PublicDemoDecides(r)
      BY <2>4 DEF PublicDemoDecides, Decided, Reach
    <2>5. CASE TelegramCallback(r)
      BY <2>5 DEF TelegramCallback, Decided, Reach
    <2>6. CASE InterruptRoutes(r)
      BY <2>6 DEF InterruptRoutes, Decided, Reach
    <2>7. CASE Continue(r)
      BY <2>7 DEF Continue, Reach
    <2>8. CASE WorkerCrashes(r)
      BY <2>8 DEF WorkerCrashes
    <2>9. CASE JobDrops(r)
      BY <2>9 DEF JobDrops
    <2>. QED
      BY <1>2, <2>1, <2>2, <2>3, <2>4, <2>5, <2>6, <2>7, <2>8, <2>9 DEF Follow
  <1>3. ASSUME NEW m \in Updates, KeyExpires(m)
        PROVE  MirrorInv'
    BY <1>3 DEF KeyExpires
  <1>4. CASE ApiCrashes
    <2>1. HoldersAlone'
      BY <1>4, StartAssumption DEF ApiCrashes
    <2>2. JobsAlone'
      BY <1>4, StartAssumption DEF ApiCrashes
    <2>3. MessageRuns'
      BY <1>4, StartAssumption DEF ApiCrashes
    <2>4. PastGateAgrees'
      BY <1>4, StartAssumption DEF ApiCrashes
    <2>5. WritesThread'
      BY <1>4, StartAssumption DEF ApiCrashes
    <2>6. RowMirrorsThread'
      BY <1>4, StartAssumption DEF ApiCrashes
    <2>7. SettledRows'
      BY <1>4, StartAssumption DEF ApiCrashes
    <2>. QED
      BY <2>1, <2>2, <2>3, <2>4, <2>5, <2>6, <2>7 DEF MirrorInv
  <1>5. CASE UNCHANGED vars
    BY <1>5 DEF vars
  <1>. QED
    BY <1>1, <1>2, <1>3, <1>4, <1>5 DEF Next
-----------------------------------------------------------------------------
(* Messages.                                                               *)

\* Run r is about message m and under way; request h is about it, and is
\* about to start such a run.
LiveAbout(r, m) == about[r] = m /\ status[r] \in Deduped \ {"completed"}
TurnAbout(h, m) == req[h].door = "supervisor" /\ req[h].msg = m
Starts(h, m)    == TurnAbout(h, m) /\ req[h].pc = "looked"

\* While the key of an update has not lapsed, at most one request is about it.
OneTurn ==
    \A m \in Updates : m \notin lapsed =>
        /\ \A g, h \in Handlers : TurnAbout(g, m) /\ TurnAbout(h, m) => g = h
        /\ m \notin keys => /\ \A h \in Handlers : ~TurnAbout(h, m)
                            /\ \A r \in Runs : about[r] # m

\* An update with one turn at a time, or without two turns between look-up and
\* insert, has at most one run under way, and none when another is to start.
OneLive ==
    \A m \in Updates : (m \notin lapsed \/ m \notin twins) =>
        /\ \A r1, r2 \in Runs : LiveAbout(r1, m) /\ LiveAbout(r2, m) => r1 = r2
        /\ \A h \in Handlers, r \in Runs : ~(Starts(h, m) /\ LiveAbout(r, m))

\* A step that begins no turn, ends no look-up and starts no run about an update.
Shrinks ==
    /\ lapsed \subseteq lapsed' /\ twins \subseteq twins'
    /\ \A m \in Updates : m \in keys => m \in keys' \/ m \in lapsed'
    /\ \A r \in Runs : about'[r] \in Updates =>
        /\ about'[r] = about[r]
        /\ status'[r] \in Deduped \ {"completed"} => status[r] \in Deduped \ {"completed"}
    /\ \A h \in Handlers : (req'[h].door = "supervisor" /\ req'[h].msg \in Updates) =>
        /\ req[h].door = "supervisor" /\ req[h].msg = req'[h].msg
        /\ req'[h].pc = "looked" => req[h].pc = "looked"

\* Both start without messages ...
LEMMA MessageInvInit == Init => OneTurn /\ OneLive
  BY StartAssumption DEF Init, NoRequest, OneTurn, OneLive, LiveAbout, TurnAbout, Starts, Messages

\* ... and steps of that kind keep them.
LEMMA ShrinkingKeeps == OneTurn /\ OneLive /\ Shrinks => OneTurn' /\ OneLive'
  <1>. SUFFICES ASSUME OneTurn, OneLive, Shrinks
                PROVE  OneTurn' /\ OneLive'
    OBVIOUS
  <1>1. OneTurn'
    BY DEF OneTurn, Shrinks, TurnAbout
  <1>2. OneLive'
    BY DEF OneLive, Shrinks, LiveAbout, TurnAbout, Starts
  <1>. QED
    BY <1>1, <1>2

\* Every step keeps them.
LEMMA MessageInvStep ==
    StartInv /\ MirrorInv /\ OneTurn /\ OneLive /\ [Next]_vars => OneTurn' /\ OneLive'
  <1>. SUFFICES ASSUME StartInv, MirrorInv, OneTurn, OneLive, [Next]_vars
                PROVE  OneTurn' /\ OneLive'
    OBVIOUS
  <1>r. /\ req \in [Handlers -> Request]
        /\ status \in [Runs -> Statuses \cup {"none"}]
        /\ about \in [Runs -> Messages \cup {NoMessage}]
        /\ keys \in SUBSET Updates
    BY DEF StartInv, TypeOK
  <1>c. /\ \A m \in Updates : m \in Messages /\ m \notin Chats
        /\ NoMessage \notin Updates
    BY StartAssumption DEF Messages
  <1>i. /\ FreshRows /\ HoldersHaveRuns /\ TurnsHaveMessages
        /\ HoldersAlone /\ JobsAlone /\ MessageRuns /\ PastGateAgrees
    BY DEF StartInv, MirrorInv
  <1>d. ASSUME NEW r \in Runs, Decided(r)
        PROVE  OneTurn' /\ OneLive'
    <2>1. about[r] \in Updates => status[r] = Gate
      BY <1>c, <1>d, <1>i DEF Decided, MessageRuns, PastGateAgrees, Gate
    <2>2. PICK s \in {"awaiting_video_generation", "rejected"} : Reach(r, s)
      BY <1>d DEF Decided
    <2>3. Gate \in Deduped \ {"completed"}
      BY DEF Deduped, Gate
    <2>. Shrinks
      BY <2>1, <2>2, <2>3, <1>r DEF Reach, history, Shrinks
    <2>. QED
      BY ShrinkingKeeps
  <1>1. ASSUME NEW h \in Handlers, Handle(h)
        PROVE  OneTurn' /\ OneLive'
    <2>1. ASSUME NEW d \in Doors, CountRuns(h, d)
          PROVE  OneTurn' /\ OneLive'
      <3>. Shrinks
        BY <2>1, <1>r DEF CountRuns, Budgeted, NoRequest, Request, rows, history, At, From, Shrinks
      <3>. QED
        BY ShrinkingKeeps
    <2>2. ASSUME NEW m \in Updates, TelegramWebhook(h, m)
          PROVE  OneTurn' /\ OneLive'
      <3>1. CASE m \in keys
        <4>. Shrinks
          BY <2>2, <3>1 DEF TelegramWebhook, rows, history, Shrinks
        <4>. QED
          BY ShrinkingKeeps
      <3>2. CASE m \notin keys
        <4>1. /\ \A g \in Handlers \ {h} : req'[g] = req[g]
              /\ req'[h].pc = "turn" /\ req'[h].msg = m /\ req[h].pc = "idle"
              /\ UNCHANGED <<status, about, lapsed, twins>>
              /\ keys' = keys \cup {m}
          BY <2>2, <1>r, <3>2 DEF TelegramWebhook, Turn, NoRequest, Request, rows, history, At
        <4>2. OneTurn'
          BY <3>2, <4>1 DEF OneTurn, TurnAbout
        <4>3. OneLive'
          BY <4>1 DEF OneLive, LiveAbout, TurnAbout, Starts
        <4>. QED
          BY <4>2, <4>3
      <3>. QED
        BY <3>1, <3>2
    <2>3. ASSUME NEW m \in Chats, Chat(h, m)
          PROVE  OneTurn' /\ OneLive'
      <3>. Shrinks
        BY <2>3, <1>r, <1>c DEF Chat, Turn, NoRequest, Request, rows, history, At, From, Shrinks
      <3>. QED
        BY ShrinkingKeeps
    <2>4. ASSUME Refuse(h)
          PROVE  OneTurn' /\ OneLive'
      <3>. Shrinks
        BY <2>4, <1>r DEF Refuse, Ends, NoRequest, Request, rows, history, At, From, Shrinks
      <3>. QED
        BY ShrinkingKeeps
    <2>5. ASSUME Look(h)
          PROVE  OneTurn' /\ OneLive'
      <3>1. /\ \A g \in Handlers \ {h} : req'[g] = req[g]
            /\ req'[h].pc = "looked" /\ req'[h].msg = req[h].msg /\ req'[h].door = req[h].door
            /\ UNCHANGED <<status, about, keys, lapsed, twins>>
            /\ \A r \in Runs : about[r] = req[h].msg => status[r] \notin Deduped
        BY <2>5, <1>r DEF Look, Goes, Request, rows, history
      <3>2. OneTurn'
        BY <3>1 DEF OneTurn, TurnAbout
      <3>3. OneLive'
        BY <3>1 DEF OneLive, LiveAbout, TurnAbout, Starts
      <3>. QED
        BY <3>2, <3>3
    <2>6. ASSUME NEW r \in Runs, StartRun(h, r)
          PROVE  OneTurn' /\ OneLive'
      <3>1. door'[r] = "runs"
        BY <2>6 DEF StartRun, NewRun, StartInv, TypeOK
      <3>2. CASE dispatcher = "db"
        <4>. Shrinks
          BY <2>6, <1>r, <1>c, <3>2 DEF StartRun, NewRun, Dispatch, Ends, NoRequest, Request, rows, history,
                                    At, From, Shrinks
        <4>. QED
          BY ShrinkingKeeps
      <3>3. CASE dispatcher # "db"
        <4>. Shrinks
          BY <2>6, <1>r, <1>c, <3>1, <3>3 DEF StartRun, NewRun, Dispatch, Request, rows, history,
                                          At, From, Shrinks
        <4>. QED
          BY ShrinkingKeeps
      <3>. QED
        BY <3>2, <3>3
    <2>7. ASSUME NEW r \in Runs, PublicDemoStart(h, r)
          PROVE  OneTurn' /\ OneLive'
      <3>1. door'[r] = "demo"
        BY <2>7 DEF PublicDemoStart, NewRun, StartInv, TypeOK
      <3>2. CASE dispatcher = "db"
        <4>. Shrinks
          BY <2>7, <1>r, <1>c, <3>2 DEF PublicDemoStart, NewRun, Dispatch, Ends, NoRequest, Request, rows, history,
                                    At, From, Shrinks
        <4>. QED
          BY ShrinkingKeeps
      <3>3. CASE dispatcher # "db"
        <4>. Shrinks
          BY <2>7, <1>r, <1>c, <3>1, <3>3 DEF PublicDemoStart, NewRun, Dispatch, Request, rows, history,
                                          At, From, Shrinks
        <4>. QED
          BY ShrinkingKeeps
      <3>. QED
        BY <3>2, <3>3
    <2>8. ASSUME NEW r \in Runs, StartGraphRun(h, r)
          PROVE  OneTurn' /\ OneLive'
      <3>. Shrinks
        BY <2>8, <1>r, <1>c DEF StartGraphRun, NewRun, Request, rows, history, At, From, Shrinks
      <3>. QED
        BY ShrinkingKeeps
    <2>9. ASSUME NEW r \in Runs, StartWorkflow(h, r)
          PROVE  OneTurn' /\ OneLive'
      <3>1. /\ \A g \in Handlers \ {h} : req'[g] = req[g]
            /\ req[h].pc = "looked" /\ req[h].door = "supervisor"
            /\ req'[h].pc = "task" /\ req'[h].msg = req[h].msg /\ req'[h].door = req[h].door
        BY <2>9, <1>r, <1>i DEF StartWorkflow, TurnsHaveMessages, Request, At
      <3>2. /\ status' = [status EXCEPT ![r] = "pending"]
            /\ about' = [about EXCEPT ![r] = req[h].msg]
            /\ UNCHANGED <<keys, lapsed>>
        BY <2>9 DEF StartWorkflow, NewRun
      <3>3. /\ twins \subseteq twins'
            /\ req[h].msg \in twins' \/ \A g \in Handlers : Starts(g, req[h].msg) => g = h
        BY <2>9 DEF StartWorkflow, Starts, TurnAbout, At
      <3>4. OneTurn'
        BY <1>r, <3>1, <3>2 DEF OneTurn, TurnAbout
      <3>5. OneLive'
        <4>. SUFFICES ASSUME NEW m \in Updates, m \notin lapsed \/ m \notin twins'
                      PROVE  /\ \A r1, r2 \in Runs : LiveAbout(r1, m)' /\ LiveAbout(r2, m)' => r1 = r2
                             /\ \A g \in Handlers, r1 \in Runs : ~(Starts(g, m)' /\ LiveAbout(r1, m)')
          BY <3>2 DEF OneLive
        <4>1. CASE m # req[h].msg
          BY <1>r, <3>1, <3>2, <3>3, <4>1 DEF OneLive, LiveAbout, Starts, TurnAbout
        <4>2. CASE m = req[h].msg
          <5>1. \A r1 \in Runs : ~LiveAbout(r1, m)
            BY <3>1, <3>3, <4>2 DEF OneLive, Starts, TurnAbout
          <5>2. \A r1 \in Runs : LiveAbout(r1, m)' => r1 = r
            BY <1>r, <3>2, <5>1 DEF LiveAbout
          <5>3. \A g \in Handlers : ~Starts(g, m)'
            BY <3>1, <3>3, <4>2 DEF OneTurn, Starts, TurnAbout
          <5>. QED
            BY <5>2, <5>3
        <4>. QED
          BY <4>1, <4>2
      <3>. QED
        BY <3>4, <3>5
    <2>10. ASSUME RunTask(h)
          PROVE  OneTurn' /\ OneLive'
      <3>1. status[req[h].run] = "pending" /\ "pending" \in Deduped
        BY <2>10, <1>i DEF RunTask, HoldersHaveRuns, HoldersAlone, Holds, At, Deduped
      <3>. Shrinks
        BY <2>10, <1>r, <3>1 DEF RunTask, Running, Goes, Request, rows, history, At, From, Shrinks
      <3>. QED
        BY ShrinkingKeeps
    <2>11. ASSUME GraphReturns(h)
          PROVE  OneTurn' /\ OneLive'
      <3>1. /\ req[h].run \in Runs /\ status[req[h].run] = "running"
            /\ "running" \in Deduped \ {"completed"}
        BY <2>11, <1>i DEF GraphReturns, HoldersHaveRuns, HoldersAlone, Holds, At, Deduped
      <3>2. \A q \in Runs : status'[q] \in Deduped \ {"completed"} => status[q] \in Deduped \ {"completed"}
        BY <2>11, <1>r, <3>1 DEF GraphReturns, Ideation
      <3>3. \A g \in Handlers : (req'[g].door = "supervisor" /\ req'[g].msg \in Updates) =>
                /\ req[g].door = "supervisor" /\ req[g].msg = req'[g].msg
                /\ req'[g].pc = "looked" => req[g].pc = "looked"
        <4>1. CASE From(h, "supervisor")
          <5>1. req' = [req EXCEPT ![h].pc = "turn", ![h].run = NoRun]
            BY <2>11, <4>1 DEF GraphReturns, From
          <5>. QED
            BY <1>r, <5>1 DEF Request
        <4>2. CASE ~From(h, "supervisor") /\ From(h, "langgraph") /\ thread'[req[h].run] # "running"
          <5>1. req' = [req EXCEPT ![h].pc = "returned", ![h].result = thread'[req[h].run]]
            BY <2>11, <4>2 DEF GraphReturns
          <5>. QED
            BY <1>r, <5>1 DEF Request
        <4>3. CASE ~From(h, "supervisor") /\ ~(From(h, "langgraph") /\ thread'[req[h].run] # "running")
          <5>1. req' = [req EXCEPT ![h] = NoRequest]
            BY <2>11, <4>3 DEF GraphReturns, Ends
          <5>. QED
            BY <1>r, <5>1 DEF NoRequest
        <4>. QED
          BY <4>1, <4>2, <4>3
      <3>. Shrinks
        BY <2>11, <3>2, <3>3 DEF GraphReturns, history, Shrinks
      <3>. QED
        BY ShrinkingKeeps
    <2>12. ASSUME Persist(h)
          PROVE  OneTurn' /\ OneLive'
      <3>1. about[req[h].run] \notin Updates
        BY <2>12, <1>c, <1>i DEF Persist, HoldersHaveRuns, HoldersAlone, MessageRuns, Holds, At
      <3>. Shrinks
        BY <2>12, <1>r, <3>1 DEF Persist, Ends, NoRequest, rows, history, At, From, Shrinks
      <3>. QED
        BY ShrinkingKeeps
    <2>13. ASSUME Opens(h)
          PROVE  OneTurn' /\ OneLive'
      <3>. Shrinks
        BY <2>13, <1>r DEF Opens, Goes, Request, rows, history, At, From, Shrinks
      <3>. QED
        BY ShrinkingKeeps
    <2>14. ASSUME Drops(h)
          PROVE  OneTurn' /\ OneLive'
      <3>1. \A g \in Handlers : (req'[g].door = "supervisor" /\ req'[g].msg \in Updates) =>
                /\ req[g].door = "supervisor" /\ req[g].msg = req'[g].msg
                /\ req'[g].pc = "looked" => req[g].pc = "looked"
        <4>1. CASE From(h, "supervisor")
          <5>1. req' = [req EXCEPT ![h].pc = "turn", ![h].run = NoRun]
            BY <2>14, <4>1 DEF Drops
          <5>. QED
            BY <1>r, <5>1 DEF Request
        <4>2. CASE ~From(h, "supervisor")
          <5>1. req' = [req EXCEPT ![h] = NoRequest]
            BY <2>14, <4>2 DEF Drops, Ends
          <5>. QED
            BY <1>r, <5>1 DEF NoRequest
        <4>. QED
          BY <4>1, <4>2
      <3>. Shrinks
        BY <2>14, <3>1 DEF Drops, rows, history, Shrinks
      <3>. QED
        BY ShrinkingKeeps
    <2>. QED
      BY <1>1, <2>1, <2>2, <2>3, <2>4, <2>5, <2>6, <2>7, <2>8, <2>9, <2>10, <2>11, <2>12,
         <2>13, <2>14 DEF Handle
  <1>2. ASSUME NEW r \in Runs, Follow(r)
        PROVE  OneTurn' /\ OneLive'
    <2>1. CASE RunAges(r)
      <3>. Shrinks
        BY <2>1, <1>r DEF RunAges, rows, history, At, From, Shrinks
      <3>. QED
        BY ShrinkingKeeps
    <2>2. CASE TakeJob(r)
      <3>. Shrinks
        BY <2>2, <1>r DEF TakeJob, Running, Deduped, rows, history, At, From, Shrinks
      <3>. QED
        BY ShrinkingKeeps
    <2>3. CASE JobReturns(r)
      <3>1. status[r] = "running" /\ "running" \in Deduped \ {"completed"}
        BY <2>3, <1>i DEF JobReturns, JobsAlone, Deduped
      <3>. Shrinks
        BY <2>3, <1>r, <3>1 DEF JobReturns, Ideation, rows, history, At, From, Shrinks
      <3>. QED
        BY ShrinkingKeeps
    <2>4. CASE PublicDemoDecides(r)
      <3>1. Decided(r)
        BY <2>4 DEF PublicDemoDecides
      <3>. QED
        BY <3>1, <1>d
    <2>5. CASE TelegramCallback(r)
      <3>1. Decided(r)
        BY <2>5 DEF TelegramCallback
      <3>. QED
        BY <3>1, <1>d
    <2>6. CASE InterruptRoutes(r)
      <3>1. Decided(r)
        BY <2>6 DEF InterruptRoutes
      <3>. QED
        BY <3>1, <1>d
    <2>7. CASE Continue(r)
      <3>1. /\ thread[r] \in {"awaiting_video_generation", "awaiting_publish"}
            /\ \E s \in {"awaiting_publish", "completed", "failed"} : Reach(r, s)
        BY <2>7 DEF Continue
      <3>2. \A s \in {"awaiting_publish", "completed", "failed"} : s \notin Deduped \ {"completed"}
        BY DEF Deduped, Gate
      <3>. Shrinks
        BY <3>1, <3>2, <1>r DEF Reach, rows, history, At, From, Shrinks
      <3>. QED
        BY ShrinkingKeeps
    <2>8. CASE WorkerCrashes(r)
      <3>. Shrinks
        BY <2>8, <1>r DEF WorkerCrashes, rows, history, At, From, Shrinks
      <3>. QED
        BY ShrinkingKeeps
    <2>9. CASE JobDrops(r)
      <3>. Shrinks
        BY <2>9, <1>r DEF JobDrops, rows, history, At, From, Shrinks
      <3>. QED
        BY ShrinkingKeeps
    <2>. QED
      BY <1>2, <2>1, <2>2, <2>3, <2>4, <2>5, <2>6, <2>7, <2>8, <2>9 DEF Follow
  <1>3. ASSUME NEW m \in Updates, KeyExpires(m)
        PROVE  OneTurn' /\ OneLive'
    <2>. Shrinks
      BY <1>3, <1>r DEF KeyExpires, rows, history, At, From, Shrinks
    <2>. QED
      BY ShrinkingKeeps
  <1>4. CASE ApiCrashes
    <2>. Shrinks
      BY <1>4, <1>r DEF ApiCrashes, NoRequest, rows, history, At, From, Shrinks
    <2>. QED
      BY ShrinkingKeeps
  <1>5. CASE UNCHANGED vars
    <2>. Shrinks
      BY <1>5, <1>r DEF vars, rows, history, At, From, Shrinks
    <2>. QED
      BY ShrinkingKeeps
  <1>. QED
    BY <1>1, <1>2, <1>3, <1>4, <1>5 DEF Next

\* The doors and dispatchers leave no run behind that nobody executes but where a
\* process died or an error never reached the row, the two ways the property
\* names: no order of requests, tasks, jobs, crashes and expiring keys adds a
\* third, and neither does a failure of start_run's last write.
THEOREM NobodyOrphaned == Spec => []NoOrphan
  <1>1. StartInv /\ MirrorInv => NoOrphan
    BY DEF StartInv, NoEarlyOrphan, MirrorInv, SettledRows, NoOrphan
  <1>. QED
    BY <1>1, StartInvInit, StartInvStep, MirrorInvInit, MirrorInvStep, PTL DEF Spec

\* A run that start_run of the langgraph router drove shows its thread's status or
\* failed, but for an overtaken, lost or failed last write, a process that died and
\* an error that start_run tells its caller alone, as the property names them; for
\* any number of handlers, runs and crashes.
THEOREM RowsMirrorThreads == Spec => []RowMirrorsThread
  <1>1. StartInv /\ MirrorInv => RowMirrorsThread
    BY DEF MirrorInv
  <1>. QED
    BY <1>1, StartInvInit, StartInvStep, MirrorInvInit, MirrorInvStep, PTL DEF Spec

\* Two runs of one Telegram message are under way only if the key lapsed and
\* two turns crossed, however many handlers, updates and deliveries there are.
THEOREM OneRunEach == Spec => []OneRunPerUpdate
  <1>1. StartInv /\ OneLive => OneRunPerUpdate
    <2>. SUFFICES ASSUME StartInv, OneLive
                  PROVE  OneRunPerUpdate
      OBVIOUS
    <2>. QED
      BY DEF OneLive, OneRunPerUpdate, LiveAbout
  <1>. QED
    BY <1>1, StartInvInit, StartInvStep, MirrorInvInit, MirrorInvStep, MessageInvInit,
       MessageInvStep, PTL DEF Spec

-----------------------------------------------------------------------------
(* Which way a row goes.                                                   *)

\* Past the first gate every row agrees with its thread, unless start_run's last write has
\* been overtaken; and what start_run is still to write is ahead of the row.
RowIsBehind ==
    /\ \A r \in Runs : (r \notin outrun /\ thread[r] \notin {"none", "running", "failed"})
                            => status[r] = thread[r]
    /\ \A h \in Handlers, r \in Runs :
          (Holds(h, r) /\ At(h, "returned") /\ r \notin outrun) =>
             \/ status[r] = Gate /\ req[h].result = Gate
             \/ status[r] = "running" /\ req[h].result = "failed"

RowMoves(r) ==
    (status[r] # "none" /\ status'[r] # status[r] /\ r \notin outrun')
        => status'[r] # "none" /\ Rank(status[r]) < Rank(status'[r])

\* A step that does nothing to the row of a run that is there, its thread or start_run's
\* request for it.
LEMMA RowRests ==
    ASSUME RowIsBehind, outrun \subseteq outrun',
           \A r \in Runs : status'[r] = status[r] \/ status[r] = "none",
           \A r \in Runs : status'[r] = status[r] \/ thread'[r] \in {"none", "running", "failed"},
           \A r \in Runs : thread'[r] = thread[r] \/ thread'[r] \in {"none", "running", "failed"},
           \A h \in Handlers : At(h, "returned")' => req'[h] = req[h] /\ At(h, "returned"),
           \A h \in Handlers, r \in Runs : Holds(h, r) => status[r] # "none"
    PROVE  RowIsBehind' /\ \A r \in Runs : RowMoves(r)
<1>1. \A r \in Runs : RowMoves(r)
  BY DEF RowMoves
<1>2. ASSUME NEW r \in Runs, r \notin outrun', thread'[r] \notin {"none", "running", "failed"}
      PROVE  status'[r] = thread'[r]
  BY <1>2 DEF RowIsBehind
<1>3. ASSUME NEW h \in Handlers, NEW r \in Runs, Holds(h, r)', At(h, "returned")', r \notin outrun'
      PROVE  \/ status'[r] = Gate /\ req'[h].result = Gate
             \/ status'[r] = "running" /\ req'[h].result = "failed"
  <2>1. Holds(h, r) /\ At(h, "returned") /\ req'[h] = req[h] /\ r \notin outrun
    BY <1>3 DEF Holds
  <2>2. status'[r] = status[r]
    BY <2>1
  <2>. QED
    BY <2>1, <2>2 DEF RowIsBehind
<1>. QED
  BY <1>1, <1>2, <1>3 DEF RowIsBehind

\* A step that does something to one row.
LEMMA OneRow ==
    ASSUME RowIsBehind, outrun \subseteq outrun', NEW r \in Runs, RowMoves(r),
           \A q \in Runs \ {r} : status'[q] = status[q] /\ thread'[q] = thread[q],
           (r \notin outrun' /\ thread'[r] \notin {"none", "running", "failed"})
                => status'[r] = thread'[r],
           \A g \in Handlers : At(g, "returned")' =>
              (req'[g] = req[g] /\ At(g, "returned")) \/ req'[g].run = r,
           \A g \in Handlers : (Holds(g, r)' /\ At(g, "returned")' /\ r \notin outrun') =>
              \/ status'[r] = Gate /\ req'[g].result = Gate
              \/ status'[r] = "running" /\ req'[g].result = "failed"
    PROVE  RowIsBehind' /\ \A q \in Runs : RowMoves(q)
<1>1. \A q \in Runs : RowMoves(q)
  BY DEF RowMoves
<1>2. ASSUME NEW q \in Runs, q \notin outrun', thread'[q] \notin {"none", "running", "failed"}
      PROVE  status'[q] = thread'[q]
  BY <1>2 DEF RowIsBehind
<1>3. ASSUME NEW h \in Handlers, NEW q \in Runs, Holds(h, q)', At(h, "returned")', q \notin outrun',
             q # r
      PROVE  \/ status'[q] = Gate /\ req'[h].result = Gate
             \/ status'[q] = "running" /\ req'[h].result = "failed"
  <2>1. req'[h] = req[h] /\ At(h, "returned") /\ Holds(h, q) /\ q \notin outrun
    BY <1>3 DEF Holds, At
  <2>2. status'[q] = status[q]
    BY <1>3
  <2>. QED
    BY <2>1, <2>2 DEF RowIsBehind
<1>. QED
  BY <1>1, <1>2, <1>3 DEF RowIsBehind

LEMMA RowStep ==
    ASSUME StartInv, MirrorInv, RowIsBehind, [Next]_vars
    PROVE  RowIsBehind' /\ \A r \in Runs : RowMoves(r)
<1>0. /\ req \in [Handlers -> Request] /\ status \in [Runs -> Statuses \cup {"none"}]
      /\ thread \in [Runs -> Statuses \cup {"none"}]
      /\ FreshRows /\ HoldersHaveRuns /\ ResultsAreFinal
      /\ HoldersAlone /\ JobsAlone /\ WritesThread
  BY DEF StartInv, MirrorInv, TypeOK
<1>1. \A h \in Handlers, r \in Runs : Holds(h, r) => status[r] # "none"
  BY <1>0 DEF FreshRows
<1>2. ASSUME NEW h \in Handlers,
             \/ \E d \in Doors : CountRuns(h, d)
             \/ \E m \in Updates : TelegramWebhook(h, m)
             \/ \E m \in Chats : Chat(h, m)
             \/ Refuse(h) \/ Look(h)
      PROVE  RowIsBehind' /\ \A r \in Runs : RowMoves(r)
  <2>1. UNCHANGED <<status, thread, outrun>>
    BY <1>2 DEF CountRuns, TelegramWebhook, Chat, Refuse, Look, rows, history
  <2>2. \A g \in Handlers : At(g, "returned")' => req'[g] = req[g] /\ At(g, "returned")
    <3>1. req' = req \/ \E q : req' = [req EXCEPT ![h] = q] /\ q.pc # "returned"
      <4>1. ASSUME NEW d \in Doors, CountRuns(h, d) PROVE \E q : req' = [req EXCEPT ![h] = q] /\ q.pc # "returned"
        <5>1. [NoRequest EXCEPT !.pc = "counted", !.door = d].pc # "returned"
          BY DEF NoRequest
        <5>. QED
          BY <4>1, <5>1 DEF CountRuns
      <4>2. ASSUME NEW m, Turn(h, m) PROVE \E q : req' = [req EXCEPT ![h] = q] /\ q.pc # "returned"
        <5>1. [NoRequest EXCEPT !.pc = "turn", !.door = "supervisor", !.msg = m].pc # "returned"
          BY DEF NoRequest
        <5>. QED
          BY <4>2, <5>1 DEF Turn
      <4>3. ASSUME Ends(h) PROVE \E q : req' = [req EXCEPT ![h] = q] /\ q.pc # "returned"
        <5>1. NoRequest.pc # "returned"
          BY DEF NoRequest
        <5>. QED
          BY <4>3, <5>1 DEF Ends
      <4>4. ASSUME Goes(h, "looked") PROVE \E q : req' = [req EXCEPT ![h] = q] /\ q.pc # "returned"
        <5>1. PICK q : q = [req[h] EXCEPT !.pc = "looked"]
          OBVIOUS
        <5>2. q.pc # "returned"
          BY <1>0, <5>1 DEF Request
        <5>3. req' = [req EXCEPT ![h] = q]
          BY <1>0, <4>4, <5>1 DEF Goes
        <5>. QED
          BY <5>2, <5>3
      <4>. QED
        BY <1>2, <4>1, <4>2, <4>3, <4>4 DEF TelegramWebhook, Chat, Refuse, Look
    <3>. QED
      BY <1>0, <3>1 DEF At
  <2>. QED
    BY <1>1, <2>1, <2>2, RowRests
<1>3. ASSUME NEW h \in Handlers, NEW r \in Runs,
             StartRun(h, r) \/ PublicDemoStart(h, r) \/ StartGraphRun(h, r) \/ StartWorkflow(h, r)
      PROVE  RowIsBehind' /\ \A q \in Runs : RowMoves(q)
  <2>1. /\ status[r] = "none" /\ UNCHANGED outrun
        /\ \A q \in Runs \ {r} : status'[q] = status[q]
        /\ \A q \in Runs : thread'[q] = thread[q] \/ thread'[q] = "running"
        /\ \A q \in Runs \ {r} : thread'[q] = thread[q]
    BY <1>0, <1>3 DEF StartRun, PublicDemoStart, StartGraphRun, StartWorkflow, NewRun, history
  <2>2. \A g \in Handlers : At(g, "returned")' => req'[g] = req[g] /\ At(g, "returned")
    <3>1. ASSUME NEW q, q.pc # "returned", req' = [req EXCEPT ![h] = q]
          PROVE  (\A g \in Handlers \ {h} : req'[g] = req[g]) /\ req'[h].pc # "returned"
      BY <1>0, <3>1
    <3>0. NoRequest.pc = "idle" /\ req[h] \in Request
      BY <1>0 DEF NoRequest
    <3>2. ASSUME StartRun(h, r) \/ PublicDemoStart(h, r)
          PROVE  (\A g \in Handlers \ {h} : req'[g] = req[g]) /\ req'[h].pc # "returned"
      <4>1. PICK d : d = door'[r]
        OBVIOUS
      <4>2. Dispatch(h, r)
        BY <3>2 DEF StartRun, PublicDemoStart
      <4>3. CASE req' = [req EXCEPT ![h] = NoRequest]
        BY <3>0, <3>1, <4>3
      <4>4. CASE req' = [req EXCEPT ![h].pc = "task", ![h].door = door'[r], ![h].run = r]
        <5>1. PICK q : q = [req[h] EXCEPT !.pc = "task", !.door = d, !.run = r]
          OBVIOUS
        <5>2. req' = [req EXCEPT ![h] = q]
          BY <1>0, <4>1, <4>4, <5>1
        <5>3. q.pc = "task"
          BY <3>0, <5>1 DEF Request
        <5>. QED
          BY <3>1, <5>2, <5>3
      <4>. QED
        BY <4>2, <4>3, <4>4 DEF Dispatch, Ends
    <3>3. ASSUME StartGraphRun(h, r) \/ StartWorkflow(h, r)
          PROVE  (\A g \in Handlers \ {h} : req'[g] = req[g]) /\ req'[h].pc # "returned"
      <4>1. PICK x \in {"opening", "task"} : req' = [req EXCEPT ![h].pc = x, ![h].run = r]
        BY <3>3 DEF StartGraphRun, StartWorkflow
      <4>2. PICK q : q = [req[h] EXCEPT !.pc = x, !.run = r]
        OBVIOUS
      <4>3. req' = [req EXCEPT ![h] = q]
        BY <1>0, <4>1, <4>2
      <4>4. q.pc = x
        BY <3>0, <4>2 DEF Request
      <4>. QED
        BY <3>1, <4>1, <4>3, <4>4
    <3>. QED
      BY <1>3, <3>2, <3>3 DEF At
  <2>3. thread[r] = "none"
    BY <1>0, <2>1 DEF FreshRows
  <2>4. /\ \A q \in Runs : status'[q] = status[q] \/ status[q] = "none"
        /\ \A q \in Runs : status'[q] = status[q] \/ thread'[q] \in {"none", "running", "failed"}
        /\ \A q \in Runs : thread'[q] = thread[q] \/ thread'[q] \in {"none", "running", "failed"}
    BY <2>1, <2>3
  <2>. QED
    BY <1>1, <2>1, <2>2, <2>4, RowRests
<1>4. ASSUME NEW h \in Handlers, RunTask(h)
      PROVE  RowIsBehind' /\ \A q \in Runs : RowMoves(q)
  <2>1. PICK r \in Runs : r = req[h].run /\ Holds(h, r)
    BY <1>0, <1>4 DEF RunTask, At, HoldersHaveRuns, Holds
  <2>2. /\ status[r] = "pending" /\ \A g \in Handlers : Holds(g, r) => g = h
    BY <1>0, <1>4, <2>1 DEF HoldersAlone, RunTask
  <2>3. /\ status' = [status EXCEPT ![r] = "running"] /\ thread' = [thread EXCEPT ![r] = "running"]
        /\ req' = [req EXCEPT ![h].pc = "graph"] /\ UNCHANGED outrun
    BY <1>4, <2>1 DEF RunTask, Running, Goes, history
  <2>4. status'[r] = "running" /\ thread'[r] = "running" /\ RowMoves(r)
    BY <1>0, <2>2, <2>3 DEF RowMoves, Rank, Gate
  <2>5. \A g \in Handlers : At(g, "returned")' => req'[g] = req[g] /\ At(g, "returned") /\ g # h
    BY <1>0, <2>3 DEF At, Request
  <2>6. \A g \in Handlers : At(g, "returned")' => ~Holds(g, r)'
    BY <2>2, <2>5 DEF Holds, At
  <2>. QED
    BY <1>0, <2>3, <2>4, <2>5, <2>6, OneRow
<1>5. ASSUME NEW h \in Handlers, GraphReturns(h)
      PROVE  RowIsBehind' /\ \A q \in Runs : RowMoves(q)
  <2>1. PICK r \in Runs : r = req[h].run /\ Holds(h, r)
    BY <1>0, <1>5 DEF GraphReturns, At, HoldersHaveRuns, Holds
  <2>2. /\ status[r] = "running" /\ thread[r] = "running"
        /\ \A g \in Handlers : Holds(g, r) => g = h
    BY <1>0, <1>5, <2>1 DEF HoldersAlone, GraphReturns
  <2>3. /\ Ideation(r) /\ UNCHANGED outrun
    BY <1>5, <2>1 DEF GraphReturns, history
  <2>4. /\ \A q \in Runs \ {r} : status'[q] = status[q] /\ thread'[q] = thread[q]
        /\ \/ status'[r] = Gate /\ thread'[r] = Gate
           \/ status'[r] = "running" /\ thread'[r] = "failed"
           \/ status'[r] = "failed" /\ thread'[r] = "running"
    BY <1>0, <2>2, <2>3 DEF Ideation
  <2>5. RowMoves(r)
    BY <2>2, <2>4 DEF RowMoves, Rank, Gate
  <2>6. /\ \A g \in Handlers \ {h} : req'[g] = req[g]
        /\ req'[h].pc = "returned" => thread'[r] # "running" /\ req'[h].result = thread'[r] /\ req'[h].run = r
    <3>1. CASE From(h, "supervisor")
      BY <1>0, <1>5, <3>1 DEF GraphReturns, From, Request
    <3>2. CASE ~From(h, "supervisor") /\ From(h, "langgraph") /\ thread'[r] # "running"
      <4>1. PICK x : x = thread'[r]
        OBVIOUS
      <4>2. req' = [req EXCEPT ![h] = [req[h] EXCEPT !.pc = "returned", !.result = x]]
        BY <1>0, <1>5, <2>1, <3>2, <4>1 DEF GraphReturns
      <4>3. req'[h] = [req[h] EXCEPT !.pc = "returned", !.result = x] /\ req[h] \in Request
        BY <1>0, <4>2
      <4>4. req'[h].result = x /\ req'[h].run = req[h].run
        BY <4>3 DEF Request
      <4>. QED
        BY <1>0, <2>1, <3>2, <4>1, <4>2, <4>4
    <3>3. CASE ~From(h, "supervisor") /\ ~(From(h, "langgraph") /\ thread'[r] # "running")
      BY <1>0, <1>5, <2>1, <3>3 DEF GraphReturns, Ends, NoRequest
    <3>. QED
      BY <3>1, <3>2, <3>3
  <2>7. \A g \in Handlers \ {h} : ~Holds(g, r)'
    BY <2>2, <2>6 DEF Holds
  <2>8. ASSUME NEW g \in Handlers, Holds(g, r)', At(g, "returned")'
        PROVE  \/ status'[r] = Gate /\ req'[g].result = Gate
               \/ status'[r] = "running" /\ req'[g].result = "failed"
    BY <2>4, <2>6, <2>7, <2>8 DEF At
  <2>9. \A g \in Handlers : At(g, "returned")' =>
              (req'[g] = req[g] /\ At(g, "returned")) \/ req'[g].run = r
    BY <2>6 DEF At
  <2>. QED
    BY <2>3, <2>4, <2>5, <2>8, <2>9, OneRow
<1>6. ASSUME NEW h \in Handlers, Persist(h)
      PROVE  RowIsBehind' /\ \A q \in Runs : RowMoves(q)
  <2>1. PICK r \in Runs : r = req[h].run /\ Holds(h, r) /\ At(h, "returned")
    BY <1>0, <1>6 DEF Persist, At, HoldersHaveRuns, Holds
  <2>2. \A g \in Handlers : Holds(g, r) => g = h
    BY <1>0, <2>1 DEF HoldersAlone
  <2>3. /\ req' = [req EXCEPT ![h] = NoRequest] /\ UNCHANGED thread /\ outrun \subseteq outrun'
        /\ \/ r \in outrun' /\ status' \in {status, [status EXCEPT ![r] = "failed"]}
           \/ status' = [status EXCEPT ![r] = req[h].result]
    BY <1>6, <2>1 DEF Persist, Ends
  <2>4. \A g \in Handlers : At(g, "returned")' => req'[g] = req[g] /\ At(g, "returned") /\ g # h
    BY <1>0, <2>3 DEF At, NoRequest
  <2>5. \A g \in Handlers : At(g, "returned")' => ~Holds(g, r)'
    BY <2>2, <2>4 DEF Holds, At
  <2>6. r \notin outrun' => /\ \/ status[r] = Gate /\ req[h].result = Gate
                               \/ status[r] = "running" /\ req[h].result = "failed"
                            /\ status'[r] = req[h].result /\ req[h].result = thread[r]
    BY <1>0, <2>1, <2>3 DEF RowIsBehind, WritesThread
  <2>7. RowMoves(r)
    BY <2>6 DEF RowMoves, Rank, Gate
  <2>8. \A q \in Runs \ {r} : status'[q] = status[q]
    BY <1>0, <2>3
  <2>9. (r \notin outrun' /\ thread'[r] \notin {"none", "running", "failed"}) => status'[r] = thread'[r]
    BY <2>3, <2>6
  <2>. QED
    BY <2>3, <2>4, <2>5, <2>7, <2>8, <2>9, OneRow
<1>7. ASSUME NEW r \in Runs, TakeJob(r) \/ JobReturns(r)
      PROVE  RowIsBehind' /\ \A q \in Runs : RowMoves(q)
  <2>1. \A g \in Handlers : ~Holds(g, r)
    BY <1>7 DEF TakeJob, JobReturns, StartInv, OneExecutor
  <2>2. UNCHANGED <<req, outrun>>
    BY <1>7 DEF TakeJob, JobReturns, history
  <2>3. CASE UNCHANGED <<status, thread>>
    BY <1>1, <2>2, <2>3, RowRests DEF At
  <2>4. CASE TakeJob(r) /\ ~UNCHANGED <<status, thread>>
    <3>1. /\ status' = [status EXCEPT ![r] = "running"] /\ thread' = [thread EXCEPT ![r] = "running"]
          /\ status[r] = "pending"
      BY <2>4 DEF TakeJob, Running
    <3>2. status'[r] = "running" /\ thread'[r] = "running" /\ RowMoves(r)
      BY <1>0, <3>1 DEF RowMoves, Rank, Gate
    <3>. QED
      BY <1>0, <2>1, <2>2, <3>1, <3>2, OneRow DEF Holds, At
  <2>5. CASE JobReturns(r)
    <3>1. status[r] = "running" /\ thread[r] = "running"
      BY <1>0, <2>5 DEF JobReturns, JobsAlone
    <3>2. /\ \A q \in Runs \ {r} : status'[q] = status[q] /\ thread'[q] = thread[q]
          /\ \/ status'[r] = Gate /\ thread'[r] = Gate
             \/ status'[r] = "running" /\ thread'[r] = "failed"
             \/ status'[r] = "failed" /\ thread'[r] = "running"
      BY <1>0, <2>5, <3>1 DEF JobReturns, Ideation
    <3>3. RowMoves(r)
      BY <3>1, <3>2 DEF RowMoves, Rank, Gate
    <3>. QED
      BY <2>1, <2>2, <3>2, <3>3, OneRow DEF Holds, At
  <2>. QED
    BY <1>7, <2>3, <2>4, <2>5
<1>8. ASSUME NEW r \in Runs, NEW s, Reach(r, s),
             thread[r] \notin {"none", "running", "failed"}, Rank(thread[r]) < Rank(s), s # "none"
      PROVE  RowIsBehind' /\ \A q \in Runs : RowMoves(q)
  <2>1. /\ status' = [status EXCEPT ![r] = s] /\ thread' = [thread EXCEPT ![r] = s]
        /\ UNCHANGED req /\ outrun \subseteq outrun'
        /\ \A h \in Handlers : At(h, "returned") /\ req[h].run = r => r \in outrun'
    BY <1>8 DEF Reach
  <2>2. r \notin outrun' => status[r] = thread[r]
    BY <1>8, <2>1 DEF RowIsBehind
  <2>3. status'[r] = s /\ thread'[r] = s
    BY <1>0, <2>1
  <2>4. RowMoves(r)
    BY <1>8, <2>2, <2>3 DEF RowMoves
  <2>5. \A q \in Runs \ {r} : status'[q] = status[q] /\ thread'[q] = thread[q]
    BY <1>0, <2>1
  <2>. QED
    BY <2>1, <2>3, <2>4, <2>5, OneRow DEF Holds, At
<1>9. ASSUME NEW r \in Runs,
             PublicDemoDecides(r) \/ TelegramCallback(r) \/ InterruptRoutes(r) \/ Continue(r)
      PROVE  RowIsBehind' /\ \A q \in Runs : RowMoves(q)
  <2>1. \/ thread[r] = Gate /\ \E s \in {"awaiting_video_generation", "rejected"} : Reach(r, s)
        \/ thread[r] = "awaiting_video_generation" /\ \E s \in {"awaiting_publish", "failed"} : Reach(r, s)
        \/ thread[r] = "awaiting_publish" /\ \E s \in {"completed", "failed"} : Reach(r, s)
    BY <1>9 DEF PublicDemoDecides, TelegramCallback, InterruptRoutes, Decided, Continue
  <2>. QED
    BY <1>8, <2>1 DEF Rank, Gate
<1>10. CASE \/ \E r \in Runs : RunAges(r) \/ WorkerCrashes(r) \/ JobDrops(r)
            \/ \E m \in Updates : KeyExpires(m)
            \/ UNCHANGED vars
  <2>1. UNCHANGED <<req, status, thread, outrun>>
    BY <1>10 DEF RunAges, WorkerCrashes, JobDrops, KeyExpires, vars, rows, history
  <2>. QED
    BY <1>1, <2>1, RowRests DEF At
<1>11. CASE ApiCrashes
  <2>1. UNCHANGED <<status, thread, outrun>> /\ \A h \in Handlers : ~At(h, "returned")'
    BY <1>11 DEF ApiCrashes, rows, At, NoRequest
  <2>. QED
    BY <1>1, <2>1, RowRests
<1>12. ASSUME NEW h \in Handlers, Opens(h)
       PROVE  RowIsBehind' /\ \A q \in Runs : RowMoves(q)
  <2>1. PICK r \in Runs : r = req[h].run /\ Holds(h, r)
    BY <1>0, <1>12 DEF Opens, At, HoldersHaveRuns, Holds
  <2>2. status[r] = "running"
    BY <1>0, <1>12, <2>1 DEF HoldersAlone, Opens
  <2>3. /\ UNCHANGED <<status, outrun>> /\ thread' = [thread EXCEPT ![r] = "running"]
        /\ req' = [req EXCEPT ![h].pc = "graph"]
    BY <1>12, <2>1 DEF Opens, Goes, history
  <2>4. \A g \in Handlers : At(g, "returned")' => req'[g] = req[g] /\ At(g, "returned")
    BY <1>0, <2>3 DEF At, Request
  <2>5. \A q \in Runs : thread'[q] = thread[q] \/ thread'[q] = "running"
    BY <1>0, <2>3
  <2>. QED
    BY <1>1, <2>3, <2>4, <2>5, RowRests
<1>13. ASSUME NEW h \in Handlers, Drops(h)
       PROVE  RowIsBehind' /\ \A q \in Runs : RowMoves(q)
  <2>1. UNCHANGED <<status, thread, outrun>>
    BY <1>13 DEF Drops, rows
  <2>2. \A g \in Handlers : At(g, "returned")' => req'[g] = req[g] /\ At(g, "returned")
    <3>1. CASE From(h, "supervisor")
      <4>1. req' = [req EXCEPT ![h].pc = "turn", ![h].run = NoRun]
        BY <1>13, <3>1 DEF Drops
      <4>. QED
        BY <1>0, <4>1 DEF At, Request
    <3>2. CASE ~From(h, "supervisor")
      <4>1. req' = [req EXCEPT ![h] = NoRequest]
        BY <1>13, <3>2 DEF Drops, Ends
      <4>. QED
        BY <1>0, <4>1 DEF At, NoRequest
    <3>. QED
      BY <3>1, <3>2
  <2>. QED
    BY <1>1, <2>1, <2>2, RowRests
<1>. QED
  BY <1>2, <1>3, <1>4, <1>5, <1>6, <1>7, <1>9, <1>10, <1>11, <1>12, <1>13 DEF Next, Handle, Follow

\* For any number of handlers, runs, messages and crashes: a row goes back only where the
\* last write of start_run has been overtaken or lost, or failed a run at its gate.
THEOREM RowsNeverGoBack == Spec => RowsGoForward
<1>1. Init => RowIsBehind
  BY DEF Init, RowIsBehind, At, NoRequest
<1>2. StartInv /\ MirrorInv /\ RowIsBehind /\ [Next]_vars => RowIsBehind' /\ \A r \in Runs : RowMoves(r)
  BY RowStep
<1>3. (\A r \in Runs : RowMoves(r)) =>
        \A r \in Runs : (status[r] # "none" /\ status'[r] # status[r] /\ r \notin outrun')
            => status'[r] # "none" /\ Rank(status[r]) < Rank(status'[r])
  BY DEF RowMoves
<1>. QED
  BY <1>1, <1>2, <1>3, StartInvInit, StartInvStep, MirrorInvInit, MirrorInvStep, PTL
     DEF Spec, RowsGoForward

\* What is proved of the budget, said of the doors' state.
BudgetProofs ==
    INSTANCE RunBudget_proofs WITH
        Requests <- Handlers,
        counted <- Cardinality({r \in young : door[r] \in Budgeted}),
        exempt <- Cardinality({r \in young : door[r] \notin Budgeted}),
        passed <- {h \in Handlers : At(h, "counted")}

\* Both instances of module RunBudget say the same of the doors.
LEMMA OneBudget ==
    /\ Budget!Init <=> BudgetProofs!Init
    /\ [Budget!Next]_Budget!vars <=> [BudgetProofs!Next]_BudgetProofs!vars
  <1>1. Budget!Init <=> BudgetProofs!Init
    BY DEF Budget!Init, BudgetProofs!Init
  <1>2. Budget!vars = BudgetProofs!vars /\ Budget!vars' = BudgetProofs!vars'
    BY DEF Budget!vars, BudgetProofs!vars
  <1>3. Budget!Next <=> BudgetProofs!Next
    BY DEF Budget!Next, BudgetProofs!Next, Budget!Pass, BudgetProofs!Pass, Budget!Create, BudgetProofs!Create,
           Budget!CreateExempt, BudgetProofs!CreateExempt, Budget!Withdraw, BudgetProofs!Withdraw,
           Budget!Age, BudgetProofs!Age
  <1>. QED
    BY <1>1, <1>2, <1>3

\* Of the runs of the last 24 hours, those whose router asked for the budget
\* exceed the limit by less than the requests that can be in flight: what
\* module RunBudget promises, said of the rows.
THEOREM LimitsHold == Spec => []RoutersKeepLimit
  <1>0. BudgetProofs!BudgetAssumption
    BY StartAssumption DEF BudgetProofs!BudgetAssumption, BudgetProofs!IsFiniteSet, IsFiniteSet
  <1>1. Spec => []BudgetProofs!OverdraftBounded
    <2>1. Budget!Spec => BudgetProofs!Spec
      BY OneBudget, PTL DEF Budget!Spec, BudgetProofs!Spec
    <2>2. BudgetProofs!Spec => []BudgetProofs!OverdraftBounded
      BY <1>0, BudgetProofs!OverdraftIsBounded
    <2>. QED
      BY <2>1, <2>2, DoorsImplementBudget, PTL DEF ImplementsBudget
  <1>2. TypeOK /\ BudgetProofs!OverdraftBounded => RoutersKeepLimit
    <2>. SUFFICES ASSUME TypeOK, BudgetProofs!OverdraftBounded
                  PROVE  RoutersKeepLimit
      OBVIOUS
    <2>1. Cardinality(Passed) \in Nat
      BY StartAssumption, FS_Subset, FS_CardinalityType DEF Passed
    <2>2. Cardinality(Asked) \in Nat /\ Cardinality(Handlers) \in Nat /\ MaxRuns \in Nat
      BY MappedSizes, StartAssumption, FS_CardinalityType
    <2>3. Cardinality(Asked) + Cardinality(Passed) + 1 <= MaxRuns + Cardinality(Handlers)
      BY DEF BudgetProofs!OverdraftBounded, BudgetProofs!Cardinality, Cardinality, Asked, Passed
    <2>4. Cardinality(Asked) < MaxRuns + Cardinality(Handlers)
      BY <2>1, <2>2, <2>3
    <2>. QED
      BY <2>4 DEF RoutersKeepLimit, Asked
  <1>. QED
    BY <1>1, <1>2, TypesHold, PTL

=============================================================================
