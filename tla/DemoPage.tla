------------------------------ MODULE DemoPage ------------------------------
(***************************************************************************)
(* The page of the public demo (web/demo/app.js): one browser tab, its     *)
(* event handlers, its timer and its calls to the four routes of           *)
(* public_demo.py.  A handler runs to its next await without interruption; *)
(* a call is handled by the server and its reply delivered to the page at  *)
(* any later time and in any order, or the network loses either.           *)
(*                                                                         *)
(* Every reply is applied to the run that is active when it comes in, not  *)
(* to the one it was asked for: that is what the properties are about.     *)
(* Labels, toasts, activity lists, previews and progress bars are left     *)
(* out, with the header's override, which changes labels only.             *)
(***************************************************************************)
EXTENDS Naturals, FiniteSets

CONSTANTS
    Runs,         \* the demo's runs, each known by its public token
    Calls,        \* bound: fetches of the page that can be out at once
    Skipped,      \* bound: statuses that no run stops at
    NoRun

\* awaiting_video_generation stands for awaiting_render too, pending for running.
Terminal == {"completed", "failed", "rejected"}
Gates    == {"ideation", "publish"}
Statuses == {"pending", "awaiting_ideation_approval", "awaiting_video_generation",
             "awaiting_publish_approval", "awaiting_publish"} \cup Terminal

ASSUME PageAssumption ==
    /\ NoRun \notin Runs
    /\ IsFiniteSet(Calls) /\ Calls # {}
    /\ Skipped \subseteq Statuses \ {"pending", "failed", "rejected"}

VARIABLES
    status,       \* runs.status, "none" without a row
    token,        \* currentToken, kept in localStorage and the URL too
    shown,        \* the run and status that applyRunState painted last
    panel,        \* the active panel
    floor,        \* optimisticPanelFloorByToken
    timer,        \* pollTimer is set
    buttons,      \* approve and reject of either gate: two share their state
    saved,        \* the runs in localStorage, over (closed) or not (open)
    calls,        \* the fetches that are out
    doubted,      \* history: runs of failed, dropped or misapplied calls
    overlapped,   \* history: runs with two status fetches out at once
    revived,      \* history: runs that went on after they had ended
    blank         \* history: a submit without a brief stopped the timer last

page == <<token, shown, panel, floor, timer, buttons, saved>>
history == <<doubted, overlapped, revived, blank>>
vars == <<status, page, calls, history>>

timelineOrder ==
    [begin |-> 0, ideation |-> 1, ideaApproval |-> 2, production |-> 3,
     publishApproval |-> 5, publish |-> 6, done |-> 7]

Panels == DOMAIN timelineOrder

statusToPanel ==
    [s \in Statuses \cup {"idle"} |->
        CASE s = "idle"                       -> "begin"
          [] s = "pending"                    -> "ideation"
          [] s = "awaiting_ideation_approval" -> "ideaApproval"
          [] s = "awaiting_video_generation"  -> "production"
          [] s = "awaiting_publish_approval"  -> "publishApproval"
          [] s = "awaiting_publish"           -> "publish"
          [] s \in Terminal                   -> "done"]

\* _gate_from_status, and the panel with the two buttons of a gate.
GateStatus == [ideation |-> "awaiting_ideation_approval", publish |-> "awaiting_publish_approval"]
GatePanel  == [g \in Gates |-> statusToPanel[GateStatus[g]]]

\* A fetch: what for, about which run (that of a start is known once the server
\* has created it), with which gate's button, and the reply if there is one.
Call ==
    [kind: {"none", "start", "status", "firstStatus", "decision", "list"},
     run: Runs \cup {NoRun}, gate: Gates,
     reply: {"none", "error", "ok"}, status: Statuses]

NoCall ==
    [kind |-> "none", run |-> NoRun, gate |-> "ideation", reply |-> "none", status |-> "pending"]

Ask(kind, r) == [NoCall EXCEPT !.kind = kind, !.run = r]

Out(c)   == calls[c].kind # "none"
Polls(c) == calls[c].kind \in {"status", "firstStatus"}

TypeOK ==
    /\ status \in [Runs -> Statuses \cup {"none"}]
    /\ token \in Runs \cup {NoRun}
    /\ shown \in [run: Runs \cup {NoRun}, status: Statuses \cup {"idle"}]
    /\ panel \in Panels
    /\ floor \in [Runs -> Panels \cup {"none"}]
    /\ timer \in BOOLEAN
    /\ buttons \in [Gates -> {"enabled", "deciding", "spent"}]
    /\ saved \in [Runs -> {"none", "open", "closed"}]
    /\ calls \in [Calls -> Call]
    /\ doubted \in SUBSET Runs /\ overlapped \in SUBSET Runs /\ revived \in SUBSET Runs
    /\ blank \in BOOLEAN

Init ==
    /\ status = [r \in Runs |-> "none"]
    /\ token = NoRun
    /\ shown = [run |-> NoRun, status |-> "idle"]
    /\ panel = "begin"
    /\ floor = [r \in Runs |-> "none"]
    /\ timer = FALSE
    /\ buttons = [g \in Gates |-> "enabled"]
    /\ saved = [r \in Runs |-> "none"]
    /\ calls = [c \in Calls |-> NoCall]
    /\ doubted = {} /\ overlapped = {} /\ revived = {} /\ blank = FALSE
-----------------------------------------------------------------------------
(* What the page is built from.                                            *)

rank(s) == timelineOrder[statusToPanel[s]]

\* Mutant: the floor gives way once the server's panel is past it.
ReachedPast(s, p) == rank(s) > timelineOrder[p]

\* The floor of the panels gives way once the server's panel has reached it.
Reached(s, p) == rank(s) >= timelineOrder[p]

\* upsertRun; only the difference between open and closed matters here.
Saved(r, s) == [saved EXCEPT ![r] = IF s \in Terminal THEN "closed" ELSE "open"]

\* applyRunState with data about run r: it paints, and for the active run t it
\* looks at the floor and saves the status, whatever run the data is about.
Apply(r, s, t, floors) ==
    /\ shown' = [run |-> r, status |-> s]
    /\ IF t = NoRun
         THEN panel' = statusToPanel[s] /\ floor' = floors /\ UNCHANGED saved
         ELSE /\ IF floors[t] # "none" /\ ~Reached(s, floors[t])
                   THEN panel' = floors[t] /\ floor' = floors
                   ELSE panel' = statusToPanel[s] /\ floor' = [floors EXCEPT ![t] = "none"]
              /\ saved' = Saved(t, s)

Free(c) == ~Out(c)

\* pollStatus sends its fetch in place of call c.
Poll(c, kind, r) ==
    /\ calls' = [calls EXCEPT ![c] = Ask(kind, r)]
    /\ overlapped' = IF \E d \in Calls \ {c} : Polls(d) /\ calls[d].run = r
                       THEN overlapped \cup {r} ELSE overlapped

Done(c) == calls' = [calls EXCEPT ![c] = NoCall] /\ UNCHANGED overlapped

\* startPolling: nothing without an active run.
StartPolling(c, kind, t) ==
    IF t = NoRun
      THEN Done(c) /\ UNCHANGED <<timer, blank>>
      ELSE Poll(c, kind, t) /\ timer' = TRUE /\ blank' = FALSE

\* startBtn is disabled until the first status of the new run is there.
Starting == \E c \in Calls : calls[c].kind \in {"start", "firstStatus"}
-----------------------------------------------------------------------------
(* What the visitor does.                                                  *)

\* The page is loaded, or loaded again, with a run in its URL or localStorage.
\* What was out is dropped; the server may still handle it.
Open(c, r) ==
    /\ status[r] # "none"
    /\ token' = r
    /\ Apply(r, "pending", r, [q \in Runs |-> "none"])
    /\ timer' = TRUE
    /\ buttons' = [g \in Gates |-> "enabled"]
    /\ calls' = [d \in Calls |-> IF d = c THEN Ask("status", r) ELSE NoCall]
    /\ doubted' = doubted \cup ({calls[d].run : d \in Calls} \ {NoRun})
    /\ blank' = FALSE
    /\ UNCHANGED <<status, overlapped, revived>>

\* The submit handler without a brief: the timer is stopped and that is all.
SubmitBlank ==
    /\ timer /\ ~Starting
    /\ panel = "begin"
    /\ timer' = FALSE /\ blank' = TRUE
    /\ UNCHANGED <<status, token, shown, panel, floor, buttons, saved, calls,
                   doubted, overlapped, revived>>

\* The submit handler and handleStart up to its fetch.
Submit(c) ==
    /\ Free(c) /\ ~Starting
    /\ panel = "begin"
    /\ timer' = FALSE /\ blank' = FALSE
    /\ Apply(NoRun, "pending", token, floor)
    /\ calls' = [calls EXCEPT ![c] = Ask("start", NoRun)]
    /\ UNCHANGED <<status, token, buttons, doubted, overlapped, revived>>

\* A click on one of the four buttons, and handleApproval up to its fetch.  The
\* request names the active run and no gate.  Which of the gate's two buttons it
\* was matters only when the reply comes in, and is chosen there.
Decide(c, g) ==
    /\ Free(c)
    /\ token # NoRun /\ panel = GatePanel[g]
    /\ buttons[g] = "enabled"
    /\ buttons' = [buttons EXCEPT ![g] = "deciding"]
    /\ calls' = [calls EXCEPT ![c] = [Ask("decision", token) EXCEPT !.gate = g]]
    /\ UNCHANGED <<status, token, shown, panel, floor, timer, saved, history>>

\* Mutant: the new timer is left to fetch the run.
ViewLater(c, r) ==
    /\ Free(c)
    /\ saved[r] # "none"
    /\ token' = r
    /\ timer' = TRUE /\ blank' = FALSE
    /\ UNCHANGED <<status, shown, panel, floor, buttons, saved, calls,
                   doubted, overlapped, revived>>

\* "View" on a run of the list: the old run stays painted until the reply.
View(c, r) ==
    /\ Free(c)
    /\ saved[r] # "none"
    /\ token' = r
    /\ StartPolling(c, "status", r)
    /\ UNCHANGED <<status, shown, panel, floor, buttons, saved, doubted, revived>>

\* "Generate a new video", shown with a terminal status.
resetRun ==
    /\ shown.status \in Terminal
    /\ token' = NoRun
    /\ timer' = FALSE /\ blank' = FALSE
    /\ Apply(NoRun, "idle", NoRun, floor)
    /\ UNCHANGED <<status, buttons, calls, doubted, overlapped, revived>>

\* "Refresh" of the activity card, or the timer goes off.
RefreshNow(c) ==
    /\ Free(c) /\ token # NoRun
    /\ Poll(c, "status", token)
    /\ UNCHANGED <<status, page, doubted, revived, blank>>

Tick(c) == timer /\ RefreshNow(c)

\* "Refresh" of the list of runs: one fetch after the other, each for the list
\* alone.
RefreshRuns(c, r) ==
    /\ Free(c)
    /\ saved[r] # "none"
    /\ calls' = [calls EXCEPT ![c] = Ask("list", r)]
    /\ UNCHANGED <<status, page, history>>
-----------------------------------------------------------------------------
(* What the server does.                                                   *)

\* Where a run goes from status s: on, or it fails, or is rejected at a gate.
Following(s) ==
    LET later == {t \in Statuses \ (Skipped \cup {"failed", "rejected"}) : rank(t) > rank(s)}
    IN  {t \in later : \A u \in later : rank(t) <= rank(u)}
        \cup {IF \E g \in Gates : s = GateStatus[g] THEN "rejected" ELSE "failed"}

\* A run goes on, by its workers or by decisions of this page or of others; or
\* somebody else starts one.
RunMoves(r) ==
    /\ status[r] \notin Terminal
    /\ \E s \in IF status[r] = "none" THEN {"pending"} ELSE Following(status[r]) :
          status' = [status EXCEPT ![r] = s]
    /\ UNCHANGED <<page, calls, history>>

\* A run that has ended goes on from production or later: cleanup.py gives up a
\* run whose resume is queued already, an operator repairs or forks it, and
\* _persist_run_snapshot writes what the graph says without a look at the row.
RunRevives(r) ==
    /\ status[r] \in Terminal
    /\ \E s \in Statuses \ (Terminal \cup Skipped) :
          /\ rank(s) >= rank("awaiting_video_generation")
          /\ status' = [status EXCEPT ![r] = s]
    /\ revived' = revived \cup {r}
    /\ UNCHANGED <<page, calls, doubted, overlapped, blank>>

Replies(c, reply) == calls' = [calls EXCEPT ![c] = reply]

\* _build_public_demo_response.  Of what it tells the page acts on the status alone;
\* the previews, counts, progress and activity are left out.
Response(c) == [calls[c] EXCEPT !.reply = "ok", !.status = status[calls[c].run]]

\* public_demo_status, public_demo_start, public_demo_approve and _reject: what
\* an accepted decision does to the run is a step of RunMoves.
Handle(c) ==
    /\ calls[c].reply = "none"
    /\ \/ /\ Polls(c) \/ calls[c].kind = "list"
          /\ Replies(c, Response(c))
          /\ UNCHANGED status
       \/ /\ calls[c].kind = "start"
          /\ \E r \in Runs :
                /\ status[r] = "none"
                /\ status' = [status EXCEPT ![r] = "pending"]
                /\ Replies(c, [calls[c] EXCEPT !.reply = "ok", !.run = r])
       \/ /\ calls[c].kind = "decision"
          /\ \E g \in Gates : status[calls[c].run] = GateStatus[g]
          /\ Replies(c, [calls[c] EXCEPT !.reply = "ok"])
          /\ UNCHANGED status
    /\ UNCHANGED <<page, history>>

\* Mutant: the page is not told in terms it knows.
CallLost(c) ==
    /\ Out(c) /\ calls[c].reply # "error"
    /\ Replies(c, [calls[c] EXCEPT !.reply = "lost"])
    /\ UNCHANGED <<status, page, history>>

\* The server refuses (no gate, an expired token, the shield, too many
\* requests), or the network loses the request or the reply.
CallFails(c) ==
    /\ Out(c) /\ calls[c].reply # "error"
    /\ Replies(c, [calls[c] EXCEPT !.reply = "error", !.status = "pending",
                                   !.run = IF calls[c].kind = "start" THEN NoRun ELSE @])
    /\ UNCHANGED <<status, page, history>>
-----------------------------------------------------------------------------
(* What the page does with the replies.                                    *)

Doubt(R) == doubted' = doubted \cup (R \ {NoRun})

\* A reply is applied to the active run; one for another run spoils both.
Misapplied(c) == IF token = calls[c].run THEN {} ELSE {token, calls[c].run}

\* Mutant: nothing is fetched while a gate waits for the visitor.
StatusComesToRest(c) ==
    /\ Polls(c) /\ calls[c].reply = "ok"
    /\ Apply(calls[c].run, calls[c].status, token, floor)
    /\ timer' = (timer /\ calls[c].status \notin Terminal \cup {GateStatus[g] : g \in Gates})
    /\ Done(c)
    /\ Doubt(Misapplied(c))
    /\ UNCHANGED <<status, token, buttons, revived, blank>>

StatusComes(c) ==
    /\ Polls(c) /\ calls[c].reply = "ok"
    /\ Apply(calls[c].run, calls[c].status, token, floor)
    /\ timer' = (timer /\ calls[c].status \notin Terminal)
    /\ blank' = (blank /\ calls[c].status \notin Terminal)
    /\ Done(c)
    /\ Doubt(Misapplied(c))
    /\ UNCHANGED <<status, token, buttons, revived>>

\* One failed fetch stops the timer and shows, and saves, a failed run.
StatusFails(c) ==
    /\ Polls(c) /\ calls[c].reply = "error"
    /\ Apply(token, "failed", token, floor)
    /\ timer' = FALSE /\ blank' = FALSE
    /\ Done(c)
    /\ Doubt({token, calls[c].run})
    /\ UNCHANGED <<status, token, buttons, revived>>

\* Nothing but the list is touched, and a fetch that failed is passed over.
ListComes(c) ==
    /\ calls[c].kind = "list"
    /\ \/ calls[c].reply = "ok" /\ saved' = Saved(calls[c].run, calls[c].status)
       \/ calls[c].reply = "error" /\ UNCHANGED saved
    /\ Done(c)
    /\ UNCHANGED <<status, token, shown, panel, floor, timer, buttons, doubted, revived, blank>>

\* Whatever the visitor looks at by now.
StartComes(c) ==
    /\ calls[c].kind = "start" /\ calls[c].reply = "ok"
    /\ token' = calls[c].run
    /\ saved' = Saved(calls[c].run, "pending")
    /\ StartPolling(c, "firstStatus", calls[c].run)
    /\ UNCHANGED <<status, shown, panel, floor, buttons, doubted, revived>>

StartFails(c) ==
    /\ calls[c].kind = "start" /\ calls[c].reply = "error"
    /\ Apply(token, "failed", token, floor)
    /\ Done(c)
    /\ Doubt({token})
    /\ UNCHANGED <<status, token, timer, buttons, revived, blank>>

\* What the page takes an accepted decision to lead to: on, or rejection.
Expected(g) ==
    {"rejected", IF g = "ideation" THEN "awaiting_video_generation" ELSE "awaiting_publish"}

\* Mutant: the next status is left to the timer.
DecisionComesLazily(c) ==
    /\ calls[c].kind = "decision" /\ calls[c].reply = "ok"
    /\ buttons' = [buttons EXCEPT ![calls[c].gate] = "spent"]
    /\ \E s \in Expected(calls[c].gate) : Apply(calls[c].run, s, token, floor)
    /\ Done(c)
    /\ Doubt(Misapplied(c))
    /\ UNCHANGED <<status, token, timer, revived, blank>>

\* The floor is set for the active run, and the state painted next has reached
\* it already.  The buttons stay disabled.
DecisionComes(c) ==
    /\ calls[c].kind = "decision" /\ calls[c].reply = "ok"
    /\ buttons' = [buttons EXCEPT ![calls[c].gate] = "spent"]
    /\ \E s \in Expected(calls[c].gate) :
          Apply(calls[c].run, s, token,
                IF token = NoRun THEN floor ELSE [floor EXCEPT ![token] = statusToPanel[s]])
    /\ StartPolling(c, "status", token)
    /\ Doubt(Misapplied(c))
    /\ UNCHANGED <<status, token, revived>>

DecisionFails(c) ==
    /\ calls[c].kind = "decision" /\ calls[c].reply = "error"
    /\ buttons' = [buttons EXCEPT ![calls[c].gate] = "enabled"]
    /\ Done(c)
    /\ UNCHANGED <<status, token, shown, panel, floor, timer, saved, doubted, revived, blank>>
-----------------------------------------------------------------------------

Delivered(c) ==
    \/ StatusComes(c) \/ StatusFails(c)
    \/ StartComes(c) \/ StartFails(c)
    \/ DecisionComes(c) \/ DecisionFails(c)
    \/ ListComes(c)

Visits(c) ==
    \/ \E r \in Runs : Open(c, r) \/ View(c, r) \/ RefreshRuns(c, r)
    \/ Submit(c) \/ RefreshNow(c)
    \/ \E g \in Gates : Decide(c, g)

Next ==
    \/ \E c \in Calls : Visits(c) \/ Tick(c) \/ Handle(c) \/ CallFails(c) \/ Delivered(c)
    \/ \E r \in Runs : RunMoves(r) \/ RunRevives(r)
    \/ SubmitBlank \/ resetRun

Spec == Init /\ [][Next]_vars
-----------------------------------------------------------------------------
(* Properties.                                                             *)

\* "Approve the draft and the final render right here" (index.html): a gate of
\* the active run that has been painted is offered, whatever was decided before,
\* and its buttons work unless a decision at that gate is under way or has been
\* accepted since the page was loaded, for this run or for another.
GateIsOffered ==
    \A g \in Gates :
        (token # NoRun /\ shown = [run |-> token, status |-> GateStatus[g]])
        => /\ panel = GatePanel[g]
           /\ buttons[g] = "deciding"
              => \E c \in Calls : calls[c].kind = "decision" /\ calls[c].gate = g

\* The page shows another run than the one its buttons act on only until the
\* next status comes in, or after a call for either went astray.
ActiveIsShown ==
    (token # NoRun /\ shown.run # token)
    => token \in doubted \/ \E c \in Calls : Polls(c) /\ calls[c].run = token

\* "Runs are saved in this browser" (index.html): a run that is saved as
\* completed, failed or rejected is over, unless the server revived it after its
\* end (the list is not told), a call for it failed, was dropped or was applied to
\* another run, or a rejection is still to be seen.
SavedIsTrue ==
    \A r \in Runs :
        (saved[r] = "closed" /\ r \notin doubted \cup revived)
        => status[r] \in Terminal \/ \E c \in Calls : Polls(c) /\ calls[c].run = r

\* A page goes on fetching the status of a run until it shows how the run ended,
\* or a call went astray, or two status fetches were out at once (the older
\* reply may come in after the one that stopped the timer), or the run was revived
\* after the end that stopped it, or a submit without a brief has stopped it and
\* nothing has set it since.
KeepsWatching ==
    (/\ token # NoRun /\ shown.run = token /\ shown.status \notin Terminal
     /\ token \notin doubted \cup overlapped \cup revived /\ ~blank)
    => timer \/ Starting

=============================================================================
