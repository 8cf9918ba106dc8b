---------------------------- MODULE DemoPage_proofs ----------------------------
(***************************************************************************)
(* What module DemoPage states of the page of the public demo, for any     *)
(* number of runs, of fetches that are out at once, and of calls that go   *)
(* astray.                                                                 *)
(***************************************************************************)
EXTENDS DemoPage, TLAPS

-----------------------------------------------------------------------------
(* The inductive invariant.                                                *)

\* What the page knows of a run and what it asks about it is about a row.
RowsOK ==
    /\ token # NoRun => status[token] # "none"
    /\ \A r \in Runs : saved[r] # "none" => status[r] # "none"
    /\ \A c \in Calls :
          /\ calls[c].kind \in {"status", "firstStatus", "decision", "list"} => calls[c].run \in Runs
          /\ calls[c].kind = "start" /\ calls[c].reply = "ok" => calls[c].run \in Runs
          /\ calls[c].run # NoRun => status[calls[c].run] # "none"

\* A floor gives way in the step that sets it, so that the panel is the one of
\* the status; only an idle page shows no run's.
PaintOK ==
    /\ floor = [r \in Runs |-> "none"]
    /\ panel = statusToPanel[shown.status]
    /\ shown.status = "idle" => shown.run = NoRun

ButtonsOK ==
    \A g \in Gates : buttons[g] = "deciding" =>
        \E c \in Calls : calls[c].kind = "decision" /\ calls[c].gate = g

\* A run that was over when a fetch was answered is still over, unless it was revived.
RepliesOK ==
    \A c \in Calls :
        (/\ Polls(c) \/ calls[c].kind = "list"
         /\ calls[c].reply = "ok" /\ calls[c].status \in Terminal
         /\ calls[c].run \notin revived)
            => status[calls[c].run] \in Terminal

OverlapOK ==
    \A c, d \in Calls :
        Polls(c) /\ Polls(d) /\ calls[c].run = calls[d].run /\ c # d
            => calls[c].run \in overlapped

\* But for a blank submit and a revived run, the timer is off only for a run that
\* is over, as are the replies that are still to come, or while a new run is being
\* started.
WatchOK ==
    (/\ token # NoRun /\ token \notin doubted \cup overlapped \cup revived
     /\ ~timer /\ ~blank) =>
        \/ \E c \in Calls : calls[c].kind = "start"
        \/ /\ shown.run = token => shown.status \in Terminal
           /\ status[token] \in Terminal
           /\ \A c \in Calls :
                 Polls(c) /\ calls[c].run = token /\ calls[c].reply = "ok"
                     => calls[c].status \in Terminal

PageInv ==
    /\ RowsOK /\ PaintOK /\ ButtonsOK /\ RepliesOK /\ OverlapOK /\ WatchOK
    /\ ActiveIsShown /\ SavedIsTrue

-----------------------------------------------------------------------------
(* What the steps have in common.                                          *)

LEMMA PanelFacts ==
    /\ statusToPanel \in [Statuses \cup {"idle"} -> Panels]
    /\ \A s \in Statuses \cup {"idle"} : statusToPanel[s] = "begin" <=> s = "idle"
    /\ \A s \in Statuses \cup {"idle"} : timelineOrder[statusToPanel[s]] \in Nat
<1>1. Panels = {"begin", "ideation", "ideaApproval", "production", "publishApproval",
                "publish", "done"}
  BY DEF Panels, timelineOrder
<1>2. \A s \in Statuses \cup {"idle"} :
         /\ statusToPanel[s] \in Panels
         /\ statusToPanel[s] = "begin" <=> s = "idle"
  BY <1>1 DEF statusToPanel, Statuses, Terminal
<1>3. \A p \in Panels : timelineOrder[p] \in Nat
  BY <1>1 DEF timelineOrder
<1>. QED
  BY <1>2, <1>3 DEF statusToPanel

\* Whatever is painted, on a page without floors or with the one it has reached.
LEMMA ApplyStep ==
    ASSUME TypeOK, PaintOK, NEW r \in Runs \cup {NoRun}, NEW s \in Statuses \cup {"idle"},
           NEW t \in Runs \cup {NoRun}, NEW floors, Apply(r, s, t, floors),
           s = "idle" => r = NoRun /\ t = NoRun,
           \/ floors = [q \in Runs |-> "none"]
           \/ t # NoRun /\ floors = [floor EXCEPT ![t] = statusToPanel[s]]
    PROVE  /\ shown' = [run |-> r, status |-> s]
           /\ shown' \in [run: Runs \cup {NoRun}, status: Statuses \cup {"idle"}]
           /\ panel' \in Panels /\ floor' \in [Runs -> Panels \cup {"none"}]
           /\ PaintOK'
           /\ saved' \in [Runs -> {"none", "open", "closed"}]
           /\ \A q \in Runs \ {t} : saved'[q] = saved[q]
           /\ t # NoRun => saved'[t] = IF s \in Terminal THEN "closed" ELSE "open"
<1>1. shown' = [run |-> r, status |-> s]
  BY DEF Apply
<1>2. NoRun \notin Runs
  BY PageAssumption
<1>3. panel' = statusToPanel[s] /\ floor' = [q \in Runs |-> "none"]
  <2>1. CASE t = NoRun
    BY <2>1 DEF Apply
  <2>2. CASE t # NoRun /\ floors = [q \in Runs |-> "none"]
    <3>1. floors[t] = "none" /\ [floors EXCEPT ![t] = "none"] = floors
      BY <2>2
    <3>. QED
      BY <2>2, <3>1 DEF Apply
  <2>3. CASE t # NoRun /\ floors = [floor EXCEPT ![t] = statusToPanel[s]]
    <3>1. floors[t] = statusToPanel[s] /\ [floors EXCEPT ![t] = "none"] = [q \in Runs |-> "none"]
      BY <2>3 DEF PaintOK
    <3>2. Reached(s, floors[t])
      BY <3>1, PanelFacts DEF Reached, rank
    <3>. QED
      BY <2>3, <3>1, <3>2 DEF Apply
  <2>. QED
    BY <2>1, <2>2, <2>3
<1>4. saved' = IF t = NoRun THEN saved ELSE Saved(t, s)
  BY DEF Apply
<1>5. /\ saved' \in [Runs -> {"none", "open", "closed"}]
      /\ \A q \in Runs \ {t} : saved'[q] = saved[q]
      /\ t # NoRun => saved'[t] = IF s \in Terminal THEN "closed" ELSE "open"
  BY <1>2, <1>4 DEF Saved, TypeOK
<1>6. panel' \in Panels /\ floor' \in [Runs -> Panels \cup {"none"}]
  BY <1>3, PanelFacts
<1>7. PaintOK'
  BY <1>1, <1>3 DEF PaintOK
<1>. QED
  BY <1>1, <1>5, <1>6, <1>7

LEMMA StatusFacts == "idle" \notin Statuses /\ "none" \notin Statuses /\ Terminal \subseteq Statuses
  BY DEF Statuses, Terminal

LEMMA NoCallFields ==
    NoCall \in Call /\ NoCall.kind = "none" /\ NoCall.run = NoRun /\ NoCall.reply = "none"
  BY DEF NoCall, Call, Gates, GateStatus, Statuses

LEMMA AskFields ==
    ASSUME NEW k \in {"start", "status", "firstStatus", "decision", "list"}, NEW r \in Runs \cup {NoRun}
    PROVE  /\ Ask(k, r) \in Call
           /\ Ask(k, r).kind = k /\ Ask(k, r).run = r /\ Ask(k, r).reply = "none"
  BY NoCallFields DEF Ask, Call

\* One fetch is sent, answered or done with.
LEMMA CallPut ==
    ASSUME TypeOK, NEW c \in Calls, NEW x \in Call, calls' = [calls EXCEPT ![c] = x]
    PROVE  /\ calls' \in [Calls -> Call]
           /\ calls'[c] = x
           /\ \A d \in Calls \ {c} : calls'[d] = calls[d]
  BY DEF TypeOK

LEMMA DoneStep ==
    ASSUME TypeOK, NEW c \in Calls, Done(c)
    PROVE  /\ calls' \in [Calls -> Call]
           /\ calls'[c].kind = "none" /\ calls'[c].run = NoRun
           /\ \A d \in Calls \ {c} : calls'[d] = calls[d]
           /\ overlapped' = overlapped
  BY NoCallFields, CallPut DEF Done

\* pollStatus in place of a fetch that is done with, or of none.
LEMMA PollStep ==
    ASSUME TypeOK, NEW c \in Calls, NEW k \in {"status", "firstStatus"}, NEW r \in Runs,
           Poll(c, k, r)
    PROVE  /\ calls' \in [Calls -> Call]
           /\ calls'[c].kind = k /\ calls'[c].run = r /\ calls'[c].reply = "none"
           /\ \A d \in Calls \ {c} : calls'[d] = calls[d]
           /\ overlapped' \in SUBSET Runs /\ overlapped \subseteq overlapped'
           /\ (\E d \in Calls \ {c} : Polls(d) /\ calls[d].run = r) => r \in overlapped'
<1>1. k \in {"start", "status", "firstStatus", "decision", "list"} /\ r \in Runs \cup {NoRun}
  OBVIOUS
<1>2. /\ calls' \in [Calls -> Call]
      /\ calls'[c].kind = k /\ calls'[c].run = r /\ calls'[c].reply = "none"
      /\ \A d \in Calls \ {c} : calls'[d] = calls[d]
  <2>1. /\ Ask(k, r) \in Call
        /\ Ask(k, r).kind = k /\ Ask(k, r).run = r /\ Ask(k, r).reply = "none"
    BY <1>1, AskFields
  <2>2. calls' = [calls EXCEPT ![c] = Ask(k, r)]
    BY DEF Poll
  <2>. QED
    BY <2>1, <2>2, CallPut
<1>3. /\ overlapped' \in SUBSET Runs /\ overlapped \subseteq overlapped'
      /\ (\E d \in Calls \ {c} : Polls(d) /\ calls[d].run = r) => r \in overlapped'
  BY DEF Poll, TypeOK
<1>. QED
  BY <1>2, <1>3

\* A run that goes on is not over, and stays a row.
LEMMA FollowingFacts == \A s \in Statuses : Following(s) \subseteq Statuses
  BY DEF Following, Statuses, Terminal

-----------------------------------------------------------------------------
(* What the visitor does.  Each step is first reduced to what it changes.   *)

LEMMA OpenKeeps ==
    ASSUME TypeOK, PageInv, NEW c \in Calls, NEW r \in Runs, Open(c, r)
    PROVE  TypeOK' /\ PageInv'
<1>1. /\ status[r] # "none" /\ token' = r /\ timer' = TRUE
      /\ buttons' = [g \in Gates |-> "enabled"] /\ blank' = FALSE
      /\ UNCHANGED <<status, overlapped, revived>>
  BY DEF Open
<1>2. /\ shown' = [run |-> r, status |-> "pending"]
      /\ shown' \in [run: Runs \cup {NoRun}, status: Statuses \cup {"idle"}]
      /\ panel' \in Panels /\ floor' \in [Runs -> Panels \cup {"none"}]
      /\ PaintOK'
      /\ saved' \in [Runs -> {"none", "open", "closed"}]
      /\ \A q \in Runs \ {r} : saved'[q] = saved[q]
      /\ r # NoRun => saved'[r] = IF "pending" \in Terminal THEN "closed" ELSE "open"
  BY ApplyStep, StatusFacts DEF Open, PageInv, Statuses
<1>3. /\ calls' \in [Calls -> Call]
      /\ calls'[c].kind = "status" /\ calls'[c].run = r /\ calls'[c].reply = "none"
      /\ \A d \in Calls \ {c} : calls'[d].kind = "none" /\ calls'[d].run = NoRun
  BY AskFields, NoCallFields DEF Open
<1>4. /\ doubted' \in SUBSET Runs /\ doubted \subseteq doubted'
      /\ \A d \in Calls : calls[d].run # NoRun => calls[d].run \in doubted'
  BY DEF Open, TypeOK, Call
<1>5. NoRun \notin Runs /\ "pending" \notin Terminal /\ "none" \notin Statuses
  BY PageAssumption, StatusFacts DEF Terminal
<1>6. TypeOK'
  BY <1>1, <1>2, <1>3, <1>4 DEF TypeOK
<1>7. RowsOK'
  BY <1>1, <1>2, <1>3, <1>4, <1>5 DEF PageInv, TypeOK, RowsOK
<1>8. ButtonsOK'
  BY <1>1, <1>3, <1>4, <1>5 DEF PageInv, TypeOK, ButtonsOK, Polls
<1>9. RepliesOK'
  BY <1>1, <1>2, <1>3, <1>4, <1>5 DEF PageInv, TypeOK, RowsOK, RepliesOK, Polls
<1>10. OverlapOK'
  BY <1>1, <1>3, <1>4, <1>5 DEF PageInv, TypeOK, OverlapOK, Polls
<1>11. WatchOK'
  BY <1>1, <1>2, <1>3, <1>4, <1>5 DEF PageInv, TypeOK, RowsOK, RepliesOK, OverlapOK,
     WatchOK, Polls
<1>12. ActiveIsShown'
  BY <1>1, <1>2, <1>3, <1>4, <1>5 DEF PageInv, TypeOK, ActiveIsShown, Polls
<1>13. SavedIsTrue'
  BY <1>1, <1>2, <1>3, <1>4, <1>5 DEF PageInv, TypeOK, RowsOK, RepliesOK, SavedIsTrue,
     Polls
<1>. QED
  BY <1>6, <1>7, <1>8, <1>9, <1>10, <1>11, <1>12, <1>13, <1>2 DEF PageInv

LEMMA SubmitKeeps ==
    ASSUME TypeOK, PageInv, NEW c \in Calls, Submit(c)
    PROVE  TypeOK' /\ PageInv'
<1>1. /\ calls[c].kind = "none" /\ panel = "begin" /\ timer' = FALSE
      /\ blank' = FALSE /\ UNCHANGED <<status, token, buttons, doubted, overlapped, revived>>
  BY DEF Submit, Free, Out
<1>2. /\ shown' = [run |-> NoRun, status |-> "pending"]
      /\ shown' \in [run: Runs \cup {NoRun}, status: Statuses \cup {"idle"}]
      /\ panel' \in Panels /\ floor' \in [Runs -> Panels \cup {"none"}]
      /\ PaintOK'
      /\ saved' \in [Runs -> {"none", "open", "closed"}]
      /\ \A q \in Runs \ {token} : saved'[q] = saved[q]
      /\ token # NoRun => saved'[token] = IF "pending" \in Terminal THEN "closed" ELSE "open"
  BY ApplyStep, StatusFacts DEF Submit, PageInv, PaintOK, TypeOK, Statuses
<1>3. /\ calls' \in [Calls -> Call]
      /\ calls'[c].kind = "start" /\ calls'[c].run = NoRun /\ calls'[c].reply = "none"
      /\ \A d \in Calls \ {c} : calls'[d] = calls[d]
  <2>1. /\ Ask("start", NoRun) \in Call /\ Ask("start", NoRun).kind = "start"
        /\ Ask("start", NoRun).run = NoRun /\ Ask("start", NoRun).reply = "none"
    BY AskFields
  <2>2. calls' = [calls EXCEPT ![c] = Ask("start", NoRun)]
    BY DEF Submit
  <2>. QED
    BY <2>1, <2>2, CallPut
<1>4. shown.run = NoRun
  BY <1>1, PanelFacts DEF PageInv, PaintOK, TypeOK
<1>5. NoRun \notin Runs /\ "pending" \notin Terminal /\ "none" \notin Statuses
  BY PageAssumption, StatusFacts DEF Terminal
<1>6. TypeOK'
  BY <1>1, <1>2, <1>3 DEF TypeOK
<1>7. RowsOK'
  BY <1>1, <1>2, <1>3, <1>4, <1>5 DEF PageInv, TypeOK, RowsOK
<1>8. ButtonsOK'
  BY <1>1, <1>3, <1>4, <1>5 DEF PageInv, TypeOK, ButtonsOK, Polls
<1>9. RepliesOK'
  BY <1>1, <1>2, <1>3, <1>4, <1>5 DEF PageInv, TypeOK, RowsOK, RepliesOK, Polls
<1>10. OverlapOK'
  BY <1>1, <1>3, <1>4, <1>5 DEF PageInv, TypeOK, OverlapOK, Polls
<1>11. WatchOK'
  BY <1>1, <1>2, <1>3, <1>4, <1>5 DEF PageInv, TypeOK, RowsOK, RepliesOK, OverlapOK,
     WatchOK, Polls
<1>12. ActiveIsShown'
  BY <1>1, <1>2, <1>3, <1>4, <1>5 DEF PageInv, TypeOK, ActiveIsShown, Polls
<1>13. SavedIsTrue'
  BY <1>1, <1>2, <1>3, <1>4, <1>5 DEF PageInv, TypeOK, RowsOK, RepliesOK, SavedIsTrue,
     Polls
<1>. QED
  BY <1>6, <1>7, <1>8, <1>9, <1>10, <1>11, <1>12, <1>13, <1>2 DEF PageInv

LEMMA DecideKeeps ==
    ASSUME TypeOK, PageInv, NEW c \in Calls, NEW g \in Gates, Decide(c, g)
    PROVE  TypeOK' /\ PageInv'
<1>1. /\ calls[c].kind = "none" /\ token # NoRun
      /\ UNCHANGED <<status, token, shown, panel, floor, timer, saved, doubted, overlapped,
                     revived, blank>>
  BY DEF Decide, Free, Out, history
<1>2. /\ buttons' \in [Gates -> {"enabled", "deciding", "spent"}]
      /\ \A h \in Gates \ {g} : buttons'[h] = buttons[h]
  BY DEF Decide, TypeOK
<1>3. /\ calls' \in [Calls -> Call]
      /\ calls'[c].kind = "decision" /\ calls'[c].run = token /\ calls'[c].gate = g
      /\ calls'[c].reply = "none"
      /\ \A d \in Calls \ {c} : calls'[d] = calls[d]
  <2>. DEFINE x == [Ask("decision", token) EXCEPT !.gate = g]
  <2>1. /\ Ask("decision", token) \in Call /\ Ask("decision", token).kind = "decision"
        /\ Ask("decision", token).run = token /\ Ask("decision", token).reply = "none"
    BY AskFields DEF TypeOK
  <2>2. x \in Call /\ x.kind = "decision" /\ x.run = token /\ x.gate = g /\ x.reply = "none"
    BY <2>1 DEF Call
  <2>3. calls' = [calls EXCEPT ![c] = x]
    BY DEF Decide
  <2>. HIDE DEF x
  <2>. QED
    BY <2>2, <2>3, CallPut
<1>4. NoRun \notin Runs
  BY PageAssumption
<1>5. TypeOK'
  BY <1>1, <1>2, <1>3 DEF TypeOK
<1>6. RowsOK'
  BY <1>1, <1>3, <1>4 DEF PageInv, TypeOK, RowsOK
<1>7. PaintOK'
  BY <1>1, <1>4 DEF PageInv, PaintOK
<1>8. ButtonsOK'
  BY <1>1, <1>2, <1>3, <1>4 DEF PageInv, TypeOK, ButtonsOK, Polls
<1>9. RepliesOK'
  BY <1>1, <1>3, <1>4 DEF PageInv, TypeOK, RowsOK, RepliesOK, Polls
<1>10. OverlapOK'
  BY <1>1, <1>3, <1>4 DEF PageInv, TypeOK, OverlapOK, Polls
<1>11. WatchOK'
  BY <1>1, <1>3, <1>4 DEF PageInv, TypeOK, RowsOK, RepliesOK, OverlapOK, WatchOK,
     Polls
<1>12. ActiveIsShown'
  BY <1>1, <1>3, <1>4 DEF PageInv, TypeOK, ActiveIsShown, Polls
<1>13. SavedIsTrue'
  BY <1>1, <1>3, <1>4 DEF PageInv, TypeOK, RowsOK, RepliesOK, SavedIsTrue, Polls
<1>. QED
  BY <1>5, <1>6, <1>7, <1>8, <1>9, <1>10, <1>11, <1>12, <1>13 DEF PageInv

LEMMA ViewKeeps ==
    ASSUME TypeOK, PageInv, NEW c \in Calls, NEW r \in Runs, View(c, r)
    PROVE  TypeOK' /\ PageInv'
<1>1. /\ calls[c].kind = "none" /\ saved[r] # "none" /\ token' = r
      /\ UNCHANGED <<status, shown, panel, floor, buttons, saved, doubted, revived>>
  BY DEF View, Free, Out
<1>2. Poll(c, "status", r) /\ timer' = TRUE /\ blank' = FALSE
  BY PageAssumption DEF View, StartPolling
<1>3. /\ calls' \in [Calls -> Call]
      /\ calls'[c].kind = "status" /\ calls'[c].run = r /\ calls'[c].reply = "none"
      /\ \A d \in Calls \ {c} : calls'[d] = calls[d]
      /\ overlapped' \in SUBSET Runs /\ overlapped \subseteq overlapped'
      /\ (\E d \in Calls \ {c} : Polls(d) /\ calls[d].run = r) => r \in overlapped'
  BY <1>2, PollStep
<1>4. NoRun \notin Runs
  BY PageAssumption
<1>5. TypeOK'
  BY <1>1, <1>2, <1>3 DEF TypeOK
<1>6. RowsOK'
  BY <1>1, <1>2, <1>3, <1>4 DEF PageInv, TypeOK, RowsOK
<1>7. PaintOK'
  BY <1>1, <1>4 DEF PageInv, PaintOK
<1>8. ButtonsOK'
  BY <1>1, <1>3, <1>4 DEF PageInv, TypeOK, ButtonsOK, Polls
<1>9. RepliesOK'
  BY <1>1, <1>2, <1>3, <1>4 DEF PageInv, TypeOK, RowsOK, RepliesOK, Polls
<1>10. OverlapOK'
  BY <1>1, <1>3, <1>4 DEF PageInv, TypeOK, OverlapOK, Polls
<1>11. WatchOK'
  BY <1>1, <1>2, <1>3, <1>4 DEF PageInv, TypeOK, RowsOK, RepliesOK, OverlapOK,
     WatchOK, Polls
<1>12. ActiveIsShown'
  BY <1>1, <1>3, <1>4 DEF PageInv, TypeOK, ActiveIsShown, Polls
<1>13. SavedIsTrue'
  BY <1>1, <1>2, <1>3, <1>4 DEF PageInv, TypeOK, RowsOK, RepliesOK, SavedIsTrue, Polls
<1>. QED
  BY <1>5, <1>6, <1>7, <1>8, <1>9, <1>10, <1>11, <1>12, <1>13 DEF PageInv

LEMMA resetRunKeeps ==
    ASSUME TypeOK, PageInv, resetRun
    PROVE  TypeOK' /\ PageInv'
<1>1. /\ token' = NoRun /\ timer' = FALSE /\ blank' = FALSE
      /\ UNCHANGED <<status, buttons, calls, doubted, overlapped, revived>>
  BY DEF resetRun
<1>2. /\ shown' \in [run: Runs \cup {NoRun}, status: Statuses \cup {"idle"}]
      /\ panel' \in Panels /\ floor' \in [Runs -> Panels \cup {"none"}]
      /\ PaintOK'
  BY ApplyStep DEF resetRun, PageInv, PaintOK
<1>3. saved' = saved
  BY DEF resetRun, Apply
<1>4. TypeOK'
  BY <1>1, <1>2, <1>3 DEF TypeOK
<1>5. RowsOK'
  BY <1>1, <1>2, <1>3 DEF PageInv, TypeOK, RowsOK
<1>6. ButtonsOK'
  BY <1>1 DEF PageInv, TypeOK, ButtonsOK, Polls
<1>7. RepliesOK'
  BY <1>1, <1>2 DEF PageInv, TypeOK, RowsOK, RepliesOK, Polls
<1>8. OverlapOK'
  BY <1>1 DEF PageInv, TypeOK, OverlapOK, Polls
<1>9. WatchOK'
  BY <1>1, <1>2 DEF PageInv, TypeOK, RowsOK, RepliesOK, OverlapOK, WatchOK, Polls
<1>10. ActiveIsShown'
  BY <1>1, <1>2 DEF PageInv, TypeOK, ActiveIsShown, Polls
<1>11. SavedIsTrue'
  BY <1>1, <1>2, <1>3 DEF PageInv, TypeOK, RowsOK, RepliesOK, SavedIsTrue, Polls
<1>. QED
  BY <1>4, <1>5, <1>6, <1>7, <1>8, <1>9, <1>10, <1>11, <1>2 DEF PageInv

LEMMA RefreshNowKeeps ==
    ASSUME TypeOK, PageInv, NEW c \in Calls, RefreshNow(c)
    PROVE  TypeOK' /\ PageInv'
<1>1. /\ calls[c].kind = "none" /\ token # NoRun /\ token \in Runs /\ Poll(c, "status", token)
      /\ UNCHANGED <<status, token, shown, panel, floor, timer, buttons, saved, doubted,
                     revived, blank>>
  BY DEF RefreshNow, Free, Out, page, TypeOK
<1>2. /\ calls' \in [Calls -> Call]
      /\ calls'[c].kind = "status" /\ calls'[c].run = token /\ calls'[c].reply = "none"
      /\ \A d \in Calls \ {c} : calls'[d] = calls[d]
      /\ overlapped' \in SUBSET Runs /\ overlapped \subseteq overlapped'
      /\ (\E d \in Calls \ {c} : Polls(d) /\ calls[d].run = token) => token \in overlapped'
  BY <1>1, PollStep
<1>3. NoRun \notin Runs
  BY PageAssumption
<1>4. TypeOK'
  BY <1>1, <1>2 DEF TypeOK
<1>5. RowsOK'
  BY <1>1, <1>2, <1>3 DEF PageInv, TypeOK, RowsOK
<1>6. PaintOK'
  BY <1>1, <1>3 DEF PageInv, PaintOK
<1>7. ButtonsOK'
  BY <1>1, <1>2, <1>3 DEF PageInv, TypeOK, ButtonsOK, Polls
<1>8. RepliesOK'
  BY <1>1, <1>2, <1>3 DEF PageInv, TypeOK, RowsOK, RepliesOK, Polls
<1>9. OverlapOK'
  BY <1>1, <1>2, <1>3 DEF PageInv, TypeOK, OverlapOK, Polls
<1>10. WatchOK'
  BY <1>1, <1>2, <1>3 DEF PageInv, TypeOK, RowsOK, RepliesOK, OverlapOK, WatchOK,
     Polls
<1>11. ActiveIsShown'
  BY <1>1, <1>2, <1>3 DEF PageInv, TypeOK, ActiveIsShown, Polls
<1>12. SavedIsTrue'
  BY <1>1, <1>2, <1>3 DEF PageInv, TypeOK, RowsOK, RepliesOK, SavedIsTrue, Polls
<1>. QED
  BY <1>4, <1>5, <1>6, <1>7, <1>8, <1>9, <1>10, <1>11, <1>12 DEF PageInv

LEMMA RefreshRunsKeeps ==
    ASSUME TypeOK, PageInv, NEW c \in Calls, NEW r \in Runs, RefreshRuns(c, r)
    PROVE  TypeOK' /\ PageInv'
<1>1. /\ calls[c].kind = "none" /\ status[r] # "none"
      /\ UNCHANGED <<status, token, shown, panel, floor, timer, buttons, saved, doubted, overlapped,
                     revived, blank>>
  BY DEF RefreshRuns, Free, Out, page, history, PageInv, RowsOK
<1>2. /\ calls' \in [Calls -> Call]
      /\ calls'[c].kind = "list" /\ calls'[c].run = r /\ calls'[c].reply = "none"
      /\ \A d \in Calls \ {c} : calls'[d] = calls[d]
  BY AskFields, CallPut DEF RefreshRuns
<1>3. TypeOK'
  BY <1>1, <1>2 DEF TypeOK
<1>4. RowsOK'
  BY <1>1, <1>2 DEF PageInv, TypeOK, RowsOK
<1>5. PaintOK'
  BY <1>1 DEF PageInv, PaintOK
<1>6. ButtonsOK'
  BY <1>1, <1>2 DEF PageInv, TypeOK, ButtonsOK, Polls
<1>7. RepliesOK'
  BY <1>1, <1>2 DEF PageInv, TypeOK, RowsOK, RepliesOK, Polls
<1>8. OverlapOK'
  BY <1>1, <1>2 DEF PageInv, TypeOK, OverlapOK, Polls
<1>9. WatchOK'
  BY <1>1, <1>2 DEF PageInv, TypeOK, RowsOK, RepliesOK, OverlapOK, WatchOK, Polls
<1>10. ActiveIsShown'
  BY <1>1, <1>2 DEF PageInv, TypeOK, ActiveIsShown, Polls
<1>11. SavedIsTrue'
  BY <1>1, <1>2 DEF PageInv, TypeOK, RowsOK, RepliesOK, SavedIsTrue, Polls
<1>. QED
  BY <1>3, <1>4, <1>5, <1>6, <1>7, <1>8, <1>9, <1>10, <1>11 DEF PageInv

\* The timer alone is stopped.
LEMMA SubmitBlankKeeps ==
    ASSUME TypeOK, PageInv, SubmitBlank
    PROVE  TypeOK' /\ PageInv'
<1>1. /\ timer' = FALSE /\ blank' = TRUE
      /\ UNCHANGED <<status, token, shown, panel, floor, buttons, saved, calls,
                     doubted, overlapped, revived>>
  BY DEF SubmitBlank
<1>2. TypeOK'
  BY <1>1 DEF TypeOK
<1>3. RowsOK' /\ PaintOK' /\ ButtonsOK'
  BY <1>1 DEF PageInv, RowsOK, PaintOK, ButtonsOK
<1>4. RepliesOK' /\ OverlapOK'
  BY <1>1 DEF PageInv, RepliesOK, OverlapOK, Polls
<1>5. WatchOK'
  BY <1>1 DEF WatchOK
<1>6. ActiveIsShown' /\ SavedIsTrue'
  BY <1>1 DEF PageInv, ActiveIsShown, SavedIsTrue, Polls
<1>. QED
  BY <1>2, <1>3, <1>4, <1>5, <1>6 DEF PageInv

-----------------------------------------------------------------------------
(* What the server and the network do.                                     *)

LEMMA RunMovesKeeps ==
    ASSUME TypeOK, PageInv, NEW r \in Runs, RunMoves(r)
    PROVE  TypeOK' /\ PageInv'
<1>1. /\ status[r] \notin Terminal
      /\ UNCHANGED <<token, shown, panel, floor, timer, buttons, saved, calls, doubted, overlapped,
                     revived, blank>>
  BY DEF RunMoves, page, history
<1>2. \E s \in Statuses : status' = [status EXCEPT ![r] = s]
  <2>1. CASE status[r] = "none"
    BY <2>1 DEF RunMoves, Statuses
  <2>2. CASE status[r] # "none"
    <3>1. status[r] \in Statuses
      BY <2>2 DEF TypeOK
    <3>. QED
      BY <2>2, <3>1, FollowingFacts DEF RunMoves
  <2>. QED
    BY <2>1, <2>2
<1>3. /\ status' \in [Runs -> Statuses \cup {"none"}]
      /\ \A q \in Runs : status[q] # "none" => status'[q] # "none"
      /\ \A q \in Runs : status[q] \in Terminal => status'[q] = status[q]
  BY <1>1, <1>2, StatusFacts DEF TypeOK
<1>4. NoRun \notin Runs
  BY PageAssumption
<1>5. TypeOK'
  BY <1>1, <1>2, <1>3 DEF TypeOK
<1>6. RowsOK'
  BY <1>1, <1>2, <1>3, <1>4 DEF PageInv, TypeOK, RowsOK
<1>7. PaintOK'
  BY <1>1, <1>4 DEF PageInv, PaintOK
<1>8. ButtonsOK'
  BY <1>1, <1>4 DEF PageInv, TypeOK, ButtonsOK, Polls
<1>9. RepliesOK'
  BY <1>1, <1>2, <1>3, <1>4 DEF PageInv, TypeOK, RowsOK, RepliesOK, Polls
<1>10. OverlapOK'
  BY <1>1, <1>4 DEF PageInv, TypeOK, OverlapOK, Polls
<1>11. WatchOK'
  BY <1>1, <1>2, <1>3, <1>4 DEF PageInv, TypeOK, RowsOK, RepliesOK, OverlapOK,
     WatchOK, Polls
<1>12. ActiveIsShown'
  BY <1>1, <1>4 DEF PageInv, TypeOK, ActiveIsShown, Polls
<1>13. SavedIsTrue'
  BY <1>1, <1>2, <1>3, <1>4 DEF PageInv, TypeOK, RowsOK, RepliesOK, SavedIsTrue, Polls
<1>. QED
  BY <1>5, <1>6, <1>7, <1>8, <1>9, <1>10, <1>11, <1>12, <1>13 DEF PageInv

\* What is claimed is claimed of the runs that stay over.
LEMMA RunRevivesKeeps ==
    ASSUME TypeOK, PageInv, NEW r \in Runs, RunRevives(r)
    PROVE  TypeOK' /\ PageInv'
<1>1. /\ status[r] \in Terminal /\ revived' = revived \cup {r}
      /\ UNCHANGED <<token, shown, panel, floor, timer, buttons, saved, calls, doubted, overlapped,
                     blank>>
  BY DEF RunRevives, page
<1>2. PICK s \in Statuses : status' = [status EXCEPT ![r] = s]
  BY DEF RunRevives
<1>3. /\ status' \in [Runs -> Statuses \cup {"none"}]
      /\ \A q \in Runs : status[q] # "none" => status'[q] # "none"
      /\ \A q \in Runs \ revived' : status'[q] = status[q]
      /\ revived \subseteq revived' /\ revived' \in SUBSET Runs
  BY <1>1, <1>2, StatusFacts DEF TypeOK
<1>4. NoRun \notin Runs
  BY PageAssumption
<1>5. TypeOK'
  BY <1>1, <1>3 DEF TypeOK
<1>6. RowsOK'
  BY <1>1, <1>3, <1>4 DEF PageInv, TypeOK, RowsOK, Call
<1>7. PaintOK' /\ ButtonsOK'
  BY <1>1 DEF PageInv, PaintOK, ButtonsOK
<1>8. RepliesOK'
  BY <1>1, <1>3 DEF PageInv, TypeOK, RowsOK, RepliesOK, Polls
<1>9. OverlapOK'
  BY <1>1 DEF PageInv, OverlapOK, Polls
<1>10. WatchOK'
  BY <1>1, <1>3 DEF PageInv, TypeOK, WatchOK, Polls
<1>11. ActiveIsShown'
  BY <1>1 DEF PageInv, ActiveIsShown, Polls
<1>12. SavedIsTrue'
  BY <1>1, <1>3 DEF PageInv, SavedIsTrue, Polls
<1>. QED
  BY <1>5, <1>6, <1>7, <1>8, <1>9, <1>10, <1>11, <1>12 DEF PageInv

\* A status is read, ...
LEMMA HandlePollKeeps ==
    ASSUME TypeOK, PageInv, NEW c \in Calls, Handle(c), Polls(c) \/ calls[c].kind = "list"
    PROVE  TypeOK' /\ PageInv'
<1>1. /\ calls[c].reply = "none"
      /\ UNCHANGED <<status, token, shown, panel, floor, timer, buttons, saved, doubted, overlapped,
                     revived, blank>>
  BY DEF Handle, Response, Polls, page, history
<1>2. calls[c].run \in Runs /\ status[calls[c].run] \in Statuses
  BY PageAssumption DEF PageInv, RowsOK, Polls, TypeOK
<1>3. /\ calls' \in [Calls -> Call]
      /\ calls'[c].kind = calls[c].kind /\ calls'[c].run = calls[c].run
      /\ calls'[c].status = status[calls[c].run]
      /\ \A d \in Calls \ {c} : calls'[d] = calls[d]
  <2>. DEFINE x == [calls[c] EXCEPT !.reply = "ok", !.status = status[calls[c].run]]
  <2>1. calls[c] \in Call
    BY DEF TypeOK
  <2>2. x \in Call /\ x.kind = calls[c].kind /\ x.run = calls[c].run /\ x.status = status[calls[c].run]
    BY <1>2, <2>1 DEF Call
  <2>3. calls' = [calls EXCEPT ![c] = x]
    BY DEF Handle, Response, Replies, Polls
  <2>. HIDE DEF x
  <2>. QED
    BY <2>2, <2>3, CallPut
<1>4. NoRun \notin Runs
  BY PageAssumption
<1>5. TypeOK'
  BY <1>1, <1>3 DEF TypeOK
<1>6. RowsOK'
  BY <1>1, <1>2, <1>3, <1>4 DEF PageInv, TypeOK, RowsOK
<1>7. PaintOK'
  BY <1>1, <1>2, <1>4 DEF PageInv, PaintOK
<1>8. ButtonsOK'
  BY <1>1, <1>2, <1>3, <1>4 DEF PageInv, TypeOK, ButtonsOK, Polls
<1>9. RepliesOK'
  BY <1>1, <1>2, <1>3, <1>4 DEF PageInv, TypeOK, RowsOK, RepliesOK, Polls
<1>10. OverlapOK'
  BY <1>1, <1>2, <1>3, <1>4 DEF PageInv, TypeOK, OverlapOK, Polls
<1>11. WatchOK'
  BY <1>1, <1>2, <1>3, <1>4 DEF PageInv, TypeOK, RowsOK, RepliesOK, OverlapOK,
     WatchOK, Polls
<1>12. ActiveIsShown'
  BY <1>1, <1>2, <1>3, <1>4 DEF PageInv, TypeOK, ActiveIsShown, Polls
<1>13. SavedIsTrue'
  BY <1>1, <1>2, <1>3, <1>4 DEF PageInv, TypeOK, RowsOK, RepliesOK, SavedIsTrue, Polls
<1>. QED
  BY <1>5, <1>6, <1>7, <1>8, <1>9, <1>10, <1>11, <1>12, <1>13 DEF PageInv

\* ... a run is created, ...
LEMMA HandleStartKeeps ==
    ASSUME TypeOK, PageInv, NEW c \in Calls, Handle(c), calls[c].kind = "start"
    PROVE  TypeOK' /\ PageInv'
<1>1. UNCHANGED <<token, shown, panel, floor, timer, buttons, saved, doubted, overlapped,
                  revived, blank>>
  BY DEF Handle, Response, page, history
<1>2. PICK r \in Runs :
         /\ status[r] = "none"
         /\ status' = [status EXCEPT ![r] = "pending"]
         /\ Replies(c, [calls[c] EXCEPT !.reply = "ok", !.run = r])
  BY DEF Handle, Response, Polls
<1>3. /\ calls' \in [Calls -> Call]
      /\ calls'[c].kind = "start" /\ calls'[c].run = r
      /\ \A d \in Calls \ {c} : calls'[d] = calls[d]
  <2>. DEFINE x == [calls[c] EXCEPT !.reply = "ok", !.run = r]
  <2>1. calls[c] \in Call
    BY DEF TypeOK
  <2>2. x \in Call /\ x.kind = calls[c].kind /\ x.run = r
    BY <2>1 DEF Call
  <2>3. calls' = [calls EXCEPT ![c] = x]
    BY <1>2 DEF Replies
  <2>. HIDE DEF x
  <2>. QED
    BY <2>2, <2>3, CallPut
<1>4. /\ status' \in [Runs -> Statuses \cup {"none"}]
      /\ \A q \in Runs : status[q] # "none" => status'[q] = status[q]
      /\ status'[r] # "none"
  BY <1>2 DEF TypeOK, Statuses
<1>5. NoRun \notin Runs /\ "none" \notin Terminal
  BY PageAssumption DEF Terminal
<1>6. TypeOK'
  BY <1>1, <1>2, <1>3, <1>4 DEF TypeOK
<1>7. RowsOK'
  BY <1>1, <1>2, <1>3, <1>4, <1>5 DEF PageInv, TypeOK, RowsOK
<1>8. PaintOK'
  BY <1>1, <1>5 DEF PageInv, PaintOK
<1>9. ButtonsOK'
  BY <1>1, <1>2, <1>3, <1>5 DEF PageInv, TypeOK, ButtonsOK, Polls
<1>10. RepliesOK'
  BY <1>1, <1>2, <1>3, <1>4, <1>5 DEF PageInv, TypeOK, RowsOK, RepliesOK, Polls
<1>11. OverlapOK'
  BY <1>1, <1>2, <1>3, <1>5 DEF PageInv, TypeOK, OverlapOK, Polls
<1>12. WatchOK'
  BY <1>1, <1>2, <1>3, <1>4, <1>5 DEF PageInv, TypeOK, RowsOK, RepliesOK, OverlapOK,
     WatchOK, Polls
<1>13. ActiveIsShown'
  BY <1>1, <1>2, <1>3, <1>5 DEF PageInv, TypeOK, ActiveIsShown, Polls
<1>14. SavedIsTrue'
  BY <1>1, <1>2, <1>3, <1>4, <1>5 DEF PageInv, TypeOK, RowsOK, RepliesOK, SavedIsTrue,
     Polls
<1>. QED
  BY <1>6, <1>7, <1>8, <1>9, <1>10, <1>11, <1>12, <1>13, <1>14 DEF PageInv

\* ... or a decision is accepted.
LEMMA HandleDecisionKeeps ==
    ASSUME TypeOK, PageInv, NEW c \in Calls, Handle(c), calls[c].kind = "decision"
    PROVE  TypeOK' /\ PageInv'
<1>1. UNCHANGED <<status, token, shown, panel, floor, timer, buttons, saved, doubted, overlapped,
                  revived, blank>>
  BY DEF Handle, Response, Polls, page, history
<1>2. /\ calls' \in [Calls -> Call]
      /\ calls'[c].kind = calls[c].kind /\ calls'[c].run = calls[c].run
      /\ calls'[c].gate = calls[c].gate
      /\ \A d \in Calls \ {c} : calls'[d] = calls[d]
  <2>. DEFINE x == [calls[c] EXCEPT !.reply = "ok"]
  <2>1. calls[c] \in Call
    BY DEF TypeOK
  <2>2. x \in Call /\ x.kind = calls[c].kind /\ x.run = calls[c].run /\ x.gate = calls[c].gate
    BY <2>1 DEF Call
  <2>3. calls' = [calls EXCEPT ![c] = x]
    BY DEF Handle, Response, Replies, Polls
  <2>. HIDE DEF x
  <2>. QED
    BY <2>2, <2>3, CallPut
<1>3. TypeOK'
  BY <1>1, <1>2 DEF TypeOK
<1>4. RowsOK'
  BY <1>1, <1>2 DEF PageInv, TypeOK, RowsOK
<1>5. PaintOK'
  BY <1>1 DEF PageInv, PaintOK
<1>6. ButtonsOK'
  BY <1>1, <1>2 DEF PageInv, TypeOK, ButtonsOK, Polls
<1>7. RepliesOK'
  BY <1>1, <1>2 DEF PageInv, TypeOK, RowsOK, RepliesOK, Polls
<1>8. OverlapOK'
  BY <1>1, <1>2 DEF PageInv, TypeOK, OverlapOK, Polls
<1>9. WatchOK'
  BY <1>1, <1>2 DEF PageInv, TypeOK, RowsOK, RepliesOK, OverlapOK, WatchOK, Polls
<1>10. ActiveIsShown'
  BY <1>1, <1>2 DEF PageInv, TypeOK, ActiveIsShown, Polls
<1>11. SavedIsTrue'
  BY <1>1, <1>2 DEF PageInv, TypeOK, RowsOK, RepliesOK, SavedIsTrue, Polls
<1>. QED
  BY <1>3, <1>4, <1>5, <1>6, <1>7, <1>8, <1>9, <1>10, <1>11 DEF PageInv

LEMMA CallFailsKeeps ==
    ASSUME TypeOK, PageInv, NEW c \in Calls, CallFails(c)
    PROVE  TypeOK' /\ PageInv'
<1>1. UNCHANGED <<status, token, shown, panel, floor, timer, buttons, saved, doubted, overlapped,
                  revived, blank>>
  BY DEF CallFails, page, history
<1>2. /\ calls' \in [Calls -> Call]
      /\ calls'[c].kind = calls[c].kind /\ calls'[c].gate = calls[c].gate
      /\ calls'[c].reply = "error"
      /\ calls'[c].run = IF calls[c].kind = "start" THEN NoRun ELSE calls[c].run
      /\ \A d \in Calls \ {c} : calls'[d] = calls[d]
  <2>. DEFINE q == IF calls[c].kind = "start" THEN NoRun ELSE calls[c].run
              x == [calls[c] EXCEPT !.reply = "error", !.status = "pending", !.run = q]
  <2>1. calls[c] \in Call
    BY DEF TypeOK
  <2>2. q \in Runs \cup {NoRun}
    BY <2>1 DEF Call
  <2>3. calls' = [calls EXCEPT ![c] = x]
    BY DEF CallFails, Replies
  <2>4. /\ x \in Call /\ x.kind = calls[c].kind /\ x.run = q
        /\ x.gate = calls[c].gate /\ x.reply = "error"
    <3>. HIDE DEF q
    <3>. QED
      BY <2>1, <2>2 DEF Call, Statuses
  <2>. HIDE DEF x
  <2>. QED
    BY <2>3, <2>4, CallPut
<1>3. TypeOK'
  BY <1>1, <1>2 DEF TypeOK
<1>4. RowsOK'
  BY <1>1, <1>2 DEF PageInv, TypeOK, RowsOK
<1>5. PaintOK'
  BY <1>1 DEF PageInv, PaintOK
<1>6. ButtonsOK'
  BY <1>1, <1>2 DEF PageInv, TypeOK, ButtonsOK, Polls
<1>7. RepliesOK'
  BY <1>1, <1>2 DEF PageInv, TypeOK, RowsOK, RepliesOK, Polls
<1>8. OverlapOK'
  BY <1>1, <1>2 DEF PageInv, TypeOK, OverlapOK, Polls
<1>9. WatchOK'
  BY <1>1, <1>2 DEF PageInv, TypeOK, RowsOK, RepliesOK, OverlapOK, WatchOK, Polls
<1>10. ActiveIsShown'
  BY <1>1, <1>2 DEF PageInv, TypeOK, ActiveIsShown, Polls
<1>11. SavedIsTrue'
  BY <1>1, <1>2 DEF PageInv, TypeOK, RowsOK, RepliesOK, SavedIsTrue, Polls
<1>. QED
  BY <1>3, <1>4, <1>5, <1>6, <1>7, <1>8, <1>9, <1>10, <1>11 DEF PageInv

-----------------------------------------------------------------------------
(* What the page does with the replies.                                    *)

LEMMA StatusComesKeeps ==
    ASSUME TypeOK, PageInv, NEW c \in Calls, StatusComes(c)
    PROVE  TypeOK' /\ PageInv'
<1>1. /\ Polls(c) /\ calls[c].reply = "ok"
      /\ timer' = (timer /\ calls[c].status \notin Terminal)
      /\ blank' = (blank /\ calls[c].status \notin Terminal)
      /\ UNCHANGED <<status, token, buttons, revived>>
  BY DEF StatusComes
<1>2. /\ calls[c].run \in Runs /\ calls[c].status \in Statuses /\ token \in Runs \cup {NoRun}
      /\ NoRun \notin Runs
  BY <1>1, PageAssumption DEF PageInv, RowsOK, Polls, TypeOK, Call
<1>3. /\ shown' = [run |-> calls[c].run, status |-> calls[c].status]
      /\ shown' \in [run: Runs \cup {NoRun}, status: Statuses \cup {"idle"}]
      /\ panel' \in Panels /\ floor' \in [Runs -> Panels \cup {"none"}]
      /\ PaintOK'
      /\ saved' \in [Runs -> {"none", "open", "closed"}]
      /\ \A q \in Runs \ {token} : saved'[q] = saved[q]
      /\ token # NoRun => saved'[token] = IF calls[c].status \in Terminal THEN "closed" ELSE "open"
  BY <1>2, ApplyStep, StatusFacts DEF StatusComes, PageInv, PaintOK
<1>4. /\ calls' \in [Calls -> Call]
      /\ calls'[c].kind = "none" /\ calls'[c].run = NoRun
      /\ \A d \in Calls \ {c} : calls'[d] = calls[d]
      /\ overlapped' = overlapped
  BY DoneStep DEF StatusComes
<1>5. /\ doubted' \in SUBSET Runs /\ doubted \subseteq doubted'
      /\ token # calls[c].run => calls[c].run \in doubted' /\ (token # NoRun => token \in doubted')
  BY <1>2 DEF StatusComes, Doubt, Misapplied, TypeOK
<1>6. timer' \in BOOLEAN /\ blank' \in BOOLEAN
  BY <1>1
<1>7. TypeOK'
  BY <1>1, <1>3, <1>4, <1>5, <1>6 DEF TypeOK
<1>8. RowsOK'
  BY <1>1, <1>2, <1>3, <1>4, <1>5 DEF PageInv, TypeOK, RowsOK
<1>9. ButtonsOK'
  BY <1>1, <1>2, <1>3, <1>4, <1>5 DEF PageInv, TypeOK, ButtonsOK, Polls
<1>10. RepliesOK'
  BY <1>1, <1>2, <1>3, <1>4, <1>5 DEF PageInv, TypeOK, RowsOK, RepliesOK, Polls
<1>11. OverlapOK'
  BY <1>1, <1>2, <1>3, <1>4, <1>5 DEF PageInv, TypeOK, OverlapOK, Polls
<1>12. WatchOK'
  BY <1>1, <1>2, <1>3, <1>4, <1>5, <1>6 DEF PageInv, TypeOK, RowsOK, RepliesOK,
     OverlapOK, WatchOK, Polls
<1>13. ActiveIsShown'
  BY <1>1, <1>2, <1>3, <1>4, <1>5 DEF PageInv, TypeOK, ActiveIsShown, Polls
<1>14. SavedIsTrue'
  BY <1>1, <1>2, <1>3, <1>4, <1>5 DEF PageInv, TypeOK, RowsOK, RepliesOK, SavedIsTrue,
     Polls
<1>. QED
  BY <1>7, <1>8, <1>9, <1>10, <1>11, <1>12, <1>13, <1>14, <1>3 DEF PageInv

LEMMA StatusFailsKeeps ==
    ASSUME TypeOK, PageInv, NEW c \in Calls, StatusFails(c)
    PROVE  TypeOK' /\ PageInv'
<1>1. /\ Polls(c) /\ timer' = FALSE /\ blank' = FALSE
      /\ UNCHANGED <<status, token, buttons, revived>>
  BY DEF StatusFails
<1>2. /\ calls[c].run \in Runs /\ token \in Runs \cup {NoRun}
      /\ NoRun \notin Runs /\ "failed" \in Terminal
  BY <1>1, PageAssumption DEF PageInv, RowsOK, Polls, TypeOK, Terminal
<1>3. /\ shown' = [run |-> token, status |-> "failed"]
      /\ shown' \in [run: Runs \cup {NoRun}, status: Statuses \cup {"idle"}]
      /\ panel' \in Panels /\ floor' \in [Runs -> Panels \cup {"none"}]
      /\ PaintOK'
      /\ saved' \in [Runs -> {"none", "open", "closed"}]
      /\ \A q \in Runs \ {token} : saved'[q] = saved[q]
      /\ token # NoRun => saved'[token] = IF "failed" \in Terminal THEN "closed" ELSE "open"
  BY <1>2, ApplyStep, StatusFacts DEF StatusFails, PageInv, PaintOK
<1>4. /\ calls' \in [Calls -> Call]
      /\ calls'[c].kind = "none" /\ calls'[c].run = NoRun
      /\ \A d \in Calls \ {c} : calls'[d] = calls[d]
      /\ overlapped' = overlapped
  BY DoneStep DEF StatusFails
<1>5. /\ doubted' \in SUBSET Runs /\ doubted \subseteq doubted'
      /\ calls[c].run \in doubted' /\ (token # NoRun => token \in doubted')
  BY <1>2 DEF StatusFails, Doubt, TypeOK
<1>6. TypeOK'
  BY <1>1, <1>3, <1>4, <1>5 DEF TypeOK
<1>7. RowsOK'
  BY <1>1, <1>2, <1>3, <1>4, <1>5 DEF PageInv, TypeOK, RowsOK
<1>8. ButtonsOK'
  BY <1>1, <1>2, <1>4, <1>5 DEF PageInv, TypeOK, ButtonsOK, Polls
<1>9. RepliesOK'
  BY <1>1, <1>2, <1>3, <1>4, <1>5 DEF PageInv, TypeOK, RowsOK, RepliesOK, Polls
<1>10. OverlapOK'
  BY <1>2, <1>4, <1>5 DEF PageInv, TypeOK, OverlapOK, Polls
<1>11. WatchOK'
  BY <1>1, <1>2, <1>3, <1>4, <1>5 DEF PageInv, TypeOK, RowsOK, RepliesOK, OverlapOK,
     WatchOK, Polls
<1>12. ActiveIsShown'
  BY <1>1, <1>2, <1>3, <1>4, <1>5 DEF PageInv, TypeOK, ActiveIsShown, Polls
<1>13. SavedIsTrue'
  BY <1>1, <1>2, <1>3, <1>4, <1>5 DEF PageInv, TypeOK, RowsOK, RepliesOK, SavedIsTrue,
     Polls
<1>. QED
  BY <1>6, <1>7, <1>8, <1>9, <1>10, <1>11, <1>12, <1>13, <1>3 DEF PageInv

LEMMA StartComesKeeps ==
    ASSUME TypeOK, PageInv, NEW c \in Calls, StartComes(c)
    PROVE  TypeOK' /\ PageInv'
<1>1. /\ calls[c].kind = "start" /\ calls[c].reply = "ok" /\ token' = calls[c].run
      /\ UNCHANGED <<status, shown, panel, floor, buttons, doubted, revived>>
  BY DEF StartComes
<1>2. calls[c].run \in Runs /\ NoRun \notin Runs /\ "pending" \notin Terminal
  BY <1>1, PageAssumption DEF PageInv, RowsOK, Terminal
<1>3. Poll(c, "firstStatus", calls[c].run) /\ timer' = TRUE /\ blank' = FALSE
  BY <1>2 DEF StartComes, StartPolling
<1>4. /\ calls' \in [Calls -> Call]
      /\ calls'[c].kind = "firstStatus" /\ calls'[c].run = calls[c].run /\ calls'[c].reply = "none"
      /\ \A d \in Calls \ {c} : calls'[d] = calls[d]
      /\ overlapped' \in SUBSET Runs /\ overlapped \subseteq overlapped'
      /\ (\E d \in Calls \ {c} : Polls(d) /\ calls[d].run = calls[c].run) => calls[c].run \in overlapped'
  BY <1>2, <1>3, PollStep
<1>5. /\ saved' \in [Runs -> {"none", "open", "closed"}] /\ saved'[calls[c].run] = "open"
      /\ \A q \in Runs \ {calls[c].run} : saved'[q] = saved[q]
  BY <1>2 DEF StartComes, Saved, TypeOK
<1>6. TypeOK'
  BY <1>1, <1>2, <1>3, <1>4, <1>5 DEF TypeOK
<1>7. RowsOK'
  BY <1>1, <1>2, <1>3, <1>4, <1>5 DEF PageInv, TypeOK, RowsOK
<1>8. PaintOK'
  BY <1>1, <1>2 DEF PageInv, PaintOK
<1>9. ButtonsOK'
  BY <1>1, <1>2, <1>3, <1>4, <1>5 DEF PageInv, TypeOK, ButtonsOK, Polls
<1>10. RepliesOK'
  BY <1>1, <1>2, <1>3, <1>4, <1>5 DEF PageInv, TypeOK, RowsOK, RepliesOK, Polls
<1>11. OverlapOK'
  BY <1>1, <1>2, <1>3, <1>4, <1>5 DEF PageInv, TypeOK, OverlapOK, Polls
<1>12. WatchOK'
  BY <1>1, <1>2, <1>3, <1>4, <1>5 DEF PageInv, TypeOK, RowsOK, RepliesOK, OverlapOK,
     WatchOK, Polls
<1>13. ActiveIsShown'
  BY <1>1, <1>2, <1>3, <1>4, <1>5 DEF PageInv, TypeOK, ActiveIsShown, Polls
<1>14. SavedIsTrue'
  BY <1>1, <1>2, <1>3, <1>4, <1>5 DEF PageInv, TypeOK, RowsOK, RepliesOK, SavedIsTrue,
     Polls
<1>. QED
  BY <1>6, <1>7, <1>8, <1>9, <1>10, <1>11, <1>12, <1>13, <1>14 DEF PageInv

LEMMA StartFailsKeeps ==
    ASSUME TypeOK, PageInv, NEW c \in Calls, StartFails(c)
    PROVE  TypeOK' /\ PageInv'
<1>1. calls[c].kind = "start" /\ UNCHANGED <<status, token, timer, buttons, revived, blank>>
  BY DEF StartFails
<1>2. token \in Runs \cup {NoRun} /\ NoRun \notin Runs /\ "failed" \in Terminal
  BY PageAssumption DEF TypeOK, Terminal
<1>3. /\ shown' = [run |-> token, status |-> "failed"]
      /\ shown' \in [run: Runs \cup {NoRun}, status: Statuses \cup {"idle"}]
      /\ panel' \in Panels /\ floor' \in [Runs -> Panels \cup {"none"}]
      /\ PaintOK'
      /\ saved' \in [Runs -> {"none", "open", "closed"}]
      /\ \A q \in Runs \ {token} : saved'[q] = saved[q]
      /\ token # NoRun => saved'[token] = IF "failed" \in Terminal THEN "closed" ELSE "open"
  BY <1>2, ApplyStep, StatusFacts DEF StartFails, PageInv, PaintOK
<1>4. /\ calls' \in [Calls -> Call]
      /\ calls'[c].kind = "none" /\ calls'[c].run = NoRun
      /\ \A d \in Calls \ {c} : calls'[d] = calls[d]
      /\ overlapped' = overlapped
  BY DoneStep DEF StartFails
<1>5. /\ doubted' \in SUBSET Runs /\ doubted \subseteq doubted'
      /\ token # NoRun => token \in doubted'
  BY <1>2 DEF StartFails, Doubt, TypeOK
<1>6. TypeOK'
  BY <1>1, <1>3, <1>4, <1>5 DEF TypeOK
<1>7. RowsOK'
  BY <1>1, <1>2, <1>3, <1>4, <1>5 DEF PageInv, TypeOK, RowsOK
<1>8. ButtonsOK'
  BY <1>1, <1>2, <1>4 DEF PageInv, TypeOK, ButtonsOK, Polls
<1>9. RepliesOK'
  BY <1>1, <1>2, <1>3, <1>4 DEF PageInv, TypeOK, RowsOK, RepliesOK, Polls
<1>10. OverlapOK'
  BY <1>1, <1>2, <1>4 DEF PageInv, TypeOK, OverlapOK, Polls
<1>11. WatchOK'
  BY <1>1, <1>2, <1>3, <1>4, <1>5 DEF PageInv, TypeOK, RowsOK, RepliesOK, OverlapOK,
     WatchOK, Polls
<1>12. ActiveIsShown'
  BY <1>1, <1>2, <1>3, <1>4, <1>5 DEF PageInv, TypeOK, ActiveIsShown, Polls
<1>13. SavedIsTrue'
  BY <1>1, <1>2, <1>3, <1>4, <1>5 DEF PageInv, TypeOK, RowsOK, RepliesOK, SavedIsTrue,
     Polls
<1>. QED
  BY <1>6, <1>7, <1>8, <1>9, <1>10, <1>11, <1>12, <1>13, <1>3 DEF PageInv

LEMMA ListComesKeeps ==
    ASSUME TypeOK, PageInv, NEW c \in Calls, ListComes(c)
    PROVE  TypeOK' /\ PageInv'
<1>1. /\ calls[c].kind = "list"
      /\ UNCHANGED <<status, token, shown, panel, floor, timer, buttons, doubted, revived, blank>>
  BY DEF ListComes
<1>2. calls[c].run \in Runs /\ NoRun \notin Runs
  BY <1>1, PageAssumption DEF PageInv, RowsOK
<1>3. /\ calls' \in [Calls -> Call]
      /\ calls'[c].kind = "none" /\ calls'[c].run = NoRun
      /\ \A d \in Calls \ {c} : calls'[d] = calls[d]
      /\ overlapped' = overlapped
  BY DoneStep DEF ListComes
<1>4. /\ saved' \in [Runs -> {"none", "open", "closed"}]
      /\ \A q \in Runs \ {calls[c].run} : saved'[q] = saved[q]
      /\ saved'[calls[c].run] = "closed" =>
            \/ saved[calls[c].run] = "closed"
            \/ calls[c].reply = "ok" /\ calls[c].status \in Terminal
  BY <1>2 DEF ListComes, Saved, TypeOK
<1>5. status[calls[c].run] # "none"
  BY <1>2 DEF PageInv, RowsOK
<1>6. TypeOK'
  BY <1>1, <1>3, <1>4 DEF TypeOK
<1>7. RowsOK'
  BY <1>1, <1>3, <1>4, <1>5 DEF PageInv, TypeOK, RowsOK
<1>8. PaintOK'
  BY <1>1 DEF PageInv, PaintOK
<1>9. ButtonsOK'
  BY <1>1, <1>3 DEF PageInv, ButtonsOK
<1>10. RepliesOK'
  BY <1>1, <1>2, <1>3 DEF PageInv, TypeOK, RowsOK, RepliesOK, Polls
<1>11. OverlapOK'
  BY <1>1, <1>2, <1>3 DEF PageInv, TypeOK, OverlapOK, Polls
<1>12. WatchOK'
  BY <1>1, <1>2, <1>3 DEF PageInv, TypeOK, RowsOK, RepliesOK, OverlapOK, WatchOK, Polls
<1>13. ActiveIsShown'
  BY <1>1, <1>2, <1>3 DEF PageInv, TypeOK, ActiveIsShown, Polls
<1>14. SavedIsTrue'
  BY <1>1, <1>2, <1>3, <1>4 DEF PageInv, TypeOK, RowsOK, RepliesOK, SavedIsTrue, Polls
<1>. QED
  BY <1>6, <1>7, <1>8, <1>9, <1>10, <1>11, <1>12, <1>13, <1>14 DEF PageInv

LEMMA DecisionComesKeeps ==
    ASSUME TypeOK, PageInv, NEW c \in Calls, DecisionComes(c)
    PROVE  TypeOK' /\ PageInv'
<1>1. calls[c].kind = "decision" /\ UNCHANGED <<status, token, revived>>
  BY DEF DecisionComes
<1>2. /\ calls[c].run \in Runs /\ calls[c].gate \in Gates /\ token \in Runs \cup {NoRun}
      /\ NoRun \notin Runs
  BY <1>1, PageAssumption DEF PageInv, RowsOK, TypeOK, Call
<1>3. /\ buttons' \in [Gates -> {"enabled", "deciding", "spent"}]
      /\ buttons'[calls[c].gate] = "spent"
      /\ \A h \in Gates \ {calls[c].gate} : buttons'[h] = buttons[h]
  BY <1>2 DEF DecisionComes, TypeOK
<1>4. PICK s \in Statuses :
         Apply(calls[c].run, s, token,
               IF token = NoRun THEN floor ELSE [floor EXCEPT ![token] = statusToPanel[s]])
  BY DEF DecisionComes, Expected, Statuses, Terminal
<1>5. /\ shown' = [run |-> calls[c].run, status |-> s]
      /\ shown' \in [run: Runs \cup {NoRun}, status: Statuses \cup {"idle"}]
      /\ panel' \in Panels /\ floor' \in [Runs -> Panels \cup {"none"}]
      /\ PaintOK'
      /\ saved' \in [Runs -> {"none", "open", "closed"}]
      /\ \A q \in Runs \ {token} : saved'[q] = saved[q]
      /\ token # NoRun => saved'[token] = IF s \in Terminal THEN "closed" ELSE "open"
  BY <1>2, <1>4, ApplyStep, StatusFacts DEF PageInv, PaintOK
<1>6. /\ calls' \in [Calls -> Call] /\ overlapped' \in SUBSET Runs /\ overlapped \subseteq overlapped'
      /\ \A d \in Calls \ {c} : calls'[d] = calls[d]
      /\ token = NoRun => /\ calls'[c].kind = "none" /\ calls'[c].run = NoRun
                          /\ UNCHANGED <<timer, blank, overlapped>>
      /\ token # NoRun =>
            /\ calls'[c].kind = "status" /\ calls'[c].run = token /\ calls'[c].reply = "none"
            /\ timer' = TRUE /\ blank' = FALSE
            /\ (\E d \in Calls \ {c} : Polls(d) /\ calls[d].run = token) => token \in overlapped'
  <2>1. CASE token = NoRun
    BY <2>1, DoneStep DEF DecisionComes, StartPolling, TypeOK
  <2>2. CASE token # NoRun
    BY <1>2, <2>2, PollStep DEF DecisionComes, StartPolling
  <2>. QED
    BY <2>1, <2>2
<1>7. /\ doubted' \in SUBSET Runs /\ doubted \subseteq doubted'
      /\ token # calls[c].run => calls[c].run \in doubted' /\ (token # NoRun => token \in doubted')
  BY <1>2 DEF DecisionComes, Doubt, Misapplied, TypeOK
<1>8. timer' \in BOOLEAN /\ blank' \in BOOLEAN
  BY <1>6 DEF TypeOK
<1>9. TypeOK'
  BY <1>1, <1>3, <1>4, <1>5, <1>6, <1>7, <1>8 DEF TypeOK
<1>10. RowsOK'
  BY <1>1, <1>2, <1>3, <1>4, <1>5, <1>6, <1>7 DEF PageInv, TypeOK, RowsOK
<1>11. ButtonsOK'
  BY <1>1, <1>2, <1>3, <1>4, <1>5, <1>6, <1>7 DEF PageInv, TypeOK, ButtonsOK, Polls
<1>12. RepliesOK'
  BY <1>1, <1>2, <1>3, <1>4, <1>5, <1>6, <1>7 DEF PageInv, TypeOK, RowsOK, RepliesOK,
     Polls
<1>13. OverlapOK'
  BY <1>1, <1>2, <1>3, <1>4, <1>5, <1>6, <1>7 DEF PageInv, TypeOK, OverlapOK, Polls
<1>14. WatchOK'
  BY <1>1, <1>2, <1>3, <1>4, <1>5, <1>6, <1>7, <1>8 DEF PageInv, TypeOK, RowsOK,
     RepliesOK, OverlapOK, WatchOK, Polls
<1>15. ActiveIsShown'
  BY <1>1, <1>2, <1>3, <1>4, <1>5, <1>6, <1>7 DEF PageInv, TypeOK, ActiveIsShown,
     Polls
<1>16. SavedIsTrue'
  BY <1>1, <1>2, <1>3, <1>4, <1>5, <1>6, <1>7 DEF PageInv, TypeOK, RowsOK, RepliesOK,
     SavedIsTrue, Polls
<1>. QED
  BY <1>9, <1>10, <1>11, <1>12, <1>13, <1>14, <1>15, <1>16, <1>5 DEF PageInv

LEMMA DecisionFailsKeeps ==
    ASSUME TypeOK, PageInv, NEW c \in Calls, DecisionFails(c)
    PROVE  TypeOK' /\ PageInv'
<1>1. /\ calls[c].kind = "decision"
      /\ UNCHANGED <<status, token, shown, panel, floor, timer, saved, doubted, revived, blank>>
  BY DEF DecisionFails
<1>2. /\ calls[c].gate \in Gates
      /\ buttons' \in [Gates -> {"enabled", "deciding", "spent"}]
      /\ buttons'[calls[c].gate] = "enabled"
      /\ \A h \in Gates \ {calls[c].gate} : buttons'[h] = buttons[h]
  BY DEF DecisionFails, TypeOK, Call
<1>3. /\ calls' \in [Calls -> Call]
      /\ calls'[c].kind = "none" /\ calls'[c].run = NoRun
      /\ \A d \in Calls \ {c} : calls'[d] = calls[d]
      /\ overlapped' = overlapped
  BY DoneStep DEF DecisionFails
<1>4. TypeOK'
  BY <1>1, <1>2, <1>3 DEF TypeOK
<1>5. RowsOK'
  BY <1>1, <1>2, <1>3 DEF PageInv, TypeOK, RowsOK
<1>6. PaintOK'
  BY <1>1 DEF PageInv, PaintOK
<1>7. ButtonsOK'
  BY <1>1, <1>2, <1>3 DEF PageInv, TypeOK, ButtonsOK, Polls
<1>8. RepliesOK'
  BY <1>1, <1>2, <1>3 DEF PageInv, TypeOK, RowsOK, RepliesOK, Polls
<1>9. OverlapOK'
  BY <1>1, <1>2, <1>3 DEF PageInv, TypeOK, OverlapOK, Polls
<1>10. WatchOK'
  BY <1>1, <1>2, <1>3 DEF PageInv, TypeOK, RowsOK, RepliesOK, OverlapOK, WatchOK,
     Polls
<1>11. ActiveIsShown'
  BY <1>1, <1>2, <1>3 DEF PageInv, TypeOK, ActiveIsShown, Polls
<1>12. SavedIsTrue'
  BY <1>1, <1>2, <1>3 DEF PageInv, TypeOK, RowsOK, RepliesOK, SavedIsTrue, Polls
<1>. QED
  BY <1>4, <1>5, <1>6, <1>7, <1>8, <1>9, <1>10, <1>11, <1>12 DEF PageInv

-----------------------------------------------------------------------------
(* Theorems.                                                               *)

LEMMA PageStep ==
    ASSUME TypeOK, PageInv, [Next]_vars
    PROVE  TypeOK' /\ PageInv'
<1>1. ASSUME NEW c \in Calls, Visits(c) PROVE TypeOK' /\ PageInv'
  BY <1>1, OpenKeeps, ViewKeeps, RefreshRunsKeeps, SubmitKeeps, RefreshNowKeeps, DecideKeeps
     DEF Visits
<1>2. ASSUME NEW c \in Calls, Tick(c) PROVE TypeOK' /\ PageInv'
  BY <1>2, RefreshNowKeeps DEF Tick
<1>3. ASSUME NEW c \in Calls, Handle(c) PROVE TypeOK' /\ PageInv'
  <2>1. Polls(c) \/ calls[c].kind = "list" \/ calls[c].kind = "start" \/ calls[c].kind = "decision"
    BY <1>3 DEF Handle, Response
  <2>. QED
    BY <1>3, <2>1, HandlePollKeeps, HandleStartKeeps, HandleDecisionKeeps
<1>4. ASSUME NEW c \in Calls, CallFails(c) PROVE TypeOK' /\ PageInv'
  BY <1>4, CallFailsKeeps
<1>5. ASSUME NEW c \in Calls, Delivered(c) PROVE TypeOK' /\ PageInv'
  BY <1>5, StatusComesKeeps, StatusFailsKeeps, StartComesKeeps, StartFailsKeeps,
     DecisionComesKeeps, DecisionFailsKeeps, ListComesKeeps DEF Delivered
<1>6. ASSUME NEW r \in Runs, RunMoves(r) \/ RunRevives(r) PROVE TypeOK' /\ PageInv'
  BY <1>6, RunMovesKeeps, RunRevivesKeeps
<1>7. ASSUME SubmitBlank \/ resetRun PROVE TypeOK' /\ PageInv'
  BY <1>7, SubmitBlankKeeps, resetRunKeeps
<1>8. CASE UNCHANGED vars
  <2>. USE <1>8 DEF vars, page, history
  <2>1. TypeOK' /\ RowsOK' /\ PaintOK' /\ ButtonsOK'
    BY DEF PageInv, TypeOK, RowsOK, PaintOK, ButtonsOK
  <2>2. RepliesOK' /\ OverlapOK' /\ WatchOK'
    BY DEF PageInv, RepliesOK, OverlapOK, WatchOK, Polls
  <2>3. ActiveIsShown' /\ SavedIsTrue'
    BY DEF PageInv, ActiveIsShown, SavedIsTrue, Polls
  <2>. QED
    BY <2>1, <2>2, <2>3 DEF PageInv
<1>. QED
  BY <1>1, <1>2, <1>3, <1>4, <1>5, <1>6, <1>7, <1>8 DEF Next

LEMMA PageInvHolds == Spec => [](TypeOK /\ PageInv)
<1>1. Init => TypeOK /\ PageInv
  <2>. SUFFICES ASSUME Init PROVE TypeOK /\ PageInv
    OBVIOUS
  <2>1. "begin" \in Panels /\ statusToPanel["idle"] = "begin"
    BY PanelFacts
  <2>2. TypeOK
    BY <2>1, NoCallFields DEF Init, TypeOK
  <2>3. \A c \in Calls : calls[c].kind = "none" /\ calls[c].run = NoRun
    BY NoCallFields DEF Init
  <2>4. PaintOK
    BY <2>1 DEF Init, PaintOK
  <2>5. RowsOK /\ ButtonsOK /\ RepliesOK /\ OverlapOK
    BY <2>3 DEF Init, RowsOK, ButtonsOK, RepliesOK, OverlapOK, Polls
  <2>6. WatchOK /\ ActiveIsShown /\ SavedIsTrue
    BY DEF Init, WatchOK, ActiveIsShown, SavedIsTrue
  <2>. QED
    BY <2>2, <2>4, <2>5, <2>6 DEF PageInv
<1>2. (TypeOK /\ PageInv) /\ [Next]_vars => (TypeOK /\ PageInv)'
  BY PageStep
<1>. QED
  BY <1>1, <1>2, PTL DEF Spec

\* Whatever comes in late, the page, its timer, its buttons and its fetches are
\* well typed: a reply always finds a row it was about.
THEOREM PageTyped == Spec => []TypeOK
  BY PageInvHolds, PTL

\* A gate that is painted for the active run has its panel (the floor of an
\* earlier decision never hides it), and buttons that are busy belong to a
\* decision that is out (applyRunState, handleApproval).
THEOREM GatesOffered == Spec => []GateIsOffered
<1>1. TypeOK /\ PageInv => GateIsOffered
  BY DEF PageInv, PaintOK, ButtonsOK, GateIsOffered, GatePanel
<1>. QED
  BY PageInvHolds, <1>1, PTL

\* Another run than the active one is painted only until a fetch that is out, or
\* after a call for the active run went astray.
THEOREM ActiveShown == Spec => []ActiveIsShown
<1>1. PageInv => ActiveIsShown
  BY DEF PageInv
<1>. QED
  BY PageInvHolds, <1>1, PTL

\* What localStorage keeps as over is over, but for runs that the server revived
\* after their end, calls that went astray and rejections that are still to be
\* seen (upsertRun, the refresh of the list).
THEOREM SavedRunsTrue == Spec => []SavedIsTrue
<1>1. PageInv => SavedIsTrue
  BY DEF PageInv
<1>. QED
  BY PageInvHolds, <1>1, PTL

\* The timer goes on until the end of a run is shown, unless calls went astray
\* or overlapped, the run came back after its end, or the last to touch the timer
\* was a submit without a brief (startPolling, stopPolling, pollStatus).
THEOREM WatchGoesOn == Spec => []KeepsWatching
<1>1. PageInv => KeepsWatching
  BY DEF PageInv, WatchOK, KeepsWatching, Starting
<1>. QED
  BY PageInvHolds, <1>1, PTL
================================================================================
