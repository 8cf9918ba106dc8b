------------------------------ MODULE VideoRun ------------------------------
(***************************************************************************)
(* What a run of the video workflow promises to those who pay for it and   *)
(* decide on it, without threads, jobs or callers: the order in which      *)
(* things happen to it.  Ideas are approved before clips are paid for,     *)
(* clips are paid for before a render, a render is started before an       *)
(* upload, both gates are approved before an upload, and the run is called *)
(* completed only with the URL of an upload.  The promise does not say     *)
(* that anything happens, nor that it happens once.                        *)
(***************************************************************************)
EXTENDS Naturals

CONSTANT Gates    \* the decisions of people; the first one is "ideation"

VARIABLES
    approvals,    \* the gates somebody has approved
    submissions,  \* number of submissions of clips
    renders,      \* number of renders started
    uploads,      \* number of uploads
    published,    \* the URL of an upload is stored
    completed     \* the run is shown as completed

vars == <<approvals, submissions, renders, uploads, published, completed>>

Init ==
    /\ approvals = {}
    /\ submissions = 0 /\ renders = 0 /\ uploads = 0
    /\ published = FALSE /\ completed = FALSE

Approve ==
    /\ \E g \in Gates : approvals' = approvals \cup {g}
    /\ UNCHANGED <<submissions, renders, uploads, published, completed>>

Submit ==
    /\ "ideation" \in approvals
    /\ submissions' = submissions + 1
    /\ completed' \in {completed, FALSE}
    /\ UNCHANGED <<approvals, renders, uploads, published>>

Render ==
    /\ submissions > 0
    /\ renders' = renders + 1
    /\ UNCHANGED <<approvals, submissions, uploads, published, completed>>

Upload ==
    /\ approvals = Gates /\ renders > 0
    /\ uploads' = uploads + 1
    /\ UNCHANGED <<approvals, submissions, renders, published, completed>>

Publish ==
    /\ uploads > 0
    /\ published' = TRUE /\ completed' = TRUE
    /\ UNCHANGED <<approvals, submissions, renders, uploads>>

\* What the run is shown as comes and goes: a late failure takes the completion back, and
\* a call that is back may show it again.
Show ==
    /\ completed' => published
    /\ completed' \in BOOLEAN
    /\ UNCHANGED <<approvals, submissions, renders, uploads, published>>

Next == Approve \/ Submit \/ Render \/ Upload \/ Publish \/ Show

Spec == Init /\ [][Next]_vars

=============================================================================
