---------------------------- MODULE MCAgentTurn -----------------------------
(* Two callers of three kinds: guarded both ways, in part, and by the middleware. *)
EXTENDS AgentTurn

CONSTANTS c1, c2

MCCallers == {c1, c2}
MCKinds == {"ideator", "editor", "chat"}

=============================================================================
