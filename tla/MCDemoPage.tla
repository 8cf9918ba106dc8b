----------------------------- MODULE MCDemoPage -----------------------------
EXTENDS DemoPage, TLC

\* Runs and fetches are interchangeable; nothing chooses among them.
Symmetry == Permutations(Runs) \cup Permutations(Calls)

\* Bound: a page is followed until every run has had a call astray or two at once,
\* or has been revived, since most of what is claimed is claimed of the other runs.
OneIsSound == doubted \cup overlapped \cup revived # Runs

\* Bound: a run with a call astray is not followed on once it has been revived or had
\* two calls at once as well, of which only GateIsOffered still says something.
AstrayIsEnough == doubted \cap (overlapped \cup revived) = {}

\* Bound: one fetch for the list at a time; it touches no other part of the page.
OneList == Cardinality({c \in Calls : calls[c].kind = "list"}) <= 1

=============================================================================
