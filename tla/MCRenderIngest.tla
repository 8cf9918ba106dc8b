--------------------------- MODULE MCRenderIngest ---------------------------
(* RenderIngest with two workers and two renders.                          *)
EXTENDS RenderIngest, TLC

CONSTANTS w1, w2

Either == {"db", "inprocess"}
Db     == {"db"}

\* For the runs that check invariants only.
Symmetry == Permutations(Workers)
=============================================================================
