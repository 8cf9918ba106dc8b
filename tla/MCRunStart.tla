----------------------------- MODULE MCRunStart -----------------------------
EXTENDS RunStart, TLC

\* Handlers and runs are interchangeable; nothing chooses among them.
Symmetry == Permutations(Handlers) \cup Permutations(Runs)

=============================================================================
