---------------------------- MODULE MCClipIngest ----------------------------
(* Two videos and two workers.                                             *)
EXTENDS ClipIngest

CONSTANTS w1, w2

Symmetry == Permutations(Workers)
=============================================================================
