------------------------- MODULE MCGenerationStore -------------------------
(***************************************************************************)
(* Instances of the generation store for TLC.                              *)
(***************************************************************************)
EXTENDS GenerationStore, TLC

CONSTANTS p1, p2, r1, c1, c2

TwoProcs == {p1, p2}
OneProc == {p1}
OneReader == {r1}
TwoContexts == {c1, c2}
OneContext == {c1}

\* The processes are alike, and every property of the run is one of safety.
ProcSymmetry == Permutations(TwoProcs)
=============================================================================
