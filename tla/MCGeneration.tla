---------------------------- MODULE MCGeneration ----------------------------
(***************************************************************************)
(* Generation on small projects.  No definition tells two signatures       *)
(* apart, so the runs without liveness take them as a symmetry set.        *)
(***************************************************************************)
EXTENDS Generation, TLC

SigSymmetry == Permutations(Sigs)
=============================================================================
