---------------------------- MODULE MCCommandRun ----------------------------
(* Two writes that nothing tells apart but what is done to them, one load. *)
EXTENDS CommandRun, TLC

Symmetry == Permutations(Writes)
=============================================================================
