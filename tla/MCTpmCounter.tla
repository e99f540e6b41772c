---------------------------- MODULE MCTpmCounter ----------------------------
(* TpmCounter for TLC.                                                      *)
EXTENDS TpmCounter, TLC

Symmetry == Permutations(Threads)
=============================================================================
