---------------------------- MODULE MCLocalStore ----------------------------
(***************************************************************************)
(* Commands racing on one environment that is created, changed, destroyed  *)
(* and created again.                                                      *)
(***************************************************************************)
EXTENDS LocalStore, TLC

CONSTANTS p1, p2

CommandSymmetry == Permutations(Procs)
=============================================================================
