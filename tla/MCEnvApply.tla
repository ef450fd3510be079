----------------------------- MODULE MCEnvApply -----------------------------
(***************************************************************************)
(* Two applies, two manifests, one bundle.                                 *)
(***************************************************************************)
EXTENDS EnvApply

CONSTANTS a1, a2, m1, m2, b1
=============================================================================
