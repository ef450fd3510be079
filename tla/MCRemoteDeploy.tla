--------------------------- MODULE MCRemoteDeploy ---------------------------
(***************************************************************************)
(* Two callers, two deploy keys of one bundle.                              *)
(***************************************************************************)
EXTENDS RemoteDeploy

CONSTANTS p1, p2, k1, k2
=============================================================================
