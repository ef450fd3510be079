------------------------- MODULE MCHostTransaction -------------------------
(***************************************************************************)
(* Two deployments that share a storage contract and one that does not.    *)
(***************************************************************************)
EXTENDS HostTransaction

CONSTANTS v1, v2, v3

MCContract(v) == IF v = v3 THEN "migrated" ELSE "original"
=============================================================================
