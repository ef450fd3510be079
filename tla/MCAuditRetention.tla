-------------------------- MODULE MCAuditRetention --------------------------
(***************************************************************************)
(* Two environments in one database, caps of one and two rows.             *)
(***************************************************************************)
EXTENDS AuditRetention, TLC

CONSTANTS e1, e2

EnvSymmetry == Permutations(Envs)
=============================================================================
