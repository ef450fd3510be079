--------------------------- MODULE MCUpdateChannel ---------------------------
(***************************************************************************)
(* Two plans on the environment's channel, the second newer, and a third   *)
(* on the broadcast channel that requires the first.                       *)
(***************************************************************************)
EXTENDS UpdateChannel, TLC

CONSTANTS o1, o2, old, new, broadcast

MCChan == [p \in Plans |-> IF p = broadcast THEN "_" ELSE "env"]
MCSeq == [p \in Plans |-> IF p = new THEN 2 ELSE 1]
MCRequires == [p \in Plans |-> IF p = broadcast THEN {old} ELSE {}]

OperatorSymmetry == Permutations(Operators)
=============================================================================
