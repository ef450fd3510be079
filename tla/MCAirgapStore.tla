---------------------------- MODULE MCAirgapStore ----------------------------
(***************************************************************************)
(* Two plans that share a blob.                                            *)
(***************************************************************************)
EXTENDS AirgapStore, TLC

CONSTANTS o1, o2, first, second

MCNeeds == [p \in Plans |-> IF p = first THEN {"a", "b"} ELSE {"b"}]

MCSequence == [p \in Plans |-> IF p = first THEN 1 ELSE 2]

OperatorSymmetry == Permutations(Operators)
=============================================================================
