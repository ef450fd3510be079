------------------------- MODULE MCTrustedPolicies -------------------------
(***************************************************************************)
(* Two handlers, the operator's key and another, two shares.               *)
(***************************************************************************)
EXTENDS TrustedPolicies, TLC

CONSTANTS h1, h2, h3, op, guest, even, odd

HandlerSymmetry == Permutations(Handlers)
=============================================================================
