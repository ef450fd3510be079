------------------------- MODULE MCRetireSequence -------------------------
(***************************************************************************)
(* Constants for model-checking RetireSequence.                            *)
(***************************************************************************)
EXTENDS RetireSequence

\* Full weight on one revision.
MCEntryLists ==
  {<<[revision_id |-> r, weight_bps |-> 2]>> : r \in RevisionIds}
=============================================================================
