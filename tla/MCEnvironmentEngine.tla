------------------------ MODULE MCEnvironmentEngine ------------------------
(***************************************************************************)
(* Constants for model-checking EnvironmentEngine.                         *)
(***************************************************************************)
EXTENDS EnvironmentEngine

\* Full weight on one revision, an even split of two (one of them possibly
\* listed twice), and a list that does not add up.
MCEntryLists ==
  {<<[revision_id |-> r, weight_bps |-> 10000]>> : r \in RevisionIds}
    \cup {<<[revision_id |-> q, weight_bps |-> 5000],
            [revision_id |-> r, weight_bps |-> 5000]>> : q, r \in RevisionIds}
    \cup {<<[revision_id |-> r, weight_bps |-> 5000]>> : r \in RevisionIds}

\* Ids and keys are interchangeable: nothing in the engine orders them.
MCSymmetry ==
  Permutations(DeploymentIds) \cup Permutations(RevisionIds)
    \cup Permutations(BundleIds) \cup Permutations(CustomerIds)
    \cup Permutations(PackIds) \cup Permutations(Keys)
=============================================================================
