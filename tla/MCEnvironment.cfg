\* One bundle and customer whose deployment is removed and added again under
\* another id: revisions, splits, rollbacks, links, packs and overrides.
SPECIFICATION Spec
CONSTANTS
  DeploymentIds = {d1, d2}
  RevisionIds = {r1, r2}
  BundleIds = {b1}
  CustomerIds = {c1}
  EndpointIds = {e1}
  PackIds = {p1}
  Keys = {k1, k2}
  EntryLists <- MCEntryLists
  BasisPoints = 10000
  MaxGeneration = 2
  None = None
SYMMETRY MCSymmetry
CHECK_DEADLOCK FALSE
INVARIANTS
  DocumentSound
  RoutedServing
  RollbackTarget
  
PROPERTIES
  Admission
  ArchivedIsFinal
  LiveKeyIsStable
