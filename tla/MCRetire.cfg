\* A retire that crashes, alone, beside every other verb, or beside reconciles.
SPECIFICATION FairRetireSpec
CONSTANTS
  DeploymentIds = {d1}
  RevisionIds = {r1, r2}
  BundleIds = {b1}
  CustomerIds = {c1}
  EndpointIds = {}
  PackIds = {}
  Keys = {k1}
  EntryLists <- MCEntryLists
  BasisPoints = 2
  MaxGeneration = 0
  None = None
  ForceChoices = {FALSE, TRUE}
  Besides = {{}, {"verbs"}, {"reconcile"}}
  MaxInterruptions = 1
INVARIANT RetireTypeOK
PROPERTIES
  StopUnrouted
  TeardownUnrouted
  WorkerGoneFirst
  ImplementsEngine
  RetireFinishes
CHECK_DEADLOCK FALSE
