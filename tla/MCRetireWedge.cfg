\* A retire left alone, with two packs, so that a config override can lose its pack.
SPECIFICATION FairRetireSpec
CONSTANTS
  DeploymentIds = {d1}
  RevisionIds = {r1, r2}
  BundleIds = {b1}
  CustomerIds = {c1}
  EndpointIds = {}
  PackIds = {p1, p2}
  Keys = {}
  EntryLists <- MCEntryLists
  BasisPoints = 2
  MaxGeneration = 0
  None = None
  ForceChoices = {FALSE}
  Besides = {{}}
  MaxInterruptions = 0
PROPERTY RetireFinishes
CHECK_DEADLOCK FALSE
