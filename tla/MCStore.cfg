SPECIFICATION ServerSpec
CONSTANTS
  None = None
  create = create  patch = patch  set = set  rollback = rollback  reconcile = reconcile
  plain = plain  split = split
  Keys = {k1, k2, k3}
  Attempts = {a1, a2}
  Verbs <- MCVerbs
  Creates <- MCCreates
  Pinned <- MCPinned
  Silent <- MCSilent
  Contents <- MCContents
  Apply <- MCApply
  MaxLedger = 1
  MaxCommits = 3
SYMMETRY Symmetry
INVARIANTS
  ServerTypeOK
  AnswersSound
PROPERTIES
  
  
  ImplementsContract
