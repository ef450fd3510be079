\* Two invocations and two deploy keys; requests are lost or late, and other
\* operators write in between.
SPECIFICATION DeployFairSpec
CONSTANTS
  p1 = p1
  p2 = p2
  k1 = k1
  k2 = k2
  Callers = {p1, p2}
  Keys = {k1, k2}
  Overriding = {k1}
  LedgerCap = 3
  MaxGiveUps = 1
  MaxOthers = 1
CHECK_DEADLOCK FALSE
INVARIANTS
  DeploySound
PROPERTIES
  RetryCompletes
