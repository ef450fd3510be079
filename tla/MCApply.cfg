\* Two applies of two manifests, side by side or not, one move of an operator.
SPECIFICATION ApplyFairSpec
CONSTANTS
  a1 = a1
  a2 = a2
  m1 = m1
  m2 = m2
  b1 = b1
  Appliers = {a1, a2}
  Manifests = {m1, m2}
  Bundles = {b1}
  MaxMoves = 1
CHECK_DEADLOCK FALSE
INVARIANTS
  ApplySound
PROPERTIES
  ClaimKept
  
