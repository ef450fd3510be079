SPECIFICATION RetentionSpec
CONSTANTS
  e1 = e1
  e2 = e2
  Envs = {e1, e2}
  Caps = {0, 1, 2}
  MaxBackups = 1
  MaxEvents = 7
  MaxArtifacts = 1
  MaxLosses = 1
SYMMETRY EnvSymmetry
INVARIANTS
  RetentionSound
PROPERTIES
  RetentionMonotonic
