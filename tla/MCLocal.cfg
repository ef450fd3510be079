\* Two commands over two incarnations of the directory; every call may fail.
SPECIFICATION LocalSpec
CONSTANTS
  p1 = p1
  p2 = p2
  Procs = {p1, p2}
  Ops = {"ensure", "gate", "split", "destroy"}
  Splits = {"a"}
  Kinds = {"local", "cloudrun"}
  Remote = {"cloudrun"}
  None = None
  Faults = {"write", "fsync", "refresh", "rename", "purge", "audit", "crash"}
  MaxTries = 2
  MaxDirs = 2
  MaxVersion = 1
SYMMETRY CommandSymmetry
CHECK_DEADLOCK FALSE
INVARIANTS
  LocalSound
  HolderMoves
PROPERTIES
  ImplementsDocument
