SPECIFICATION FairTransactionSpec
CONSTANTS
  v1 = v1
  v2 = v2
  v3 = v3
  Versions = {v1, v2, v3}
  Contract <- MCContract
  Foreign = Foreign
  None = None
  MaxFaults = 4
CHECK_DEADLOCK FALSE
INVARIANTS
  HostSound
PROPERTIES
  ImplementsHostConfig
  RollbackKeepsStopped
  JournalRecovered
